----------------------------- MODULE PartsProofs -----------------------------
(***************************************************************************)
(* What is proved of the station, the deferred restart, the scan cache and *)
(* the crash report, for every value of the constants.  Each part has an   *)
(* inductive invariant of its own; the run lets one part go while the      *)
(* others stand still, so the parts' invariants make the run's.            *)
(***************************************************************************)
EXTENDS MCParts, SequenceTheorems, WellFoundedInduction, TLAPS

-----------------------------------------------------------------------------
(* The clock wraps: what (x - y) % W and (x + 1) % W are, and that a time  *)
(* measured on it grows by one with every tick until it wraps itself.      *)

LEMMA Modulo ==
    ASSUME NEW W \in Nat \ {0}, NEW x \in 0..(W - 1), NEW y \in 0..(W - 1)
    PROVE  /\ (x + 1) % W = IF x + 1 = W THEN 0 ELSE x + 1
           /\ (x - y) % W = IF x >= y THEN x - y ELSE x - y + W
OBVIOUS

LEMMA Elapsed ==
    ASSUME NEW W \in Nat \ {0}, NEW x \in 0..(W - 1), NEW y \in 0..(W - 1)
    PROVE  /\ (x + 1) % W \in 0..(W - 1)
           /\ (x - y) % W \in 0..(W - 1)
           /\ (x - x) % W = 0
           /\ (((x + 1) % W) - y) % W = IF ((x - y) % W) + 1 = W THEN 0 ELSE ((x - y) % W) + 1
<1>1. (x + 1) % W \in 0..(W - 1)
    BY Modulo
<1>2. (x - y) % W \in 0..(W - 1)
    BY Modulo
<1>3. (x - x) % W = 0
    BY Modulo
<1>4. (((x + 1) % W) - y) % W = IF (x + 1) % W >= y THEN ((x + 1) % W) - y ELSE ((x + 1) % W) - y + W
    BY <1>1, Modulo
<1>5. (((x + 1) % W) - y) % W = IF ((x - y) % W) + 1 = W THEN 0 ELSE ((x - y) % W) + 1
    BY <1>4, Modulo
<1> QED
    BY <1>1, <1>2, <1>3, <1>5

(* Of three times, how long ago the first was. *)
LEMMA Between ==
    ASSUME NEW W \in Nat \ {0}, NEW x \in 0..(W - 1), NEW y \in 0..(W - 1), NEW z \in 0..(W - 1)
    PROVE  /\ (x - z) % W <= ((x - y) % W) + ((y - z) % W)
           /\ (x - y) % W <= (x - z) % W => (y - z) % W <= (x - z) % W
<1>1. /\ (x - z) % W = IF x >= z THEN x - z ELSE x - z + W
      /\ (x - y) % W = IF x >= y THEN x - y ELSE x - y + W
      /\ (y - z) % W = IF y >= z THEN y - z ELSE y - z + W
    BY Modulo
<1> QED
    BY <1>1
-----------------------------------------------------------------------------
(* The crash report.  A dump in flash is of a crash that happened; one that *)
(* was told by no failed or interrupted erase is told at most once, because *)
(* while it is still to be told (before "erase") nobody told it.           *)

CrashTyped ==
    /\ crashes \in 0..MaxCrashes
    /\ dump.crash \in 0..crashes
    /\ dump # Crash!NoDump => dump.crash > 0
    /\ told \in [Crash!Crashes -> 0..2]
    /\ dump.intact = FALSE => dump.readable = {}

CrashInv ==
    /\ CrashTyped
    /\ \A c \in Crash!Crashes : c > crashes => told[c] = 0
    /\ stage \in {"decode", "erase"} => dump # Crash!NoDump
    /\ \A c \in Crash!Crashes \ unspent : told[c] <= 1
    /\ dump # Crash!NoDump /\ dump.crash \notin unspent /\ stage # "erase" => told[dump.crash] = 0
    /\ stage = "running" /\ dump # Crash!NoDump /\ dump.crash \notin unspent => build \notin dump.readable

LEMMA CrashInitial == Init => CrashInv
BY CrashAssumption DEF Init, Crash!Init, CrashInv, CrashTyped, Crash!NoDump, Crash!CrashesAssumption

LEMMA CrashStep == CrashInv /\ Crash!Next => CrashInv'
<1> SUFFICES ASSUME CrashInv, Crash!Next PROVE CrashInv'
    OBVIOUS
<1> USE CrashAssumption DEF Crash!CrashesAssumption, CrashInv, CrashTyped, Crash!Crashes, Crash!NoDump, Crash!Reboot
<1>1. CASE Crash!Panic
    BY <1>1 DEF Crash!Panic
<1>2. CASE Crash!PowerCut
    BY <1>2 DEF Crash!PowerCut
<1>3. CASE Crash!Update
    BY <1>3 DEF Crash!Update
<1>4. CASE Crash!Check
    BY <1>4 DEF Crash!Check
<1>5. CASE Crash!Report
    BY <1>5 DEF Crash!Report, Crash!Decodes
<1>6. CASE Crash!KeepUnread
    BY <1>6 DEF Crash!KeepUnread, Crash!Decodes
<1>7. CASE Crash!Erase
    BY <1>7 DEF Crash!Erase, Crash!Erased
<1> QED
    BY <1>1, <1>2, <1>3, <1>4, <1>5, <1>6, <1>7 DEF Crash!Next
-----------------------------------------------------------------------------
(* The scan cache.  While a list counts as fresh, its age is what the      *)
(* clock says it is: the two part only when the clock has come round.      *)

ScanTyped ==
    /\ clock \in 0..(WRAP - 1)
    /\ lastScanMs \in 0..(WRAP - 1)
    /\ age \in 0..WRAP

ScanInv ==
    /\ ScanTyped
    /\ scannedNetworks = lastGood
    /\ phase = "setup" => scanning = "none" /\ scanCompleted
    /\ scanning = "boot" => phase = "off"
    /\ scanning = "page" => phase = "station"
    /\ phase = "off" \/ phase = "setup" \/ phase = "station"
    /\ scanning = "none" \/ scanning = "boot" \/ scanning = "page"
    /\ phase # "setup" => served.age \notin SCAN_MAX_AGE..(WRAP - 1)
    /\ scanCompleted /\ age < WRAP => age = (clock - lastScanMs) % WRAP

LEMMA ScanInitial == Init => ScanInv
BY ScanAssumption DEF Init, Scan!Init, Scan!NotScanning, ScanInv, ScanTyped, Scan!ClockAssumption

LEMMA ScanStep == ScanInv /\ Scan!Next => ScanInv'
<1> SUFFICES ASSUME ScanInv, Scan!Next PROVE ScanInv'
    OBVIOUS
<1> USE ScanAssumption DEF Scan!ClockAssumption, ScanInv, ScanTyped, Scan!NotScanning, Scan!result
<1>1. CASE Scan!Join
    BY <1>1 DEF Scan!Join
<1>2. CASE Scan!ScanForSetup
    BY <1>2 DEF Scan!ScanForSetup
<1>3. CASE Scan!ScanEnds
    BY <1>3, Elapsed DEF Scan!ScanEnds, Scan!recordScan, Scan!Recorded
<1>4. CASE Scan!handleGetNetworks
    BY <1>4, Elapsed DEF Scan!handleGetNetworks, Scan!Fresh
<1>5. CASE Scan!Tick
  <2>1. WRAP \in Nat \ {0} /\ clock' = (clock + 1) % WRAP /\ UNCHANGED <<phase, scanning, lastGood, served>>
        /\ UNCHANGED <<scannedNetworks, scanCompleted, lastScanMs>> /\ age' = IF age < WRAP THEN age + 1 ELSE age
    BY <1>5 DEF Scan!Tick
  <2>2. clock' \in 0..(WRAP - 1)
    BY <2>1, Elapsed
  <2>3. age < WRAP /\ age + 1 < WRAP /\ age = (clock - lastScanMs) % WRAP => age + 1 = (clock' - lastScanMs) % WRAP
    <3>1. (((clock + 1) % WRAP) - lastScanMs) % WRAP
             = IF ((clock - lastScanMs) % WRAP) + 1 = WRAP THEN 0 ELSE ((clock - lastScanMs) % WRAP) + 1
        BY <2>1, Elapsed
    <3> QED
        BY <2>1, <3>1
  <2>4. scanCompleted' /\ age' < WRAP => age' = (clock' - lastScanMs') % WRAP
    BY <2>1, <2>3
  <2> QED
    BY <2>1, <2>2, <2>4
<1> QED
    BY <1>1, <1>2, <1>3, <1>4, <1>5 DEF Scan!Next
-----------------------------------------------------------------------------
(* The deferred restart.  Once the flag is stored, the stored time is as   *)
(* old as the last answer; a pass of update() that has read the time       *)
(* either read the present one or began before the answer.                 *)

Places == {"idle", "clock first", "time first", "time", "clock", "compare"}
RestartTyped ==
    /\ clock \in 0..(WRAP - 1)
    /\ restartTime \in 0..(WRAP - 1)
    /\ pass \in [at : Places, now : 0..(WRAP - 1), time : 0..(WRAP - 1)]
    /\ request \in {0, 1, 2}
    /\ requests \in Nat
    /\ lag \in 0..MaxLag
    /\ sinceAnswer \in Restart!Ages

NowRead == pass.at = "time" \/ pass.at = "compare"
TimeRead == pass.at = "clock" \/ pass.at = "compare"

StoresInOrder ==
    /\ requests = 0 => ~ restartRequested /\ request = 0
    /\ requests > 0 /\ request = 0 => restartRequested
    /\ requests = 1 /\ restartRequested => request = 0
    /\ ~ restartRequested => pass.at = "idle"

AnswerAge ==
    /\ requests = 0 \/ request # 0 => sinceAnswer = 0
    /\ request = 2 => restartTime = clock
    /\ requests > 0 /\ request = 0 => (clock - restartTime) % WRAP = sinceAnswer
    /\ sinceAnswer <= lag + RESTART_DELAY + MaxLag

PassReads ==
    /\ NowRead => (clock - pass.now) % WRAP <= lag
    /\ TimeRead => pass.time = restartTime \/ sinceAnswer <= lag

FirstPassReads ==
    requests = 1 =>
       /\ NowRead => (clock - pass.now) % WRAP <= sinceAnswer
       /\ TimeRead => pass.time = restartTime

RestartInv == RestartTyped /\ StoresInOrder /\ (~ restarted => AnswerAge /\ PassReads /\ FirstPassReads)

LEMMA RestartInitial == Init => RestartInv
BY RestartAssumption
   DEF Init, Restart!Init, RestartInv, RestartTyped, StoresInOrder, AnswerAge, PassReads, FirstPassReads,
       Restart!ClockAssumption, Restart!Resting, Places, Restart!Ages, NowRead, TimeRead

LEMMA RestBegins == Restart!Resting \in [at : Places, now : 0..(WRAP - 1), time : 0..(WRAP - 1)]
<1>1. 0 \in 0..(WRAP - 1)
    BY RestartAssumption DEF Restart!ClockAssumption
<1> QED
    BY <1>1 DEF Restart!Resting, Places

LEMMA RestartTypedStep == ASSUME RestartTyped, Restart!Next PROVE RestartTyped'
<1> USE RestartAssumption DEF Restart!ClockAssumption, RestartTyped
<1>1. CASE Restart!Answer
  <2>1. sinceAnswer' \in Restart!Ages /\ request' \in {0, 1, 2} /\ requests' \in Nat
    BY <1>1 DEF Restart!Answer, Restart!Ages
  <2> QED
    BY <1>1, <2>1 DEF Restart!Answer
<1>2. CASE Restart!requestRestart
  <2>1. restartTime' \in 0..(WRAP - 1)
    BY <1>2 DEF Restart!requestRestart, Restart!Stamp
  <2>2. request' \in {0, 1, 2}
    BY <1>2 DEF Restart!requestRestart
  <2> QED
    BY <1>2, <2>1, <2>2 DEF Restart!requestRestart
<1>3. CASE Restart!SeeFlag
  <2>1. pass' \in [at : Places, now : 0..(WRAP - 1), time : 0..(WRAP - 1)]
    BY <1>3, RestBegins DEF Restart!SeeFlag, Restart!Return, Restart!Read, Places
  <2>2. lag' = lag \/ lag' = 0
    BY <1>3, Zenon DEF Restart!SeeFlag, Restart!Return
  <2>3. UNCHANGED <<restartRequested, restartTime, request, requests, clock, restarted, sinceAnswer>>
    BY <1>3, Zenon DEF Restart!SeeFlag
  <2> QED
    BY <2>1, <2>2, <2>3
<1>4. CASE Restart!ReadOperand
  <2>1. pass' \in [at : Places, now : 0..(WRAP - 1), time : 0..(WRAP - 1)]
    BY <1>4 DEF Restart!ReadOperand, Places
  <2> QED
    BY <1>4, <2>1 DEF Restart!ReadOperand
<1>5. CASE Restart!Compare
  <2>1. pass' \in [at : Places, now : 0..(WRAP - 1), time : 0..(WRAP - 1)] /\ lag' \in 0..MaxLag
    BY <1>5, RestBegins DEF Restart!Compare, Restart!Return
  <2> QED
    BY <1>5, <2>1 DEF Restart!Compare
<1>6. CASE Restart!Tick
  <2>1. clock' \in 0..(WRAP - 1)
    BY <1>6, Elapsed DEF Restart!Tick
  <2>2. lag' \in 0..MaxLag
    BY <1>6 DEF Restart!Tick
  <2>3. sinceAnswer' \in Restart!Ages
    BY <1>6 DEF Restart!Tick, Restart!Older, Restart!Ages
  <2> QED
    BY <1>6, <2>1, <2>2, <2>3 DEF Restart!Tick
<1> QED
    BY <1>1, <1>2, <1>3, <1>4, <1>5, <1>6 DEF Restart!Next, Restart!update

LEMMA StoresInOrderStep == ASSUME RestartTyped, StoresInOrder, Restart!Next PROVE StoresInOrder'
<1> USE DEF RestartTyped, StoresInOrder
<1>1. CASE Restart!Answer
    BY <1>1 DEF Restart!Answer
<1>2. CASE Restart!requestRestart
    BY <1>2 DEF Restart!requestRestart, Restart!StoreOrder
<1>3. CASE Restart!SeeFlag
  <2>1. restartRequested \/ pass' = Restart!Resting
    BY <1>3, Zenon DEF Restart!SeeFlag, Restart!Return
  <2>2. UNCHANGED <<restartRequested, request, requests>>
    BY <1>3, Zenon DEF Restart!SeeFlag
  <2> QED
    BY <2>1, <2>2 DEF Restart!Resting
<1>4. CASE Restart!ReadOperand
    BY <1>4 DEF Restart!ReadOperand
<1>5. CASE Restart!Compare
    BY <1>5 DEF Restart!Compare, Restart!Return
<1>6. CASE Restart!Tick
    BY <1>6 DEF Restart!Tick
<1> QED
    BY <1>1, <1>2, <1>3, <1>4, <1>5, <1>6 DEF Restart!Next, Restart!update

LEMMA AnswerAgeStep ==
    ASSUME RestartTyped, StoresInOrder, AnswerAge, PassReads, ~ restarted, Restart!Next
    PROVE  ~ restarted' => AnswerAge'
<1> USE RestartAssumption DEF Restart!ClockAssumption, AnswerAge
<1>1. CASE Restart!Answer
    BY <1>1 DEF Restart!Answer, RestartTyped
<1>2. CASE Restart!requestRestart
  <2>1. CASE request = 1
    BY <1>2, <2>1 DEF Restart!requestRestart, Restart!StoreOrder, Restart!Stamp
  <2>2. CASE request = 2
    <3>1. (clock - restartTime) % WRAP = 0
        BY <2>2, Elapsed DEF RestartTyped
    <3> QED
        BY <1>2, <2>2, <3>1 DEF Restart!requestRestart, Restart!StoreOrder
  <2> QED
    BY <1>2, <2>1, <2>2 DEF Restart!requestRestart
<1>3. CASE Restart!SeeFlag
  <2>1. lag' = lag \/ ~ restartRequested
    BY <1>3, Zenon DEF Restart!SeeFlag, Restart!Return
  <2>2. ~ restartRequested => sinceAnswer = 0
    BY DEF StoresInOrder, RestartTyped
  <2>3. lag' = lag \/ lag' = 0
    BY <1>3, Zenon DEF Restart!SeeFlag, Restart!Return
  <2>4. UNCHANGED <<restartTime, request, requests, clock, sinceAnswer>>
    BY <1>3, Zenon DEF Restart!SeeFlag
  <2> QED
    BY <2>1, <2>2, <2>3, <2>4 DEF RestartTyped
<1>4. CASE Restart!ReadOperand
    BY <1>4 DEF Restart!ReadOperand
<1>5. CASE Restart!Compare
  <2> SUFFICES ASSUME ~ restarted' PROVE sinceAnswer <= RESTART_DELAY + MaxLag
    BY <1>5 DEF Restart!Compare, Restart!Return
  <2>1. (pass.now - pass.time) % WRAP <= RESTART_DELAY
    <3>1. ~ ((pass.now - pass.time) % WRAP > RESTART_DELAY)
        BY <1>5, Zenon DEF Restart!Compare, Restart!Due
    <3>2. (pass.now - pass.time) % WRAP \in 0..(WRAP - 1)
        BY Elapsed DEF RestartTyped
    <3> QED
        BY <3>1, <3>2
  <2>2. CASE sinceAnswer <= lag
    BY <2>2 DEF RestartTyped, Restart!Ages
  <2>3. CASE pass.time = restartTime /\ requests > 0 /\ request = 0
    <3>1. (clock - restartTime) % WRAP <= ((clock - pass.now) % WRAP) + ((pass.now - restartTime) % WRAP)
        BY Between DEF RestartTyped
    <3>2. (clock - pass.now) % WRAP <= MaxLag
        BY <1>5, Elapsed DEF Restart!Compare, PassReads, NowRead, RestartTyped
    <3> QED
        BY <2>1, <2>3, <3>1, <3>2, Elapsed DEF RestartTyped
  <2>4. CASE requests = 0 \/ request # 0
    BY <2>4
  <2> QED
    BY <1>5, <2>2, <2>3, <2>4 DEF PassReads, TimeRead, Restart!Compare, RestartTyped
<1>6. CASE Restart!Tick
  <2>1. request = 0 /\ clock' = (clock + 1) % WRAP /\ lag' = lag + 1 /\ lag < MaxLag
        /\ UNCHANGED <<restartTime, request, requests>>
        /\ sinceAnswer' = IF requests = 0 THEN 0 ELSE Restart!Older(sinceAnswer)
    BY <1>6 DEF Restart!Tick
  <2>2. requests # 0 => sinceAnswer' = sinceAnswer + 1
    BY <2>1 DEF Restart!Older, Restart!Ages, RestartTyped
  <2>3. sinceAnswer' <= lag' + RESTART_DELAY + MaxLag
    BY <2>1, <2>2 DEF RestartTyped, Restart!Ages
  <2>4. requests > 0 => (clock' - restartTime) % WRAP = sinceAnswer + 1
    <3>1. (((clock + 1) % WRAP) - restartTime) % WRAP
             = IF ((clock - restartTime) % WRAP) + 1 = WRAP THEN 0 ELSE ((clock - restartTime) % WRAP) + 1
        <4>1. WRAP \in Nat \ {0} /\ clock \in 0..(WRAP - 1) /\ restartTime \in 0..(WRAP - 1)
            BY DEF RestartTyped
        <4> QED
            BY <4>1, Elapsed
    <3> QED
        BY <2>1, <3>1 DEF RestartTyped, Restart!Ages
  <2> QED
    BY <2>1, <2>2, <2>3, <2>4 DEF RestartTyped
<1> QED
    BY <1>1, <1>2, <1>3, <1>4, <1>5, <1>6 DEF Restart!Next, Restart!update

LEMMA SeeFlagReadsNothing ==
    ASSUME RestartTyped, Restart!SeeFlag
    PROVE  pass'.at \in {"idle", "clock first", "time first"}
<1>1. \/ pass' = Restart!Resting
      \/ pass' = [pass EXCEPT !.at = "clock first"]
      \/ pass' = [pass EXCEPT !.at = "time first"]
    BY Zenon DEF Restart!SeeFlag, Restart!Return, Restart!Read
<1>2. pass \in [at : Places, now : 0..(WRAP - 1), time : 0..(WRAP - 1)]
    BY DEF RestartTyped
<1>3. CASE pass' = Restart!Resting
    BY <1>3 DEF Restart!Resting
<1>4. CASE pass' = [pass EXCEPT !.at = "clock first"]
    BY <1>2, <1>4
<1>5. CASE pass' = [pass EXCEPT !.at = "time first"]
    BY <1>2, <1>5
<1> QED
    BY <1>1, <1>3, <1>4, <1>5

LEMMA PassReadsStep ==
    ASSUME RestartTyped, StoresInOrder, AnswerAge, PassReads, ~ restarted, Restart!Next
    PROVE  PassReads'
<1> USE DEF PassReads, NowRead, TimeRead
<1>1. CASE Restart!Answer
    BY <1>1 DEF Restart!Answer, RestartTyped
<1>2. CASE Restart!requestRestart
  <2>1. sinceAnswer = 0 /\ lag >= 0
    BY <1>2 DEF Restart!requestRestart, AnswerAge, RestartTyped
  <2> QED
    BY <1>2, <2>1 DEF Restart!requestRestart
<1>3. CASE Restart!SeeFlag
    BY <1>3, SeeFlagReadsNothing
<1>4. CASE Restart!ReadOperand
  <2>1. (clock - clock) % WRAP = 0 /\ lag >= 0
    BY RestartAssumption, Elapsed DEF Restart!ClockAssumption, RestartTyped
  <2> QED
    BY <1>4, <2>1 DEF Restart!ReadOperand, RestartTyped
<1>5. CASE Restart!Compare
    BY <1>5 DEF Restart!Compare, Restart!Return, Restart!Resting
<1>6. CASE Restart!Tick
  <2> USE RestartAssumption DEF Restart!ClockAssumption
  <2>1. clock' = (clock + 1) % WRAP /\ lag' = lag + 1 /\ lag < MaxLag /\ UNCHANGED <<restartTime, pass>>
        /\ sinceAnswer' = IF requests = 0 THEN 0 ELSE Restart!Older(sinceAnswer)
    BY <1>6 DEF Restart!Tick
  <2>2. sinceAnswer' <= sinceAnswer + 1
    BY <2>1 DEF Restart!Older, RestartTyped, Restart!Ages
  <2>3. sinceAnswer <= lag => sinceAnswer' <= lag'
    BY <2>1, <2>2 DEF RestartTyped, Restart!Ages
  <2>4. (((clock + 1) % WRAP) - pass.now) % WRAP
             = IF ((clock - pass.now) % WRAP) + 1 = WRAP THEN 0 ELSE ((clock - pass.now) % WRAP) + 1
    BY Elapsed DEF RestartTyped
  <2>5. (clock - pass.now) % WRAP \in 0..(WRAP - 1)
    BY Elapsed DEF RestartTyped
  <2>6. (clock - pass.now) % WRAP <= lag => (clock' - pass.now) % WRAP <= lag'
    BY <2>1, <2>4, <2>5 DEF RestartTyped
  <2> QED
    BY <2>1, <2>3, <2>6
<1> QED
    BY <1>1, <1>2, <1>3, <1>4, <1>5, <1>6 DEF Restart!Next, Restart!update

LEMMA FirstPassReadsStep ==
    ASSUME RestartTyped, StoresInOrder, AnswerAge, PassReads, FirstPassReads, ~ restarted, Restart!Next
    PROVE  FirstPassReads'
<1> USE DEF FirstPassReads, NowRead, TimeRead
<1>1. CASE Restart!Answer
    BY <1>1 DEF Restart!Answer, RestartTyped, StoresInOrder
<1>2. CASE Restart!requestRestart
    BY <1>2 DEF Restart!requestRestart, StoresInOrder
<1>3. CASE Restart!SeeFlag
    BY <1>3, SeeFlagReadsNothing
<1>4. CASE Restart!ReadOperand
  <2>1. (clock - clock) % WRAP = 0 /\ sinceAnswer >= 0
    BY RestartAssumption, Elapsed DEF Restart!ClockAssumption, RestartTyped, Restart!Ages
  <2> QED
    BY <1>4, <2>1 DEF Restart!ReadOperand, RestartTyped
<1>5. CASE Restart!Compare
    BY <1>5 DEF Restart!Compare, Restart!Return, Restart!Resting
<1>6. CASE Restart!Tick
  <2> USE RestartAssumption DEF Restart!ClockAssumption
  <2>1. clock' = (clock + 1) % WRAP /\ lag' = lag + 1 /\ lag < MaxLag /\ UNCHANGED <<restartTime, pass, requests>>
        /\ sinceAnswer' = IF requests = 0 THEN 0 ELSE Restart!Older(sinceAnswer)
    BY <1>6 DEF Restart!Tick
  <2>2. requests = 1 => sinceAnswer' = sinceAnswer + 1
    BY <2>1 DEF Restart!Older, RestartTyped, Restart!Ages, AnswerAge
  <2>4. (((clock + 1) % WRAP) - pass.now) % WRAP
             = IF ((clock - pass.now) % WRAP) + 1 = WRAP THEN 0 ELSE ((clock - pass.now) % WRAP) + 1
    <3>1. WRAP \in Nat \ {0} /\ clock \in 0..(WRAP - 1) /\ pass.now \in 0..(WRAP - 1)
        BY DEF RestartTyped
    <3> QED
        BY <3>1, Elapsed
  <2>5. (clock - pass.now) % WRAP \in 0..(WRAP - 1)
    BY Elapsed DEF RestartTyped
  <2>6. requests = 1 /\ (clock - pass.now) % WRAP <= sinceAnswer => (clock' - pass.now) % WRAP <= sinceAnswer'
    BY <2>1, <2>2, <2>4, <2>5 DEF RestartTyped, Restart!Ages
  <2> QED
    BY <2>1, <2>6
<1> QED
    BY <1>1, <1>2, <1>3, <1>4, <1>5, <1>6 DEF Restart!Next, Restart!update

LEMMA RestartStep == RestartInv /\ Restart!Next => RestartInv'
<1>1. Restart!Next => ~ restarted
    BY DEF Restart!Next, Restart!update, Restart!Tick
<1> QED
    BY <1>1, RestartTypedStep, StoresInOrderStep, AnswerAgeStep, PassReadsStep, FirstPassReadsStep DEF RestartInv

(* A restart after one request comes when the answer is old enough. *)
LEMMA RestartWaits ==
    ASSUME RestartInv, Restart!Next, restarted', ~ restarted, requests = 1
    PROVE  sinceAnswer > RESTART_DELAY
<1> USE RestartAssumption DEF Restart!ClockAssumption
<1>1. Restart!Compare
    BY DEF Restart!Next, Restart!update, Restart!Answer, Restart!requestRestart, Restart!SeeFlag, Restart!ReadOperand,
       Restart!Tick
<1>2. (pass.now - pass.time) % WRAP > RESTART_DELAY
    BY <1>1 DEF Restart!Compare, Restart!Due
<1>3. pass.time = restartTime /\ (clock - pass.now) % WRAP <= sinceAnswer
    BY <1>1 DEF Restart!Compare, RestartInv, FirstPassReads, NowRead, TimeRead
<1>4. (clock - restartTime) % WRAP = sinceAnswer
    BY <1>1 DEF Restart!Compare, RestartInv, StoresInOrder, AnswerAge
<1>5. (pass.now - restartTime) % WRAP <= (clock - restartTime) % WRAP
    BY <1>3, <1>4, Between DEF RestartInv, RestartTyped
<1>6. (pass.now - restartTime) % WRAP \in 0..(WRAP - 1)
    BY Elapsed DEF RestartInv, RestartTyped
<1> QED
    BY <1>2, <1>3, <1>4, <1>5, <1>6 DEF RestartInv, RestartTyped
-----------------------------------------------------------------------------
(* The backoff, a recursive function.  What holds of it for every number   *)
(* of failures is proved by the smallest counterexample, which exists      *)
(* because < is well founded on the naturals.                              *)

LEMMA LeastNatural ==
    ASSUME NEW T \in SUBSET Nat, T # {}
    PROVE  \E x \in T : \A y \in T : x <= y
<1> DEFINE R == OpToRel(<, Nat)
<1>1. IsWellFoundedOn(R, Nat)
    BY NatLessThanWellFounded
<1>2. \A x, y \in Nat : <<y, x>> \in R <=> y < x
    BY DEF OpToRel
<1> HIDE DEF R
<1>3. PICK x \in T : \A y \in T : ~ (<<y, x>> \in R)
    BY <1>1, WFMin
<1>4. \A y \in T : ~ (y < x)
    BY <1>2, <1>3
<1>5. \A a, b \in Nat : ~ (b < a) => a <= b
    OBVIOUS
<1> QED
    BY <1>4, <1>5

Doubled(f, n) ==
    IF n = 0 THEN RECONNECT_BASE
    ELSE IF 2 * f[n - 1] < RECONNECT_MAX THEN 2 * f[n - 1] ELSE RECONNECT_MAX

(* A table of the backoff exists for every bound of the failures. *)
LEMMA BackoffExists ==
    \A k \in 0..MaxFailures : \E f \in [0..k -> 0..RECONNECT_MAX] : \A n \in 0..k : f[n] = Doubled(f, n)
<1> USE StationAssumption DEF Sta!ClockAssumption, Sta!CountsAssumption
<1> DEFINE T == {k \in 0..MaxFailures :
                     ~ \E f \in [0..k -> 0..RECONNECT_MAX] : \A n \in 0..k : f[n] = Doubled(f, n)}
<1> SUFFICES ASSUME T # {} PROVE FALSE
    OBVIOUS
<1>1. T \in SUBSET Nat
    OBVIOUS
<1>2. PICK k \in T : \A y \in T : k <= y
  <2> HIDE DEF T
  <2> QED
    BY <1>1, LeastNatural
<1>3. k \in 0..MaxFailures
    OBVIOUS
<1>4. k # 0
  <2> SUFFICES ASSUME k = 0 PROVE FALSE
    OBVIOUS
  <2>1. [n \in 0..0 |-> RECONNECT_BASE] \in [0..0 -> 0..RECONNECT_MAX]
    OBVIOUS
  <2>2. \A n \in 0..0 : [i \in 0..0 |-> RECONNECT_BASE][n] = Doubled([i \in 0..0 |-> RECONNECT_BASE], n)
    BY DEF Doubled
  <2> QED
    BY <2>1, <2>2
<1>5. k - 1 \in 0..MaxFailures
    BY <1>3, <1>4
<1>6. k - 1 \notin T
  <2> HIDE DEF T
  <2> QED
    BY <1>2, <1>3
<1>7. PICK f \in [0..(k - 1) -> 0..RECONNECT_MAX] : \A n \in 0..(k - 1) : f[n] = Doubled(f, n)
    BY <1>5, <1>6
<1> DEFINE g == [n \in 0..k |-> IF n = k THEN Doubled(f, k) ELSE f[n]]
<1>8. Doubled(f, k) \in 0..RECONNECT_MAX
    BY <1>3, <1>4, <1>7 DEF Doubled
<1>9. g \in [0..k -> 0..RECONNECT_MAX]
    BY <1>3, <1>8
<1>10. \A n \in 0..k : g[n] = Doubled(g, n)
    BY <1>3, <1>7 DEF Doubled
<1> QED
    BY <1>9, <1>10

LEMMA BackoffBounded ==
    /\ Sta!Backoff[0] = RECONNECT_BASE
    /\ \A n \in 0..MaxFailures : Sta!Backoff[n] \in 0..RECONNECT_MAX
<1> USE StationAssumption DEF Sta!ClockAssumption, Sta!CountsAssumption
<1>1. PICK f \in [0..MaxFailures -> 0..RECONNECT_MAX] : \A n \in 0..MaxFailures : f[n] = Doubled(f, n)
  <2>1. MaxFailures \in 0..MaxFailures
    OBVIOUS
  <2> QED
    BY <2>1, BackoffExists
<1>2. f = [n \in 0..MaxFailures |->
             IF n = 0 THEN RECONNECT_BASE
             ELSE IF 2 * f[n - 1] < RECONNECT_MAX THEN 2 * f[n - 1] ELSE RECONNECT_MAX]
    BY <1>1 DEF Doubled
<1>3. Sta!Backoff = [n \in 0..MaxFailures |->
             IF n = 0 THEN RECONNECT_BASE
             ELSE IF 2 * Sta!Backoff[n - 1] < RECONNECT_MAX THEN 2 * Sta!Backoff[n - 1] ELSE RECONNECT_MAX]
    BY <1>2 DEF Sta!Backoff
<1> DEFINE T == {n \in 0..MaxFailures : Sta!Backoff[n] \notin 0..RECONNECT_MAX}
<1>4. T = {}
  <2> SUFFICES ASSUME T # {} PROVE FALSE
    OBVIOUS
  <2>1. T \in SUBSET Nat
    OBVIOUS
  <2>2. PICK k \in T : \A y \in T : k <= y
    <3> HIDE DEF T
    <3> QED
        BY <2>1, LeastNatural
  <2>3. k # 0 /\ k \in 0..MaxFailures
    BY <1>3
  <2>4. k - 1 \notin T
    <3> HIDE DEF T
    <3> QED
        BY <2>2, <2>3
  <2>5. Sta!Backoff[k - 1] \in 0..RECONNECT_MAX
    BY <2>3, <2>4
  <2>6. Sta!Backoff[k] = IF 2 * Sta!Backoff[k - 1] < RECONNECT_MAX THEN 2 * Sta!Backoff[k - 1] ELSE RECONNECT_MAX
    BY <1>3, <2>3
  <2>7. Sta!Backoff[k] \notin 0..RECONNECT_MAX
    BY <2>2
  <2> QED
    BY <2>5, <2>6, <2>7
<1>5. Sta!Backoff[0] = RECONNECT_BASE
    BY <1>3
<1> QED
    BY <1>4, <1>5
-----------------------------------------------------------------------------
(* The station.  While the driver sits idle, the time since the last       *)
(* attempt is the time it sat there, but for what passed before begin()    *)
(* was over; and the driver's last event, while unhandled, says what the   *)
(* radio is.                                                               *)

Posts == {"got ip", "disconnected"}
StationTyped ==
    /\ clock \in 0..(WRAP - 1)
    /\ lastReconnect \in 0..(WRAP - 1)
    /\ stationPass \in [at : {"idle", "compare", "connect"}, now : 0..(WRAP - 1)]
    /\ failures \in 0..MaxFailures
    /\ stationLag \in 0..MaxLag
    /\ idle \in Nat
    /\ events \in Seq(Posts)

LastEvent == events[Len(events)]

EventsSayRadio ==
    /\ radio = "idle" /\ events # <<>> => LastEvent = "disconnected"
    /\ radio = "joined" /\ events # <<>> => LastEvent = "got ip"

FailuresInv ==
    /\ stationPhase # "station" => stationPass.at = "idle" /\ stationLag = 0
    /\ stationPhase = "station" /\ radio = "joined" /\ events = <<>> =>
          failures <= (IF stationPass.at = "connect" THEN 0 ELSE 1)

SinceAttempt == (clock - lastReconnect) % WRAP
IdleInv ==
    /\ radio # "idle" \/ stationPhase # "station" \/ events # <<>> => idle = 0
    /\ idle <= stationLag + RECONNECT_MAX + MaxLag
    /\ stationPass.at = "compare" => (clock - stationPass.now) % WRAP <= stationLag
    /\ stationPhase = "station" /\ radio = "idle" /\ events = <<>> /\ stationPass.at # "connect" =>
          \/ SinceAttempt = idle
          \/ failures = 0 /\ idle <= stationLag
          \/ failures = 0 /\ idle <= SinceAttempt + MaxLag /\ SinceAttempt <= RECONNECT_BASE + MaxLag + stationLag

StationInv == StationTyped /\ EventsSayRadio /\ FailuresInv /\ IdleInv

LEMMA StationInitial == Init => StationInv
<1> SUFFICES ASSUME Init PROVE StationInv
    OBVIOUS
<1> USE StationAssumption DEF Sta!ClockAssumption, Sta!CountsAssumption, Init, Sta!Init, Sta!Resting
<1>1. StationTyped
    BY DEF StationTyped
<1>2. EventsSayRadio /\ FailuresInv
    BY DEF EventsSayRadio, FailuresInv
<1>3. IdleInv
    BY DEF IdleInv
<1> QED
    BY <1>1, <1>2, <1>3 DEF StationInv

(* What the event queue looks like after a post and after a handler. *)
LEMMA Posted ==
    ASSUME NEW S, NEW q \in Seq(S), NEW e \in S
    PROVE  /\ Append(q, e) \in Seq(S)
           /\ Append(q, e) # <<>>
           /\ Append(q, e)[Len(Append(q, e))] = e
<1>1. Len(Append(q, e)) = Len(q) + 1 /\ Append(q, e)[Len(q) + 1] = e
    BY AppendProperties
<1> QED
    BY <1>1, AppendProperties, Zenon

LEMMA Handled ==
    ASSUME NEW S, NEW q \in Seq(S), q # <<>>
    PROVE  /\ Tail(q) \in Seq(S)
           /\ Tail(q) # <<>> => Tail(q)[Len(Tail(q))] = q[Len(q)]
           /\ Tail(q) = <<>> => Head(q) = q[Len(q)]
<1>1. Tail(q) \in Seq(S) /\ Len(Tail(q)) = Len(q) - 1 /\ \A i \in 1..Len(Tail(q)) : Tail(q)[i] = q[i + 1]
    BY HeadTailProperties
<1>2. Len(q) \in Nat \ {0} /\ Head(q) = q[1]
    BY EmptySeq
<1>3. ASSUME Tail(q) # <<>> PROVE Tail(q)[Len(Tail(q))] = q[Len(q)]
  <2>1. Len(Tail(q)) \in Nat \ {0}
    BY <1>1, <1>3, EmptySeq
  <2>2. Len(Tail(q)) \in 1..Len(Tail(q)) /\ Len(Tail(q)) + 1 = Len(q)
    BY <1>1, <1>2, <2>1
  <2> QED
    BY <1>1, <2>2
<1>4. ASSUME Tail(q) = <<>> PROVE Head(q) = q[Len(q)]
  <2>1. Len(Tail(q)) = 0
    BY <1>4, EmptySeq
  <2>2. Len(q) = 1
    <3>1. Len(Tail(q)) = Len(q) - 1
        BY <1>1
    <3> QED
        BY <1>2, <2>1, <3>1
  <2> QED
    BY <1>2, <2>2, Zenon
<1> QED
    BY <1>1, <1>3, <1>4

LEMMA StationBounds ==
    0 \in 0..MaxFailures /\ 0 \in 0..(WRAP - 1) /\ 0 \in 0..MaxLag
BY StationAssumption DEF Sta!ClockAssumption, Sta!CountsAssumption

LEMMA FailureCounted ==
    ASSUME NEW n \in 0..MaxFailures
    PROVE  Sta!NextFailure(n) \in 0..MaxFailures /\ Sta!NextFailure(n) <= n + 1
<1>1. MaxFailures \in Nat
    BY StationAssumption DEF Sta!CountsAssumption
<1> QED
    BY <1>1 DEF Sta!NextFailure

LEMMA DriverPosts ==
    ASSUME StationTyped, Sta!Driver
    PROVE  \E e \in Posts :
              /\ events' = Append(events, e) /\ events' # <<>> /\ events' \in Seq(Posts)
              /\ events'[Len(events')] = e
              /\ \/ e = "got ip" /\ radio' = "joined"
                 \/ e = "disconnected" /\ radio' = "idle"
<1>1. PICK e \in Posts :
         /\ events' = Append(events, e)
         /\ \/ e = "got ip" /\ radio' = "joined"
            \/ e = "disconnected" /\ radio' = "idle"
    BY DEF Sta!Driver, Sta!Associate, Sta!GiveUp, Sta!Post, Posts
<1>2. events' # <<>> /\ events' \in Seq(Posts) /\ events'[Len(events')] = e
  <2>1. events \in Seq(Posts)
    BY DEF StationTyped
  <2>2. Append(events, e) # <<>> /\ Append(events, e) \in Seq(Posts) /\ Append(events, e)[Len(Append(events, e))] = e
    BY <2>1, Posted
  <2> QED
    BY <1>1, <2>2, Zenon
<1> QED
    BY <1>1, <1>2

LEMMA StationTypedStep == ASSUME StationTyped, FailuresInv, Sta!Next PROVE StationTyped'
<1> USE StationBounds DEF StationTyped, Sta!driver
<1>1. CASE Sta!Driver
  <2>1. (events \in Seq(Posts))'
    BY <1>1, DriverPosts
  <2> QED
    BY <1>1, <2>1 DEF Sta!Driver
<1>2. CASE Sta!wifiEventHandler
  <2>1. (events \in Seq(Posts))'
    BY <1>2, Handled DEF Sta!wifiEventHandler
  <2> QED
    BY <1>2, <2>1 DEF Sta!wifiEventHandler
<1>3. CASE Sta!ipEventHandler
  <2>1. (events \in Seq(Posts))'
    BY <1>3, Handled DEF Sta!ipEventHandler
  <2> QED
    BY <1>3, <2>1 DEF Sta!ipEventHandler
<1>4. CASE Sta!WaitSlice
    BY <1>4 DEF Sta!WaitSlice
<1>5. CASE Sta!ConnectEnds
  <2>1. failures' = 0 \/ failures' = failures
    BY <1>5, Zenon DEF Sta!ConnectEnds
  <2> QED
    BY <1>5, <2>1 DEF Sta!ConnectEnds
<1>6. CASE Sta!ReadClock
    BY <1>6 DEF Sta!ReadClock
<1>7. CASE Sta!Compare
  <2>1. lastReconnect' \in 0..(WRAP - 1)
    BY <1>7 DEF Sta!Compare
  <2>2. stationLag' = stationLag \/ stationLag' = 0
    BY <1>7 DEF Sta!Compare
  <2>3. stationPass' = Sta!Resting \/ stationPass' = [stationPass EXCEPT !.at = "connect"]
    BY <1>7 DEF Sta!Compare
  <2>4. (stationPass \in [at : {"idle", "compare", "connect"}, now : 0..(WRAP - 1)])'
    <3>1. CASE stationPass' = Sta!Resting
        BY <3>1 DEF Sta!Resting
    <3>2. CASE stationPass' = [stationPass EXCEPT !.at = "connect"]
        BY <3>2
    <3> QED
        BY <2>3, <3>1, <3>2
  <2> QED
    BY <1>7, <2>1, <2>2, <2>4 DEF Sta!Compare
<1>8. CASE Sta!Connect
  <2>1. failures' \in 0..MaxFailures
    BY <1>8, FailureCounted DEF Sta!Connect
  <2> QED
    BY <1>8, <2>1 DEF Sta!Connect, Sta!Resting
<1>9. CASE Sta!Tick
  <2>1. clock' \in 0..(WRAP - 1)
    BY <1>9, Elapsed, StationAssumption DEF Sta!Tick, Sta!ClockAssumption
  <2>2. stationLag' \in 0..MaxLag
    BY <1>9, StationAssumption DEF Sta!Tick, Sta!ClockAssumption
  <2>3. idle' \in Nat
    BY <1>9, StationAssumption DEF Sta!Tick, Sta!UpTo, Sta!MaxIdle, Sta!ClockAssumption
  <2> QED
    BY <1>9, <2>1, <2>2, <2>3 DEF Sta!Tick
<1> QED
    BY <1>1, <1>2, <1>3, <1>4, <1>5, <1>6, <1>7, <1>8, <1>9 DEF Sta!Next, Sta!EventLoop, Sta!Begin, Sta!Update

LEMMA EventsSayRadioStep == ASSUME StationTyped, EventsSayRadio, Sta!Next PROVE EventsSayRadio'
<1> USE DEF EventsSayRadio, LastEvent, Sta!driver
<1>1. CASE Sta!Driver
    BY <1>1, DriverPosts DEF Sta!Driver
<1>2. CASE Sta!wifiEventHandler
    BY <1>2, Handled DEF Sta!wifiEventHandler, StationTyped
<1>3. CASE Sta!ipEventHandler
    BY <1>3, Handled DEF Sta!ipEventHandler, StationTyped
<1>4. CASE Sta!Begin
    BY <1>4 DEF Sta!Begin, Sta!WaitSlice, Sta!ConnectEnds
<1>5. CASE Sta!Update
    BY <1>5 DEF Sta!Update, Sta!ReadClock, Sta!Compare, Sta!Connect
<1>6. CASE Sta!Tick
    BY <1>6 DEF Sta!Tick
<1> QED
    BY <1>1, <1>2, <1>3, <1>4, <1>5, <1>6 DEF Sta!Next, Sta!EventLoop

LEMMA FailuresInvStep == ASSUME StationTyped, EventsSayRadio, FailuresInv, Sta!Next PROVE FailuresInv'
<1> USE DEF FailuresInv, Sta!driver
<1>1. CASE Sta!Driver
    BY <1>1, DriverPosts DEF Sta!Driver
<1>2. CASE Sta!wifiEventHandler
    BY <1>2, Handled DEF Sta!wifiEventHandler, StationTyped, EventsSayRadio, LastEvent
<1>3. CASE Sta!ipEventHandler
  <2>1. failures' = 0 /\ UNCHANGED <<stationPhase, stationPass, stationLag>>
    BY <1>3 DEF Sta!ipEventHandler
  <2> QED
    BY <2>1
<1>4. CASE Sta!WaitSlice
    BY <1>4 DEF Sta!WaitSlice
<1>5. CASE Sta!ConnectEnds
    BY <1>5 DEF Sta!ConnectEnds
<1>6. CASE Sta!ReadClock
    BY <1>6 DEF Sta!ReadClock
<1>7. CASE Sta!Compare
  <2>1. /\ stationPhase = "station" /\ stationPhase' = "station" /\ UNCHANGED <<radio, events, failures>>
        /\ stationPass.at = "compare"
        /\ radio # "joined" \/ stationPass' = Sta!Resting
    BY <1>7 DEF Sta!Compare
  <2>2. stationPass'.at = "idle" \/ radio # "joined"
    BY <2>1 DEF Sta!Resting
  <2>3. failures <= 1 => failures' <= 1
    BY <2>1
  <2> QED
    BY <2>1, <2>2, <2>3
<1>8. CASE Sta!Connect
  <2>1. /\ stationPhase = "station" /\ stationPhase' = "station" /\ events' = events
        /\ stationPass.at = "connect" /\ stationPass' = Sta!Resting
        /\ radio' = "joined" => radio = "joined"
        /\ failures' = Sta!NextFailure(failures)
    BY <1>8 DEF Sta!Connect
  <2>2. failures <= 0 => failures' <= 1
    <3>1. failures \in 0..MaxFailures /\ failures' \in 0..MaxFailures /\ failures' <= failures + 1
        BY <2>1, FailureCounted DEF StationTyped
    <3> QED
        BY <3>1
  <2> QED
    BY <2>1, <2>2 DEF Sta!Resting, StationTyped
<1>9. CASE Sta!Tick
    BY <1>9 DEF Sta!Tick
<1> QED
    BY <1>1, <1>2, <1>3, <1>4, <1>5, <1>6, <1>7, <1>8, <1>9 DEF Sta!Next, Sta!EventLoop, Sta!Begin, Sta!Update

IdleCases ==
    \/ SinceAttempt = idle
    \/ failures = 0 /\ idle <= stationLag
    \/ failures = 0 /\ idle <= SinceAttempt + MaxLag /\ SinceAttempt <= RECONNECT_BASE + MaxLag + stationLag

(* Idle for less than the longest wait when a pass finds the backoff not   *)
(* over, whatever the case.                                                *)
LEMMA NotWaited ==
    ASSUME StationTyped, IdleInv, stationPhase = "station", stationPass.at = "compare",
           radio = "idle", ~ Sta!Waited
    PROVE  /\ idle <= RECONNECT_MAX + MaxLag
           /\ events = <<>> => \/ SinceAttempt = idle
                               \/ /\ failures = 0 /\ idle <= SinceAttempt + MaxLag
                                  /\ SinceAttempt <= RECONNECT_BASE + MaxLag
<1> USE StationAssumption DEF Sta!ClockAssumption
<1> DEFINE Past == (stationPass.now - lastReconnect) % WRAP
           Pass == (clock - stationPass.now) % WRAP
<1>1. Past \in 0..(WRAP - 1) /\ Pass \in 0..(WRAP - 1) /\ SinceAttempt \in 0..(WRAP - 1)
    BY Elapsed DEF StationTyped, SinceAttempt
<1>2. SinceAttempt <= Pass + Past
  <2>1. WRAP \in Nat \ {0} /\ clock \in 0..(WRAP - 1) /\ stationPass.now \in 0..(WRAP - 1)
        /\ lastReconnect \in 0..(WRAP - 1)
    BY DEF StationTyped
  <2> QED
    BY <2>1, Between DEF SinceAttempt
<1>3. Pass <= stationLag /\ stationLag <= MaxLag /\ stationLag \in Nat /\ failures \in 0..MaxFailures /\ idle \in Nat
    BY DEF IdleInv, StationTyped
<1>4. ~ (Past >= Sta!Backoff[failures])
    BY DEF Sta!Waited, Sta!Since
<1> HIDE DEF Past, Pass
<1>5. Past < RECONNECT_MAX /\ (failures = 0 => Past < RECONNECT_BASE)
  <2>1. Sta!Backoff[failures] \in 0..RECONNECT_MAX /\ (failures = 0 => Sta!Backoff[failures] = RECONNECT_BASE)
    BY <1>3, BackoffBounded
  <2> QED
    BY <1>1, <1>4, <2>1
<1>6. CASE events # <<>>
    BY <1>6 DEF IdleInv
<1>7. CASE events = <<>>
  <2>1. IdleCases
    BY <1>7 DEF IdleInv, IdleCases
  <2> QED
    BY <1>1, <1>2, <1>3, <1>5, <2>1 DEF IdleCases
<1> QED
    BY <1>6, <1>7

LEMMA PassAges ==
    ASSUME NEW x \in 0..(WRAP - 1), NEW y \in 0..(WRAP - 1), NEW n \in Nat, (x - y) % WRAP <= n
    PROVE  (((x + 1) % WRAP) - y) % WRAP <= n + 1
<1>1. WRAP \in Nat \ {0}
    BY StationAssumption DEF Sta!ClockAssumption
<1>2. (((x + 1) % WRAP) - y) % WRAP = IF ((x - y) % WRAP) + 1 = WRAP THEN 0 ELSE ((x - y) % WRAP) + 1
    BY <1>1, Elapsed
<1>3. (x - y) % WRAP \in 0..(WRAP - 1)
    BY <1>1, Elapsed
<1> QED
    BY <1>1, <1>2, <1>3

LEMMA IdleInvStep ==
    ASSUME StationTyped, StationTyped', EventsSayRadio, FailuresInv, IdleInv, Sta!Next
    PROVE  IdleInv'
<1> USE DEF Sta!driver
<1>c. RECONNECT_BASE \in Nat /\ RECONNECT_MAX \in Nat /\ MaxLag \in Nat /\ RECONNECT_BASE + MaxLag <= RECONNECT_MAX
      /\ RECONNECT_MAX + MaxLag + MaxLag < WRAP
    BY StationAssumption DEF Sta!ClockAssumption
<1>a. WRAP \in Nat \ {0} /\ clock \in 0..(WRAP - 1) /\ stationPass.now \in 0..(WRAP - 1)
      /\ lastReconnect \in 0..(WRAP - 1) /\ stationLag \in 0..MaxLag /\ failures \in 0..MaxFailures /\ idle \in Nat
    BY StationAssumption DEF StationTyped, Sta!ClockAssumption
<1>b. PICK newLag \in 0..MaxLag : stationLag' = newLag
    BY DEF StationTyped
<1>0. 0 <= stationLag + RECONNECT_MAX + MaxLag /\ 0 <= stationLag' + RECONNECT_MAX + MaxLag
    BY <1>a, <1>c, <1>b
<1>1. CASE Sta!Driver
    BY <1>0, <1>1, DriverPosts DEF Sta!Driver, IdleInv
<1>2. CASE Sta!wifiEventHandler
  <2>1. (clock - clock) % WRAP = 0
    BY <1>a, Elapsed
  <2>2. idle = 0 /\ lastReconnect' = clock /\ UNCHANGED <<stationPhase, radio, failures, stationPass, clock, stationLag, idle>>
    BY <1>2 DEF Sta!wifiEventHandler, IdleInv
  <2> QED
    BY <2>1, <2>2 DEF IdleInv, SinceAttempt
<1>3. CASE Sta!ipEventHandler
  <2>1. idle = 0 /\ UNCHANGED <<stationPhase, radio, stationPass, clock, stationLag, idle>> /\ events # <<>>
    BY <1>3 DEF Sta!ipEventHandler, IdleInv
  <2>2. radio = "idle" => events' # <<>>
    BY <1>3, Handled DEF Sta!ipEventHandler, StationTyped, EventsSayRadio, LastEvent
  <2> QED
    BY <2>1, <2>2 DEF IdleInv
<1>4. CASE Sta!WaitSlice
    BY <1>4 DEF Sta!WaitSlice, IdleInv
<1>5. CASE Sta!ConnectEnds
  <2>1. idle = 0 /\ UNCHANGED <<idle, stationLag, clock, stationPass>> /\ stationLag \in Nat
    BY <1>5 DEF Sta!ConnectEnds, IdleInv, StationTyped
  <2>2. stationPhase' # "station" \/ failures' = 0
    BY <1>5, Zenon DEF Sta!ConnectEnds
  <2> QED
    BY <2>1, <2>2 DEF IdleInv
<1>6. CASE Sta!ReadClock
  <2>1. (clock - clock) % WRAP = 0 /\ 0 <= stationLag
    BY <1>a, Elapsed
  <2> QED
    BY <1>6, <2>1 DEF Sta!ReadClock, IdleInv, SinceAttempt
<1>7. CASE Sta!Compare
  <2>0. stationPhase = "station" /\ stationPass.at = "compare" /\ UNCHANGED <<stationPhase, radio, events, failures, clock, idle>>
    BY <1>7 DEF Sta!Compare
  <2>1. CASE radio = "idle" /\ Sta!Waited
    <3>1. stationPass'.at = "connect" /\ stationLag' = stationLag
        BY <1>7, <2>1 DEF Sta!Compare, StationTyped
    <3> QED
        BY <2>0, <2>1, <3>1 DEF IdleInv
  <2>2. CASE radio = "idle" /\ ~ Sta!Waited
    <3>1. stationPass'.at = "idle" /\ stationLag' = 0 /\ lastReconnect' = lastReconnect
        BY <1>7, <2>2 DEF Sta!Compare, Sta!Resting
    <3>2. SinceAttempt' = SinceAttempt
        BY <2>0, <3>1 DEF SinceAttempt
    <3>3. SinceAttempt \in Nat
        BY <1>a, Elapsed DEF SinceAttempt
    <3> QED
        <4>1. idle <= 0 + RECONNECT_MAX + MaxLag
            BY <1>a, <1>c, <2>0, <2>2, NotWaited
        <4>2. RECONNECT_BASE + MaxLag + 0 = RECONNECT_BASE + MaxLag
            BY <1>c
        <4> QED
            BY <2>0, <2>2, <3>1, <3>2, <4>1, <4>2, NotWaited DEF IdleInv
  <2>3. CASE radio # "idle"
    <3>1. stationPass'.at # "compare"
        BY <1>7 DEF Sta!Compare, Sta!Resting, StationTyped
    <3> QED
        BY <1>0, <2>0, <2>3, <3>1 DEF IdleInv
  <2> QED
    BY <2>1, <2>2, <2>3
<1>8. CASE Sta!Connect
  <2>1. idle' = 0 /\ radio' # "idle" /\ stationPass'.at = "idle"
    BY <1>8 DEF Sta!Connect, Sta!Resting
  <2> QED
    BY <1>0, <2>1 DEF IdleInv
<1>9. CASE Sta!Tick
  <2>0. /\ events = <<>> /\ clock' = (clock + 1) % WRAP
        /\ stationPhase = "station" => stationLag < MaxLag /\ stationLag' = stationLag + 1
        /\ UNCHANGED <<stationPhase, radio, events, lastReconnect, failures, stationPass>>
    BY <1>9 DEF Sta!Tick
  <2>1. CASE ~ (radio = "idle" /\ stationPhase = "station")
    <3>1. idle' = 0
        BY <1>9, <2>1 DEF Sta!Tick
    <3>2. stationPass.at = "compare" => (clock' - stationPass.now) % WRAP <= stationLag'
        <4>1. stationPass.at = "compare" => stationPhase = "station" /\ (clock - stationPass.now) % WRAP <= stationLag
            BY DEF IdleInv, FailuresInv
        <4>2. ASSUME stationPass.at = "compare"
              PROVE  (((clock + 1) % WRAP) - stationPass.now) % WRAP <= stationLag + 1
          <5>1. stationLag \in Nat /\ (clock - stationPass.now) % WRAP <= stationLag
            BY <1>a, <1>c, <4>1, <4>2
          <5> QED
            BY <1>a, <5>1, PassAges
        <4> QED
            BY <2>0, <4>1, <4>2
    <3> QED
        BY <1>0, <2>0, <2>1, <3>1, <3>2 DEF IdleInv
  <2>2. CASE radio = "idle" /\ stationPhase = "station"
    <3>1. idle' = idle + 1
        BY <1>a, <1>c, <1>9, <2>0, <2>2 DEF Sta!Tick, Sta!UpTo, Sta!MaxIdle, IdleInv
    <3>2. stationPass.at = "compare" => (clock' - stationPass.now) % WRAP <= stationLag'
        <4>1. stationPass.at = "compare" => (clock - stationPass.now) % WRAP <= stationLag
            BY DEF IdleInv
        <4>2. ASSUME stationPass.at = "compare"
              PROVE  (((clock + 1) % WRAP) - stationPass.now) % WRAP <= stationLag + 1
          <5>1. stationLag \in Nat /\ (clock - stationPass.now) % WRAP <= stationLag
            BY <1>a, <1>c, <4>1, <4>2
          <5> QED
            BY <1>a, <5>1, PassAges
        <4> QED
            BY <2>0, <2>2, <4>2
    <3>3. idle + 1 <= stationLag' + RECONNECT_MAX + MaxLag
        BY <1>a, <1>c, <2>0, <2>2 DEF IdleInv
    <3>4. SinceAttempt' = IF SinceAttempt + 1 = WRAP THEN 0 ELSE SinceAttempt + 1
        BY <1>a, <1>c, <2>0, Elapsed DEF SinceAttempt
    <3>5. stationPass.at # "connect" => IdleCases
        BY <2>0, <2>2 DEF IdleInv, IdleCases
    <3>6. stationPass.at # "connect" => IdleCases'
        <4>1. SinceAttempt \in 0..(WRAP - 1)
            BY <1>a, <1>c, Elapsed DEF SinceAttempt
        <4>2. idle + 1 < WRAP
            BY <1>a, <1>c, <1>b, <3>3
        <4>3. stationLag' = stationLag + 1 /\ failures' = failures
            BY <2>0, <2>2
        <4>4. CASE SinceAttempt = idle
            BY <1>a, <1>c, <3>1, <3>4, <4>1, <4>2, <4>4 DEF IdleCases
        <4>5. CASE failures = 0 /\ idle <= stationLag
            BY <1>a, <1>c, <3>1, <4>3, <4>5 DEF IdleCases
        <4>6. CASE failures = 0 /\ idle <= SinceAttempt + MaxLag /\ SinceAttempt <= RECONNECT_BASE + MaxLag + stationLag
            <5>1. SinceAttempt' = SinceAttempt + 1
                BY <1>a, <1>c, <2>0, <2>2, <3>4, <4>1, <4>6
            <5> QED
                BY <1>a, <1>c, <3>1, <4>1, <4>3, <4>6, <5>1 DEF IdleCases
        <4> QED
            BY <3>5, <4>4, <4>5, <4>6 DEF IdleCases
    <3> QED
        BY <2>0, <2>2, <3>1, <3>2, <3>3, <3>6 DEF IdleInv, IdleCases
  <2> QED
    BY <2>1, <2>2
<1> QED
    BY <1>1, <1>2, <1>3, <1>4, <1>5, <1>6, <1>7, <1>8, <1>9 DEF Sta!Next, Sta!EventLoop, Sta!Begin, Sta!Update

LEMMA StationStep == StationInv /\ Sta!Next => StationInv'
<1> SUFFICES ASSUME StationInv, Sta!Next PROVE StationInv'
    OBVIOUS
<1>1. StationTyped'
    BY StationTypedStep DEF StationInv
<1>2. EventsSayRadio' /\ FailuresInv'
    BY EventsSayRadioStep, FailuresInvStep DEF StationInv
<1>3. IdleInv'
    BY <1>1, IdleInvStep DEF StationInv
<1> QED
    BY <1>1, <1>2, <1>3 DEF StationInv

LEMMA StationSafe == StationInv => Sta!RetriedInTime /\ Sta!FailuresForgotten
<1> SUFFICES ASSUME StationInv PROVE Sta!RetriedInTime /\ Sta!FailuresForgotten
    OBVIOUS
<1>1. Sta!FailuresForgotten
    BY DEF StationInv, StationTyped, FailuresInv, Sta!FailuresForgotten
<1>2. Sta!RetriedInTime
  <2>1. RECONNECT_MAX \in Nat /\ MaxLag \in Nat /\ stationLag \in 0..MaxLag /\ idle \in Nat
        /\ idle <= stationLag + RECONNECT_MAX + MaxLag
    BY StationAssumption DEF Sta!ClockAssumption, StationInv, StationTyped, IdleInv
  <2> QED
    BY <2>1 DEF Sta!RetriedInTime
<1> QED
    BY <1>1, <1>2

-----------------------------------------------------------------------------
(* The run: the part that runs keeps its invariant; the others stand still, *)
(* and their properties do not look at the clock, which may go on.         *)

PartsInv ==
    /\ part = "station" => StationInv
    /\ part = "restart" => RestartInv
    /\ part = "scan" => ScanInv
    /\ part = "crash" => CrashInv

PartsSafe == RetriedInTime /\ FailuresForgotten /\ RestartedInTime /\ ServedIsCurrent /\ ReportsOnce

LEMMA RestartSafe == RestartInv => Restart!RestartedInTime
<1> SUFFICES ASSUME RestartInv, ~ restarted PROVE ~ (sinceAnswer > RESTART_DELAY + 2 * MaxLag)
    BY DEF Restart!RestartedInTime
<1>1. RESTART_DELAY \in Nat /\ MaxLag \in Nat /\ lag \in 0..MaxLag /\ sinceAnswer \in Nat
      /\ sinceAnswer <= lag + RESTART_DELAY + MaxLag
    BY RestartAssumption DEF Restart!ClockAssumption, RestartInv, RestartTyped, AnswerAge
<1> QED
    BY <1>1

LEMMA InvSafe ==
    /\ StationInv => RetriedInTime /\ FailuresForgotten
    /\ RestartInv => RestartedInTime
    /\ ScanInv => ServedIsCurrent
    /\ CrashInv => ReportsOnce
<1>1. StationInv => RetriedInTime /\ FailuresForgotten
    BY StationSafe DEF RetriedInTime, FailuresForgotten
<1>2. RestartInv => RestartedInTime
    BY RestartSafe DEF RestartedInTime
<1>3. ScanInv => ServedIsCurrent
    BY DEF ScanInv, ServedIsCurrent, Scan!ServedIsCurrent, Scan!NotScanning
<1>4. CrashInv => ReportsOnce
    BY DEF CrashInv, ReportsOnce, Crash!ReportsOnce
<1> QED
    BY <1>1, <1>2, <1>3, <1>4

LEMMA PartsInitial == Init => PartsInv /\ PartsSafe
BY StationInitial, RestartInitial, ScanInitial, CrashInitial, InvSafe DEF PartsInv, PartsSafe

LEMMA PartsStep == PartsInv /\ PartsSafe /\ [Next]_vars => PartsInv' /\ PartsSafe'
<1> SUFFICES ASSUME PartsInv, PartsSafe, [Next]_vars PROVE PartsInv' /\ PartsSafe'
    OBVIOUS
<1>1. UNCHANGED stationVars => (RetriedInTime /\ FailuresForgotten)'
    BY DEF PartsSafe, stationVars, RetriedInTime, FailuresForgotten, Sta!RetriedInTime, Sta!FailuresForgotten
<1>2. UNCHANGED restartVars => RestartedInTime'
    BY DEF PartsSafe, restartVars, RestartedInTime, Restart!RestartedInTime
<1>3. UNCHANGED scanVars => ServedIsCurrent'
    BY DEF PartsSafe, scanVars, ServedIsCurrent, Scan!ServedIsCurrent
<1>4. UNCHANGED crashVars => ReportsOnce'
    BY DEF PartsSafe, crashVars, ReportsOnce, Crash!ReportsOnce
<1>5. CASE StationRuns
  <2>1. StationInv' /\ part' = "station"
    BY <1>5, StationStep DEF StationRuns, PartsInv
  <2>2. (RetriedInTime /\ FailuresForgotten)'
    BY <2>1, InvSafe, PTL
  <2> QED
    BY <1>2, <1>3, <1>4, <1>5, <2>1, <2>2 DEF StationRuns, PartsInv, PartsSafe
<1>6. CASE RestartRuns
  <2>1. RestartInv' /\ part' = "restart"
    BY <1>6, RestartStep DEF RestartRuns, PartsInv
  <2>2. RestartedInTime'
    BY <2>1, InvSafe, PTL
  <2> QED
    BY <1>1, <1>3, <1>4, <1>6, <2>1, <2>2 DEF RestartRuns, PartsInv, PartsSafe
<1>7. CASE ScanRuns
  <2>1. ScanInv' /\ part' = "scan"
    BY <1>7, ScanStep DEF ScanRuns, PartsInv
  <2>2. ServedIsCurrent'
    BY <2>1, InvSafe, PTL
  <2> QED
    BY <1>1, <1>2, <1>4, <1>7, <2>1, <2>2 DEF ScanRuns, PartsInv, PartsSafe
<1>8. CASE CrashRuns
  <2>1. CrashInv' /\ part' = "crash"
    BY <1>8, CrashStep DEF CrashRuns, PartsInv
  <2>2. ReportsOnce'
    BY <2>1, InvSafe, PTL
  <2> QED
    BY <1>1, <1>2, <1>3, <1>8, <2>1, <2>2 DEF CrashRuns, PartsInv, PartsSafe
<1>9. CASE UNCHANGED vars
  <2>1. UNCHANGED stationVars /\ UNCHANGED restartVars /\ UNCHANGED scanVars /\ UNCHANGED crashVars
        /\ part' = part /\ clock' = clock
    BY <1>9 DEF vars
  <2>2. (StationInv => StationInv') /\ (RestartInv => RestartInv')
    BY <2>1 DEF stationVars, restartVars, StationInv, StationTyped, EventsSayRadio, LastEvent, FailuresInv, IdleInv,
       SinceAttempt, RestartInv, RestartTyped, StoresInOrder, AnswerAge, PassReads, FirstPassReads, NowRead, TimeRead
  <2>3. (ScanInv => ScanInv') /\ (CrashInv => CrashInv')
    BY <2>1 DEF scanVars, crashVars, ScanInv, ScanTyped, CrashInv, CrashTyped
  <2> QED
    BY <1>1, <1>2, <1>3, <1>4, <2>1, <2>2, <2>3 DEF PartsInv, PartsSafe
<1> QED
    BY <1>5, <1>6, <1>7, <1>8, <1>9 DEF Next

LEMMA PartsAlways == Spec => [](PartsInv /\ PartsSafe)
BY PartsInitial, PartsStep, PTL DEF Spec

(* RetriedInTime: a station whose driver fell idle asks it to connect again *)
(* within the longest backoff and the two passes of update() around it, for *)
(* every clock reading, every number of earlier failures and every order of *)
(* the driver's events against update().                                    *)
THEOREM NetworkIsRetried == Spec => []RetriedInTime
BY PartsAlways, PTL DEF PartsSafe

(* FailuresForgotten: with the address there and its event handled, the     *)
(* counter of failures is 0, or 1 from a pass that was already connecting.  *)
THEOREM OutageStartsAfresh == Spec => []FailuresForgotten
BY PartsAlways, PTL DEF PartsSafe

(* RestartedInTime: a restart asked for comes within RESTART_DELAY and two  *)
(* passes of the last answer, whatever number of requests store their time  *)
(* between update()'s reads.                                                *)
THEOREM RestartComes == Spec => []RestartedInTime
BY PartsAlways, PTL DEF PartsSafe

(* ServedIsCurrent: the page shows the last list that was found, outside    *)
(* setup never one older than SCAN_MAX_AGE short of the clock's full round, *)
(* and nothing scans in setup mode.                                         *)
THEOREM ListIsCurrent == Spec => []ServedIsCurrent
BY PartsAlways, PTL DEF PartsSafe

(* ReportsOnce: across panics, power cuts, updates and failed allocations a *)
(* crash is told by one boot's log, unless its erase failed or was cut.     *)
THEOREM CrashIsToldOnce == Spec => []ReportsOnce
BY PartsAlways, PTL DEF PartsSafe

(* RestartLeavesDelay: the step that restarts after a single request comes  *)
(* more than RESTART_DELAY after the answer was sent.                       *)
THEOREM AnswerHasItsDelay == Spec => RestartLeavesDelay
<1>1. ASSUME PartsInv, [Next]_vars
      PROVE  [restarted' /\ ~ restarted /\ requests = 1 => sinceAnswer > RESTART_DELAY]_Restart!vars
  <2> SUFFICES ASSUME restarted', ~ restarted, requests = 1 PROVE sinceAnswer > RESTART_DELAY
    OBVIOUS
  <2>1. RestartRuns
    BY <1>1 DEF Next, vars, StationRuns, ScanRuns, CrashRuns, restartVars
  <2> QED
    BY <1>1, <2>1, RestartWaits DEF RestartRuns, PartsInv
<1> QED
    BY <1>1, PartsAlways, PTL DEF Spec, RestartLeavesDelay, Restart!RestartLeavesDelay
=============================================================================
