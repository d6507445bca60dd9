-------------------------- MODULE DeferredRestart --------------------------
(***************************************************************************)
(* The restart a save or a factory reset asks for: requestRestart() on the *)
(* server task after the answer was sent, and update() on the              *)
(* application's task, which restarts RESTART_DELAY later.                 *)
(*                                                                         *)
(* Both share two atomics and no lock.  update() tests the flag, and then  *)
(* getMillis() - _restartTime, whose operands C++ may read in either       *)
(* order.  The clock wraps at WRAP ticks.                                  *)
(***************************************************************************)
EXTENDS Integers

CONSTANTS
    WRAP,
    RESTART_DELAY,
    MaxLag,         \* update() returns at least once in so many ticks
    MaxRequests     \* bound: requests made

ClockAssumption ==
    /\ WRAP \in Nat /\ RESTART_DELAY \in Nat /\ MaxLag \in Nat \ {0} /\ MaxRequests \in Nat
    /\ RESTART_DELAY + 2 * MaxLag + 1 < WRAP

VARIABLES
    restartRequested, restartTime,
    request,        \* requestRestart(): what it stores next
    requests,
    pass,           \* update(): its place and what it has read
    clock, lag,
    restarted,
    sinceAnswer     \* history: ticks since the last answer was sent

vars == <<restartRequested, restartTime, request, requests, pass, clock, lag, restarted, sinceAnswer>>

Resting == [at |-> "idle", now |-> 0, time |-> 0]
Ages == 0..(RESTART_DELAY + 2 * MaxLag + 1)
Older(age) == IF age + 1 \in Ages THEN age + 1 ELSE age

Init ==
    /\ restartRequested = FALSE /\ restartTime = 0
    /\ request = 0
    /\ requests = 0
    /\ pass = Resting
    /\ clock \in 0..(WRAP - 1)
    /\ lag = 0
    /\ restarted = FALSE
    /\ sinceAnswer = 0

FlagFirst == <<"flag", "time">>
(* requestRestart stores the time before the flag. *)
StoreOrder == <<"time", "flag">>

Answer ==
    /\ request = 0 /\ requests < MaxRequests
    /\ request' = 1
    /\ requests' = requests + 1
    /\ sinceAnswer' = 0
    /\ UNCHANGED <<restartRequested, restartTime, pass, clock, lag, restarted>>

Stamp == clock

requestRestart ==
    /\ request \in {1, 2}
    /\ IF StoreOrder[request] = "time"
       THEN restartTime' = Stamp /\ UNCHANGED restartRequested
       ELSE restartRequested' = TRUE /\ UNCHANGED restartTime
    /\ request' = (request + 1) % 3
    /\ UNCHANGED <<requests, pass, clock, lag, restarted, sinceAnswer>>

Return == pass' = Resting /\ lag' = 0
Read(at) == pass' = [pass EXCEPT !.at = at]

SeeFlag ==
    /\ pass.at = "idle"
    /\ IF restartRequested THEN (Read("clock first") \/ Read("time first")) /\ UNCHANGED lag
                           ELSE Return
    /\ UNCHANGED <<restartRequested, restartTime, request, requests, clock, restarted, sinceAnswer>>

ReadOperand ==
    /\ \/ /\ pass.at \in {"clock first", "clock"}
          /\ pass' = [pass EXCEPT !.now = clock, !.at = IF @ = "clock" THEN "compare" ELSE "time"]
       \/ /\ pass.at \in {"time first", "time"}
          /\ pass' = [pass EXCEPT !.time = restartTime, !.at = IF @ = "time" THEN "compare" ELSE "clock"]
    /\ UNCHANGED <<restartRequested, restartTime, request, requests, clock, lag, restarted, sinceAnswer>>

DueSigned(now, time) == now - time > RESTART_DELAY
Due(now, time) == (now - time) % WRAP > RESTART_DELAY

Compare ==
    /\ pass.at = "compare"
    /\ restarted' = Due(pass.now, pass.time)
    /\ Return
    /\ UNCHANGED <<restartRequested, restartTime, request, requests, clock, sinceAnswer>>

Tick ==
    /\ ~restarted /\ lag < MaxLag /\ request = 0     \* bound: the three stores take no tick
    /\ clock' = (clock + 1) % WRAP
    /\ lag' = lag + 1
    /\ sinceAnswer' = IF requests = 0 THEN 0 ELSE Older(sinceAnswer)
    /\ UNCHANGED <<restartRequested, restartTime, request, requests, pass, restarted>>

update == ~restarted /\ (SeeFlag \/ ReadOperand \/ Compare)

Next == (~restarted /\ (Answer \/ requestRestart)) \/ update \/ Tick

Spec == Init /\ [][Next]_vars

-----------------------------------------------------------------------------
(* The restart leaves the answer more than RESTART_DELAY to reach the      *)
(* browser, whatever the clock reads and wherever update() is when the     *)
(* request comes: of one request.  A second one, while the first waits,    *)
(* may store its time between update()'s two reads.                        *)
RestartLeavesDelay ==
    [][restarted' /\ ~restarted /\ requests = 1 => sinceAnswer > RESTART_DELAY]_vars

(* The restart is not forgotten: it comes within two passes of update(),   *)
(* counted from the last answer, however many requests there were.         *)
RestartedInTime == sinceAnswer > RESTART_DELAY + 2 * MaxLag => restarted
=============================================================================
