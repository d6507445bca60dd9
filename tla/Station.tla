------------------------------ MODULE Station ------------------------------
(***************************************************************************)
(* Joining the stored network and staying on it: connectToNetwork() during *)
(* begin(), the two event handlers on the event-loop task, and the         *)
(* reconnect supervision in update().                                      *)
(*                                                                         *)
(* getMillis() is a 32-bit count that wraps; here it wraps at WRAP ticks.  *)
(* update() reads the clock, then _lastReconnectMs, which an event handler *)
(* may set in between.  The WiFi driver is external: it associates, fails  *)
(* or loses the access point when it likes, and posts events in order.     *)
(***************************************************************************)
EXTENDS Integers, Sequences

CONSTANTS
    WRAP,           \* the clock's modulus (2^32 ms)
    RECONNECT_BASE,
    RECONNECT_MAX,
    maxConnectionAttempts,
    MaxLag,         \* update() is called at least once in so many ticks
    MaxFailures     \* where _reconnectFailures stops counting (255)

ClockAssumption ==
    /\ WRAP \in Nat /\ RECONNECT_BASE \in Nat \ {0} /\ RECONNECT_MAX \in Nat
    /\ MaxLag \in Nat \ {0}
    /\ RECONNECT_BASE + MaxLag <= RECONNECT_MAX /\ RECONNECT_MAX + 2 * MaxLag < WRAP
CountsAssumption == maxConnectionAttempts \in Nat \ {0} /\ MaxFailures \in Nat

VARIABLES
    phase,          \* begin(): "connecting", then the station or the hotspot
    radio,          \* the driver: "off", "idle", "associating", "joined"
    events,         \* posted, not yet handled
    bits,           \* _wifiEvents
    attempts,       \* turns of connectToNetwork()'s loop
    lastReconnect,  \* _lastReconnectMs
    failures,       \* _reconnectFailures
    pass,           \* update(): its place, and the clock it read
    clock,
    lag,            \* ticks since update() last returned
    disconnectedAt, \* history: ticks since the last disconnect was handled or retried
    idle            \* history: ticks the driver has sat idle

driver == <<radio, events>>
vars == <<phase, driver, bits, attempts, lastReconnect, failures, pass, clock, lag, disconnectedAt, idle>>

CONNECTED == "connected"
FAIL == "fail"
Resting == [at |-> "idle", now |-> 0]

(* Counters of the properties stop where the properties stop caring. *)
MaxIdle == RECONNECT_MAX + 2 * MaxLag + 1
UpTo(bound, n) == IF n < bound THEN n ELSE bound

Init ==
    /\ phase = "connecting"
    /\ radio = "associating"     \* esp_wifi_connect() was called
    /\ events = <<>>
    /\ bits = {}
    /\ attempts = 0
    /\ lastReconnect = 0 /\ failures = 0
    /\ pass = Resting
    /\ clock \in 0..(WRAP - 1)
    /\ lag = 0
    /\ disconnectedAt = RECONNECT_BASE
    /\ idle = 0

-----------------------------------------------------------------------------
(* The driver. *)

Post(e) == events' = Append(events, e)
Quiet == Len(events) < 2     \* bound: the event loop keeps up

Associate == radio = "associating" /\ radio' = "joined" /\ Post("got ip")
GiveUp == radio \in {"associating", "joined"} /\ radio' = "idle" /\ Post("disconnected")
Driver ==
    /\ Quiet
    /\ Associate \/ GiveUp
    /\ idle' = 0
    /\ UNCHANGED <<phase, bits, attempts, lastReconnect, failures, pass, clock, lag, disconnectedAt>>

-----------------------------------------------------------------------------
(* The event-loop task. *)

wifiEventHandler ==
    /\ events # <<>> /\ Head(events) = "disconnected"
    /\ events' = Tail(events)
    /\ bits' = bits \cup {FAIL}
    /\ lastReconnect' = clock
    /\ disconnectedAt' = 0
    /\ UNCHANGED <<phase, radio, attempts, failures, pass, clock, lag, idle>>

ipEventHandlerCounting ==
    /\ events # <<>> /\ Head(events) = "got ip"
    /\ events' = Tail(events)
    /\ bits' = bits \cup {CONNECTED}
    /\ UNCHANGED <<phase, radio, attempts, lastReconnect, failures, pass, clock, lag, disconnectedAt, idle>>

ipEventHandler ==
    /\ events # <<>> /\ Head(events) = "got ip"
    /\ events' = Tail(events)
    /\ bits' = bits \cup {CONNECTED}
    /\ failures' = 0
    /\ UNCHANGED <<phase, radio, attempts, lastReconnect, pass, clock, lag, disconnectedAt, idle>>

-----------------------------------------------------------------------------
(* connectToNetwork: waits in slices for either bit, then decides. *)

WaitSlice ==
    /\ phase = "connecting" /\ bits = {} /\ attempts < maxConnectionAttempts
    /\ attempts' = attempts + 1
    /\ UNCHANGED <<phase, driver, bits, lastReconnect, failures, pass, clock, lag, disconnectedAt, idle>>

ConnectEnds ==
    /\ phase = "connecting" /\ (bits # {} \/ attempts = maxConnectionAttempts)
    /\ bits' = {}
    /\ IF CONNECTED \in bits
       THEN phase' = "station" /\ failures' = 0 /\ UNCHANGED radio
       ELSE phase' = "hotspot" /\ radio' = "off" /\ UNCHANGED failures
    /\ UNCHANGED <<events, attempts, lastReconnect, pass, clock, lag, disconnectedAt, idle>>

-----------------------------------------------------------------------------
(* update(), while _staWantsConnection and not in the hotspot. *)

ReadClock ==
    /\ phase = "station" /\ pass.at = "idle"
    /\ pass' = [at |-> "compare", now |-> clock]
    /\ UNCHANGED <<phase, driver, bits, attempts, lastReconnect, failures, clock, lag, disconnectedAt, idle>>

Since(last, t) == (t - last) % WRAP

BackoffUncapped[n \in 0..MaxFailures] ==
    IF n = 0 THEN RECONNECT_BASE ELSE 2 * BackoffUncapped[n - 1]

(* Doubled for every failure, up to the maximum. *)
Backoff[n \in 0..MaxFailures] ==
    IF n = 0 THEN RECONNECT_BASE
    ELSE IF 2 * Backoff[n - 1] < RECONNECT_MAX THEN 2 * Backoff[n - 1] ELSE RECONNECT_MAX

WaitedUncapped == Since(lastReconnect, pass.now) >= BackoffUncapped[failures]
Waited == Since(lastReconnect, pass.now) >= Backoff[failures]

(* The time since the last attempt decides; only then is the driver asked. *)
Compare ==
    /\ phase = "station" /\ pass.at = "compare"
    /\ lastReconnect' = IF Waited THEN pass.now ELSE lastReconnect
    /\ IF Waited /\ radio # "joined"     \* isConnected()
       THEN pass' = [pass EXCEPT !.at = "connect"] /\ UNCHANGED lag
       ELSE pass' = Resting /\ lag' = 0
    /\ UNCHANGED <<phase, driver, bits, attempts, failures, clock, disconnectedAt, idle>>

NextFailure(n) == IF n < MaxFailures THEN n + 1 ELSE n

(* The counter and esp_wifi_connect(), which does nothing to a driver that *)
(* is already associating, or that joined meanwhile.                       *)
Connect ==
    /\ phase = "station" /\ pass.at = "connect"
    /\ failures' = NextFailure(failures)
    /\ radio' = IF radio = "idle" THEN "associating" ELSE radio
    /\ disconnectedAt' = 0
    /\ idle' = 0
    /\ pass' = Resting
    /\ lag' = 0
    /\ UNCHANGED <<phase, events, bits, attempts, lastReconnect, clock>>

(* Time passes; posted events are handled and update() is called in time. *)
Tick ==
    /\ events = <<>>
    /\ phase = "station" => lag < MaxLag
    /\ clock' = (clock + 1) % WRAP
    /\ lag' = IF phase = "station" THEN lag + 1 ELSE 0
    /\ disconnectedAt' = UpTo(RECONNECT_BASE, disconnectedAt + 1)
    /\ idle' = IF radio = "idle" /\ phase = "station" THEN UpTo(MaxIdle, idle + 1) ELSE 0
    /\ UNCHANGED <<phase, driver, bits, attempts, lastReconnect, failures, pass>>

EventLoop == wifiEventHandler \/ ipEventHandler
Begin == WaitSlice \/ ConnectEnds
Update == ReadClock \/ Compare \/ Connect

Next == Driver \/ EventLoop \/ Begin \/ Update \/ Tick

Spec == Init /\ [][Next]_vars

-----------------------------------------------------------------------------
(* A station that lost its access point is idle for the longest backoff at *)
(* most (and the two passes around it), whatever the clock reads, when the *)
(* disconnects come and however often it failed before.                    *)
RetriedInTime == idle <= RECONNECT_MAX + 2 * MaxLag

(* The counter is about the present outage: once the address is there it   *)
(* is back at nought, or at the one that update() counted while the        *)
(* address came; it never keeps an earlier outage's failures.              *)
FailuresForgotten ==
    phase = "station" /\ radio = "joined" /\ events = <<>> => failures <= 1

(* update() decides to retry only when the base time has passed since the  *)
(* last disconnect was handled, and since the last retry.                  *)
RetryBacksOff ==
    [][Compare /\ pass'.at = "connect" => disconnectedAt >= RECONNECT_BASE]_vars
=============================================================================
