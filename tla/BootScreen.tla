----------------------------- MODULE BootScreen -----------------------------
(***************************************************************************)
(* The boot screen while begin() runs: who is inside LVGL.  begin(), on    *)
(* the application's task, shows its progress through the status callback, *)
(* and the application takes the screen back (cleanup()) once begin() has  *)
(* returned.  The event loop's task shows the address when it comes.       *)
(* Nothing locks: LVGL.md asks that there be one owner.                    *)
(***************************************************************************)
EXTENDS Naturals

CONSTANT maxConnectionAttempts

VARIABLES
    app,        \* where the application's task is
    loop,       \* where the event loop's task is
    posted,     \* the event waiting for it
    bits,       \* _wifiEvents
    attempts

vars == <<app, loop, posted, bits, attempts>>

Init ==
    /\ app = "onConnecting" /\ loop = "idle" /\ posted = "none"
    /\ bits = {} /\ attempts = 0

(* The driver: the association succeeds or not, some time after the call. *)
Associated ==
    /\ posted = "none" /\ loop = "idle" /\ app # "onConnecting"
    /\ posted' \in {"got ip", "disconnected"}
    /\ UNCHANGED <<app, loop, bits, attempts>>

wifiEventHandler ==
    /\ posted = "disconnected"
    /\ posted' = "none"
    /\ bits' = bits \cup {"fail"}
    /\ UNCHANGED <<app, loop, attempts>>

(* The bit, which wakes the application's task, and then the callback. *)
ipEventHandler ==
    \/ /\ posted = "got ip" /\ posted' = "none"
       /\ bits' = bits \cup {"connected"}
       /\ loop' = "tell"
       /\ UNCHANGED <<app, attempts>>
    \/ /\ loop = "tell" /\ loop' = "onConnected"
       /\ UNCHANGED <<app, posted, bits, attempts>>
    \/ /\ loop = "onConnected" /\ loop' = "idle"
       /\ UNCHANGED <<app, posted, bits, attempts>>

(* connectToNetwork, one slice after the other. *)
connectToNetwork ==
    \/ /\ app \in {"onConnecting", "onConnectionProgress"}
       /\ app' = IF app = "onConnecting" THEN "loop" ELSE "wait"
       /\ UNCHANGED <<bits, attempts>>
    \/ /\ app = "loop"
       /\ app' = "onConnectionProgress"
       /\ UNCHANGED <<bits, attempts>>
    \/ /\ app = "wait"      \* a bit, or the slice's end
       /\ attempts' = attempts + 1
       /\ bits' = {}
       /\ app' = IF "connected" \in bits THEN "serve"
                 ELSE IF bits # {} \/ attempts' = maxConnectionAttempts THEN "onScanStart"
                 ELSE "loop"

(* scanNetworks and startAPMode; a hotspot that fails says nothing. *)
Portal ==
    \/ app = "onScanStart" /\ app' = "scan"
    \/ app = "scan" /\ app' = "onScanComplete"
    \/ app = "onScanComplete" /\ app' = "start AP"
    \/ app = "start AP" /\ app' \in {"onAPMode", "serve"}
    \/ app = "onAPMode" /\ app' = "serve"

(* begin() returns, and the application removes the widgets. *)
HandBack ==
    \/ app = "serve" /\ app' = "cleanup"
    \/ app = "cleanup" /\ app' = "done"

Application ==
    /\ connectToNetwork \/ ((Portal \/ HandBack) /\ UNCHANGED <<bits, attempts>>)
    /\ UNCHANGED <<loop, posted>>

Next == Associated \/ wifiEventHandler \/ ipEventHandler \/ Application

Spec == Init /\ [][Next]_vars

-----------------------------------------------------------------------------
ScreenCalls == {"onConnecting", "onConnectionProgress", "onScanStart", "onScanComplete", "onAPMode", "cleanup"}

(* While begin() runs, and before the application has an LVGL task of its  *)
(* own, LVGL has one user at a time: the case WiFiSetupBootUI is built     *)
(* for (LVGL.md:48-50).                                                    *)
OneTaskInLvgl == ~(app \in ScreenCalls /\ loop = "onConnected")
=============================================================================
