---------------------------- MODULE WifiSettings ----------------------------
(***************************************************************************)
(* The stored WiFi settings and the device password that goes with them:   *)
(* WiFiSetupManager's save handler, its factory reset (from the web page   *)
(* or from the application), the restart both ask for, and what begin()    *)
(* makes of flash on the way up.                                           *)
(*                                                                         *)
(* The server task and the application's task interleave between any two   *)
(* NVS calls; the power or the requested restart may cut either of them    *)
(* short there.  Of the access guard (module AccessGuard) only whether it  *)
(* has a password is kept, in RAM and in flash, and its mutex.             *)
(***************************************************************************)
EXTENDS Naturals

CONSTANTS
    Ssids,          \* network names
    Passphrases,    \* WiFi passwords that are not blank
    Blank,          \* the blank WiFi password
    Absent,         \* the value of an NVS entry that is not stored
    Resetters,      \* the tasks that call factoryReset(): {"httpd", "app"}
    Faults          \* {"flash", "power"}

ASSUME ValuesAssumption ==
    /\ Blank \notin Passphrases
    /\ Absent \notin Ssids \cup Passphrases \cup {Blank, "named"}
ASSUME ResettersAssumption == Resetters \subseteq {"httpd", "app"}

VARIABLES
    nvs,            \* the namespace of the WiFi settings
    guarded,        \* Access.hasPassword()
    guardStored,    \* the same, as a restart would load it
    guardLock,      \* the access guard's mutex
    task,           \* what each task is doing
    restartRequested,
    answered,       \* history: the settings the last save was answered "saved" for
    forgotten,      \* history: a factory reset ran to its end, and no save began since
    failed,         \* history: flash refused a call of setPassword() or of a factory reset
    halfSaved,      \* history: a save ended with its network stored and its password not
    entered,        \* history: the networks and passwords that were entered together
    crossed         \* history: a reset of the application overlapped a save

history == <<answered, forgotten, failed, halfSaved, entered, crossed>>
guardVars == <<guarded, guardStored, guardLock>>
vars == <<nvs, guardVars, task, restartRequested, history>>

Httpd == "httpd"
App == "app"
Tasks == {Httpd, App}
Free == "free"
Keys == {"host", "ssid", "password"}

Passwords == Passphrases \cup {Blank}
EmptyNvs == [k \in Keys |-> Absent]
NoAnswer == [ssid |-> Absent, password |-> Absent]
Idle == [pc |-> "idle", ssid |-> Absent, password |-> Blank, keep |-> FALSE]

MayFail == "flash" \in Faults
At(t, pc) == task[t].pc = pc
Goto(t, pc) == task' = [task EXCEPT ![t].pc = pc]
Saving == task[Httpd].pc \in {"choose", "setPassword", "persist", "keep", "host", "ssid", "password",
                             "saved"}

Init ==
    /\ nvs = EmptyNvs
    /\ guarded = FALSE /\ guardStored = FALSE /\ guardLock = Free
    /\ task = [t \in Tasks |-> Idle]
    /\ restartRequested = FALSE
    /\ answered = NoAnswer /\ forgotten = FALSE /\ failed = FALSE /\ halfSaved = FALSE /\ entered = {} /\ crossed = FALSE

-----------------------------------------------------------------------------
(* handleSaveWifi *)

(* A save somebody may make: on an unguarded device anyone, on a guarded   *)
(* one a signed-in browser.  The values passed the length checks.          *)
handleSaveWifi ==
    /\ At(Httpd, "idle")
    /\ \E s \in Ssids, p \in Passwords :
          task' = [task EXCEPT ![Httpd] = [Idle EXCEPT !.pc = "choose", !.ssid = s, !.password = p]]
    /\ answered' = NoAnswer
    /\ forgotten' = FALSE
    /\ crossed' = (crossed \/ ~At(App, "idle"))
    /\ UNCHANGED <<nvs, guardVars, restartRequested, failed, halfSaved, entered>>

(* Only a device without a password takes one from a save; without a       *)
(* usable one the save is refused.                                         *)
Choose ==
    /\ At(Httpd, "choose") /\ guardLock = Free
    /\ IF guarded THEN Goto(Httpd, "keep") ELSE Goto(Httpd, "setPassword") \/ Goto(Httpd, "idle")
    /\ UNCHANGED <<nvs, guardVars, restartRequested, history>>

(* Access.setPassword: RAM at once, then flash.  A write that fails may    *)
(* have stored it all the same; the save ends there.                       *)
SetPassword ==
    /\ At(Httpd, "setPassword") /\ guardLock = Free
    /\ guarded' = TRUE
    /\ guardLock' = Httpd
    /\ Goto(Httpd, "persist")
    /\ UNCHANGED <<nvs, guardStored, restartRequested, history>>

PersistPassword ==
    /\ At(Httpd, "persist")
    /\ guardLock' = Free
    /\ \/ guardStored' = TRUE /\ Goto(Httpd, "keep") /\ UNCHANGED failed
       \/ MayFail /\ guardStored' \in {guardStored, TRUE} /\ Goto(Httpd, "idle") /\ failed' = TRUE
    /\ UNCHANGED <<nvs, guarded, restartRequested, answered, forgotten, halfSaved, entered, crossed>>

KeepIfBlank(t) == task[t].password = Blank
(* A blank password keeps the stored one of the network already stored. *)
KeepPassword(t) == task[t].password = Blank /\ task[t].ssid = nvs["ssid"]
Keep ==
    /\ At(Httpd, "keep")
    /\ task' = [task EXCEPT ![Httpd].pc = "host", ![Httpd].keep = KeepPassword(Httpd)]
    /\ entered' = IF KeepPassword(Httpd) THEN entered
                  ELSE entered \cup {<<task[Httpd].ssid, task[Httpd].password>>}
    /\ UNCHANGED <<nvs, guardVars, restartRequested, answered, forgotten, failed, halfSaved, crossed>>

StoreUnchecked(k, v, next) == nvs' \in {nvs, [nvs EXCEPT ![k] = v]} /\ Goto(Httpd, next)

(* nvsSetString: written and committed; a failed commit may have written.  *)
Store(k, v, next) ==
    \/ nvs' = [nvs EXCEPT ![k] = v] /\ Goto(Httpd, next)
    \/ MayFail /\ nvs' \in {nvs, [nvs EXCEPT ![k] = v]} /\ Goto(Httpd, "idle")

PasswordDue == task[Httpd].pc \in {"ssid", "password"} /\ ~task[Httpd].keep

(* The name, the network and the password, one after the other. *)
StoreSettings ==
    /\ \/ At(Httpd, "host") /\ Store("host", "named", "ssid")
       \/ At(Httpd, "ssid") /\ Store("ssid", task[Httpd].ssid, "password")
       \/ At(Httpd, "password") /\ ~task[Httpd].keep /\ Store("password", task[Httpd].password, "saved")
       \/ At(Httpd, "password") /\ task[Httpd].keep /\ Goto(Httpd, "saved") /\ UNCHANGED nvs
    /\ halfSaved' = IF At(Httpd, "password") /\ PasswordDue /\ task'[Httpd].pc = "saved" THEN FALSE
                    ELSE halfSaved \/ (PasswordDue /\ task'[Httpd].pc = "idle")
    /\ UNCHANGED <<guardVars, restartRequested, answered, forgotten, failed, entered, crossed>>

(* The answer, then requestRestart(). *)
Saved ==
    /\ At(Httpd, "saved")
    /\ answered' = [ssid |-> task[Httpd].ssid,
                    password |-> IF task[Httpd].keep THEN Absent ELSE task[Httpd].password]
    /\ restartRequested' = TRUE
    /\ task' = [task EXCEPT ![Httpd] = Idle]
    /\ UNCHANGED <<nvs, guardVars, forgotten, failed, halfSaved, entered, crossed>>

-----------------------------------------------------------------------------
(* factoryReset: nvsClear(), Access.clear(), requestRestart(); nobody      *)
(* looks whether the first two succeeded.                                  *)
ResetOrderSwapped == <<"clear guard", "clear settings">>
ResetOrder == <<"clear settings", "clear guard">>
Following(pc) == IF pc = ResetOrder[1] THEN ResetOrder[2] ELSE "restart"

FactoryReset(t) ==
    /\ At(t, "idle")
    /\ t \in Resetters
    /\ Goto(t, ResetOrder[1])
    /\ answered' = NoAnswer
    /\ crossed' = (crossed \/ (t = App /\ Saving))
    /\ UNCHANGED <<nvs, guardVars, restartRequested, forgotten, failed, halfSaved, entered>>

(* nvs_erase_all goes entry by entry. *)
ClearSettings(t) ==
    /\ At(t, "clear settings")
    /\ \/ \E k \in Keys : /\ nvs[k] # Absent
                          /\ nvs' = [nvs EXCEPT ![k] = Absent]
                          /\ UNCHANGED <<task, failed>>
       \/ nvs = EmptyNvs /\ Goto(t, Following("clear settings")) /\ UNCHANGED <<nvs, failed>>
       \/ MayFail /\ Goto(t, Following("clear settings")) /\ failed' = TRUE /\ UNCHANGED nvs
    /\ UNCHANGED <<guardVars, restartRequested, answered, forgotten, halfSaved, entered, crossed>>

ClearGuard(t) ==
    /\ At(t, "clear guard") /\ guardLock = Free
    /\ guarded' = FALSE
    /\ guardLock' = t
    /\ Goto(t, "erase guard")
    /\ UNCHANGED <<nvs, guardStored, restartRequested, history>>

EraseGuard(t) ==
    /\ At(t, "erase guard")
    /\ guardLock' = Free
    /\ \/ guardStored' = FALSE /\ UNCHANGED failed
       \/ MayFail /\ failed' = TRUE /\ UNCHANGED guardStored
    /\ Goto(t, Following("clear guard"))
    /\ UNCHANGED <<nvs, guarded, restartRequested, answered, forgotten, halfSaved, entered, crossed>>

RequestRestart(t) ==
    /\ At(t, "restart")
    /\ restartRequested' = TRUE
    /\ forgotten' = ~Saving
    /\ task' = [task EXCEPT ![t] = Idle]
    /\ UNCHANGED <<nvs, guardVars, answered, failed, halfSaved, entered, crossed>>

-----------------------------------------------------------------------------
(* begin() reads the guard's entries again; the WiFi settings are read     *)
(* from flash whenever they are needed.                                    *)
Boot ==
    /\ guarded' = guardStored
    /\ guardLock' = Free
    /\ task' = [t \in Tasks |-> Idle]
    /\ restartRequested' = FALSE
    /\ halfSaved' = (halfSaved \/ (At(Httpd, "password") /\ PasswordDue))
    /\ UNCHANGED <<nvs, guardStored, answered, forgotten, failed, entered, crossed>>

(* update() restarts a while after the request, from a task of its own:    *)
(* whatever the server task is doing is cut short.                         *)
Restart == restartRequested /\ At(App, "idle") /\ Boot

PowerCut == "power" \in Faults /\ Boot

Save == handleSaveWifi \/ Choose \/ SetPassword \/ PersistPassword \/ Keep \/ StoreSettings \/ Saved
Reset(t) ==
    FactoryReset(t) \/ ClearSettings(t) \/ ClearGuard(t) \/ EraseGuard(t) \/ RequestRestart(t)

Next == Save \/ (\E t \in Tasks : Reset(t)) \/ Restart \/ PowerCut

Spec == Init /\ [][Next]_vars

-----------------------------------------------------------------------------
(* A device that knows a network to join has a device password: whatever   *)
(* is cut short, begin() never joins the LAN with the setup routes open,   *)
(* unless flash refused the password itself or a part of a reset, or the   *)
(* application reset the device in the middle of a save.                   *)
ConfiguredIsGuarded == nvs["host"] # Absent /\ nvs["ssid"] # Absent /\ ~failed /\ ~crossed => guardStored

(* What a save was answered "saved" for is what begin() will read, until   *)
(* the next save or reset begins, whichever write failed before, and       *)
(* wherever a reset of the application falls outside the save.             *)
AnsweredIsStored ==
    answered # NoAnswer /\ ~crossed =>
        /\ nvs["host"] # Absent /\ nvs["ssid"] = answered.ssid
        /\ answered.password # Absent => nvs["password"] = answered.password

(* A WiFi password that a saved network is joined with was entered for     *)
(* that network, also when the save left it blank to keep the one stored,  *)
(* unless an earlier save broke off between the two.                       *)
KeptPasswordBelongs ==
    answered # NoAnswer /\ nvs["password"] # Absent /\ ~halfSaved /\ ~crossed =>
        <<nvs["ssid"], nvs["password"]>> \in entered

(* A factory reset that ran to its end left nothing behind, in flash or in *)
(* RAM, unless flash refused a part of it.                                 *)
ResetForgets == forgotten /\ ~failed /\ ~crossed => nvs = EmptyNvs /\ ~guarded /\ ~guardStored

(* What the device answered is so: a save is stored, a reset forgot.       *)
AnswersAreTrue == AnsweredIsStored /\ ResetForgets
=============================================================================
