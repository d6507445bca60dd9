-------------------------- MODULE WifiSettingsProofs --------------------------
(***************************************************************************)
(* What is proved of the stored settings, for any networks and passwords,  *)
(* any of the tasks that reset, and with every fault.  The invariant       *)
(* follows a save and a reset through their steps; it holds of the two     *)
(* tasks because a save that a reset of the application overlaps is marked *)
(* (crossed), and everywhere else a save has both tasks to itself.         *)
(***************************************************************************)
EXTENDS WifiSettings, TLAPS

Resetting == {"clear settings", "clear guard", "erase guard", "restart"}
SavePlaces == {"choose", "setPassword", "persist", "keep", "host", "ssid", "password", "saved"}
Jobs == [pc : {"idle"} \cup SavePlaces \cup Resetting, ssid : Ssids \cup {Absent}, password : Passwords, keep : BOOLEAN]

Typed ==
    /\ task \in [Tasks -> Jobs]
    /\ nvs \in [Keys -> {Absent, "named"} \cup Ssids \cup Passwords]
    /\ task[App].pc \notin SavePlaces
    /\ Saving => task[Httpd].ssid \in Ssids

(* The guard's mutex is held by the task between the store to RAM and the  *)
(* one to flash, which is what keeps the two the same.                     *)
Locked ==
    /\ \A t \in Tasks : At(t, "persist") \/ At(t, "erase guard") => guardLock = t
    /\ At(Httpd, "persist") => guarded
    /\ \A t \in Tasks : At(t, "erase guard") => ~ guarded
    /\ guarded /\ ~ failed => guardStored \/ At(Httpd, "persist")

(* A save that overlaps nothing: the guard is in flash before the settings *)
(* go there, and a reset erases the settings before the guard.             *)
Apart == Saving /\ ~ At(App, "idle") => crossed
GuardFirst ==
    ~ failed /\ ~ crossed =>
       /\ nvs["host"] # Absent /\ nvs["ssid"] # Absent => guardStored
       /\ task[Httpd].pc \in {"keep", "host", "ssid", "password", "saved"} => guardStored
       /\ \A t \in Tasks : task[t].pc \in {"clear guard", "erase guard", "restart"} => nvs = EmptyNvs
       /\ \A t \in Tasks : At(t, "restart") => ~ guarded /\ ~ guardStored

Forgot ==
    /\ forgotten => ~ Saving
    /\ forgotten /\ ~ failed /\ ~ crossed => nvs = EmptyNvs /\ ~ guarded /\ ~ guardStored

(* How far a save has come, and what an answered one has stored. *)
Stored ==
    ~ crossed =>
       /\ task[Httpd].pc \in {"ssid", "password", "saved"} => nvs["host"] # Absent
       /\ task[Httpd].pc \in {"password", "saved"} => nvs["ssid"] = task[Httpd].ssid
       /\ At(Httpd, "saved") /\ ~ task[Httpd].keep => nvs["password"] = task[Httpd].password
       /\ answered # NoAnswer => /\ \A t \in Tasks : At(t, "idle")
                                 /\ nvs["host"] # Absent /\ nvs["ssid"] = answered.ssid /\ answered.ssid # Absent
                                 /\ answered.password # Absent => nvs["password"] = answered.password

(* Except between its network and its password, a save leaves no pair in   *)
(* flash that was not entered together.                                    *)
Belongs ==
    /\ task[Httpd].pc \in {"host", "ssid", "password", "saved"} /\ ~ task[Httpd].keep =>
          <<task[Httpd].ssid, task[Httpd].password>> \in entered
    /\ ~ crossed =>
       /\ task[Httpd].pc \in {"host", "ssid", "password", "saved"} /\ task[Httpd].keep =>
             nvs["ssid"] = task[Httpd].ssid
       /\ ~ halfSaved /\ ~ (At(Httpd, "password") /\ ~ task[Httpd].keep) /\ nvs["ssid"] # Absent /\ nvs["password"] # Absent =>
             <<nvs["ssid"], nvs["password"]>> \in entered

SettingsInv == Typed /\ Locked /\ Apart /\ GuardFirst /\ Forgot /\ Stored /\ Belongs

Places == {"idle"} \cup SavePlaces \cup Resetting

Moves(t, pc) ==
    /\ task' \in [Tasks -> Jobs]
    /\ task'[t].pc = pc
    /\ task'[t].ssid = task[t].ssid /\ task'[t].password = task[t].password /\ task'[t].keep = task[t].keep
    /\ \A u \in Tasks : u # t => task'[u] = task[u]

LEMMA GotoMoves ==
    ASSUME Typed, NEW t \in Tasks, NEW pc \in Places, Goto(t, pc)
    PROVE  Moves(t, pc)
<1>1. task[t] \in Jobs
    BY DEF Typed
<1>2. task' = [task EXCEPT ![t] = [task[t] EXCEPT !.pc = pc]]
    BY DEF Goto
<1>3. [task[t] EXCEPT !.pc = pc] \in Jobs
    BY <1>1 DEF Jobs, Places
<1>4. task' \in [Tasks -> Jobs] /\ task'[t] = [task[t] EXCEPT !.pc = pc] /\ \A u \in Tasks : u # t => task'[u] = task[u]
    BY <1>2, <1>3 DEF Typed
<1>5. /\ [task[t] EXCEPT !.pc = pc].pc = pc
      /\ [task[t] EXCEPT !.pc = pc].ssid = task[t].ssid
      /\ [task[t] EXCEPT !.pc = pc].password = task[t].password
      /\ [task[t] EXCEPT !.pc = pc].keep = task[t].keep
    BY <1>1 DEF Jobs
<1> QED
    BY <1>4, <1>5 DEF Moves

LEMMA IdleJob == Idle \in Jobs /\ Idle.pc = "idle" /\ Httpd \in Tasks /\ App \in Tasks /\ Httpd # App /\ Tasks = {Httpd, App}
BY DEF Idle, Jobs, Passwords, Tasks, Httpd, App

(* The steps of the two tasks, as what they do to the job of each. *)
LEMMA SaveBegins ==
    ASSUME Typed, handleSaveWifi
    PROVE  /\ task' \in [Tasks -> Jobs] /\ task'[Httpd].pc = "choose" /\ task'[Httpd].ssid \in Ssids
           /\ task'[App] = task[App]
<1>1. PICK s \in Ssids, p \in Passwords : task' = [task EXCEPT ![Httpd] = [Idle EXCEPT !.pc = "choose", !.ssid = s, !.password = p]]
    BY DEF handleSaveWifi
<1> DEFINE job == [Idle EXCEPT !.pc = "choose", !.ssid = s, !.password = p]
<1>2. job \in Jobs /\ job.pc = "choose" /\ job.ssid = s
    BY IdleJob DEF Jobs, SavePlaces
<1>3. task' = [task EXCEPT ![Httpd] = job]
    BY <1>1
<1> HIDE DEF job
<1> QED
    BY <1>2, <1>3, IdleJob DEF Typed

LEMMA ChooseMoves ==
    ASSUME Typed, Choose
    PROVE  \/ guarded /\ Moves(Httpd, "keep")
           \/ ~ guarded /\ Moves(Httpd, "setPassword")
           \/ Moves(Httpd, "idle")
BY GotoMoves, IdleJob DEF Choose, Places, SavePlaces

LEMMA KeepMoves ==
    ASSUME Typed, Keep
    PROVE  /\ task' \in [Tasks -> Jobs] /\ task'[Httpd].pc = "host" /\ task'[Httpd].ssid = task[Httpd].ssid
           /\ task'[Httpd].password = task[Httpd].password /\ (task'[Httpd].keep <=> KeepPassword(Httpd))
           /\ task'[App] = task[App]
<1>1. task[Httpd] \in Jobs
    BY IdleJob DEF Typed
<1> DEFINE job == [task[Httpd] EXCEPT !.pc = "host", !.keep = KeepPassword(Httpd)]
<1>2. task' = [task EXCEPT ![Httpd] = job]
    BY <1>1, IdleJob DEF Keep, Typed
<1>3. job \in Jobs /\ job.pc = "host" /\ job.ssid = task[Httpd].ssid /\ job.password = task[Httpd].password
    BY <1>1 DEF Jobs, SavePlaces, KeepPassword
<1>4. job.keep <=> KeepPassword(Httpd)
    BY <1>1 DEF Jobs
<1> HIDE DEF job
<1> QED
    BY <1>2, <1>3, <1>4, IdleJob DEF Typed

StoredAs(k, v, next) ==
    \/ nvs' = [nvs EXCEPT ![k] = v] /\ Moves(Httpd, next)
    \/ nvs' \in {nvs, [nvs EXCEPT ![k] = v]} /\ Moves(Httpd, "idle")

LEMMA StoreMoves ==
    ASSUME Typed, StoreSettings
    PROVE  \/ At(Httpd, "host") /\ StoredAs("host", "named", "ssid")
           \/ At(Httpd, "ssid") /\ StoredAs("ssid", task[Httpd].ssid, "password")
           \/ At(Httpd, "password") /\ ~ task[Httpd].keep /\ StoredAs("password", task[Httpd].password, "saved")
           \/ At(Httpd, "password") /\ task[Httpd].keep /\ Moves(Httpd, "saved") /\ nvs' = nvs
<1>1. \A pc \in {"ssid", "password", "saved", "idle"} : Goto(Httpd, pc) => Moves(Httpd, pc)
    BY GotoMoves, IdleJob DEF Places, SavePlaces
<1> QED
    BY <1>1 DEF StoreSettings, Store, StoredAs

LEMMA SavedMoves ==
    ASSUME Typed, Saved
    PROVE  task' \in [Tasks -> Jobs] /\ task'[Httpd].pc = "idle" /\ task'[App] = task[App]
BY IdleJob DEF Saved, Typed

LEMMA ResetMoves ==
    ASSUME Typed, NEW t \in Tasks
    PROVE  /\ FactoryReset(t) => At(t, "idle") /\ Moves(t, "clear settings")
           /\ ClearSettings(t) =>
                 \/ nvs # EmptyNvs /\ (\E k \in Keys : nvs' = [nvs EXCEPT ![k] = Absent]) /\ UNCHANGED <<task, failed>>
                 \/ nvs = EmptyNvs /\ Moves(t, "clear guard") /\ UNCHANGED <<nvs, failed>>
                 \/ Moves(t, "clear guard") /\ failed' /\ UNCHANGED nvs
           /\ ClearGuard(t) => Moves(t, "erase guard")
           /\ EraseGuard(t) => Moves(t, "restart")
<1>1. \A pc \in {"clear settings", "clear guard", "erase guard", "restart"} : Goto(t, pc) => Moves(t, pc)
    BY GotoMoves DEF Places, Resetting
<1>2. ResetOrder[1] = "clear settings" /\ Following("clear settings") = "clear guard" /\ Following("clear guard") = "restart"
    BY DEF ResetOrder, Following
<1>3. FactoryReset(t) => At(t, "idle") /\ Moves(t, "clear settings")
    BY <1>1, <1>2 DEF FactoryReset
<1>4. ClearGuard(t) => Moves(t, "erase guard")
    BY <1>1 DEF ClearGuard
<1>5. EraseGuard(t) => Moves(t, "restart")
    BY <1>1, <1>2 DEF EraseGuard
<1>6. ASSUME ClearSettings(t)
      PROVE  \/ nvs # EmptyNvs /\ (\E k \in Keys : nvs' = [nvs EXCEPT ![k] = Absent]) /\ UNCHANGED <<task, failed>>
             \/ nvs = EmptyNvs /\ Moves(t, "clear guard") /\ UNCHANGED <<nvs, failed>>
             \/ Moves(t, "clear guard") /\ failed' /\ UNCHANGED nvs
    BY <1>1, <1>2, <1>6 DEF ClearSettings, EmptyNvs
<1> QED
    BY <1>3, <1>4, <1>5, <1>6

LEMMA RestartMoves ==
    ASSUME Typed, NEW t \in Tasks, RequestRestart(t)
    PROVE  task' \in [Tasks -> Jobs] /\ task'[t].pc = "idle" /\ \A u \in Tasks : u # t => task'[u] = task[u]
BY IdleJob DEF RequestRestart, Typed

LEMMA BootMoves ==
    ASSUME Boot
    PROVE  task' \in [Tasks -> Jobs] /\ \A t \in Tasks : task'[t].pc = "idle"
BY IdleJob DEF Boot

LEMMA TypedStep == ASSUME Typed, Next PROVE Typed'
<1> USE IdleJob
<1> DEFINE Good == Typed'
<1> SUFFICES Good
    OBVIOUS
<1>1. CASE handleSaveWifi
    BY <1>1, SaveBegins DEF Typed, handleSaveWifi
<1>2. CASE Choose
    BY <1>2, ChooseMoves DEF Typed, Choose, Moves, Saving, At
<1>3. CASE SetPassword
    BY <1>3, GotoMoves DEF Typed, SetPassword, Moves, Saving, At, Places, SavePlaces
<1>4. CASE PersistPassword
    BY <1>4, GotoMoves DEF Typed, PersistPassword, Moves, Saving, At, Places, SavePlaces
<1>5. CASE Keep
    BY <1>5, KeepMoves DEF Typed, Keep, Saving, At
<1>6. CASE StoreSettings
    BY <1>6, StoreMoves DEF Typed, StoreSettings, StoredAs, Moves, Saving, At, Keys, Jobs
<1>7. CASE Saved
    BY <1>7, SavedMoves DEF Typed, Saved, Saving
<1>8. ASSUME NEW t \in Tasks, FactoryReset(t) PROVE Good
    BY <1>8, ResetMoves DEF Typed, FactoryReset, Moves, Saving, SavePlaces
<1>9. ASSUME NEW t \in Tasks, ClearSettings(t) PROVE Good
  <2>1. nvs' \in [Keys -> {Absent, "named"} \cup Ssids \cup Passwords]
    BY <1>9, ResetMoves DEF Typed
  <2>2. UNCHANGED task \/ Moves(t, "clear guard")
    BY <1>9, ResetMoves
  <2> QED
    BY <2>1, <2>2 DEF Typed, Moves, Saving, SavePlaces
<1>10. ASSUME NEW t \in Tasks, ClearGuard(t) PROVE Good
    BY <1>10, ResetMoves DEF Typed, ClearGuard, Moves, Saving, SavePlaces
<1>11. ASSUME NEW t \in Tasks, EraseGuard(t) PROVE Good
    BY <1>11, ResetMoves DEF Typed, EraseGuard, Moves, Saving, SavePlaces
<1>12. ASSUME NEW t \in Tasks, RequestRestart(t) PROVE Good
    BY <1>12, RestartMoves DEF Typed, RequestRestart, Saving, SavePlaces
<1>13. CASE Boot
    BY <1>13, BootMoves DEF Typed, Boot, Saving, SavePlaces
<1> QED
    BY <1>1, <1>2, <1>3, <1>4, <1>5, <1>6, <1>7, <1>8, <1>9, <1>10, <1>11, <1>12, <1>13
       DEF Next, Save, Reset, Restart, PowerCut

LEMMA LockedStep == ASSUME Typed, Locked, Next PROVE Locked'
<1> USE IdleJob DEF guardVars, history
<1> DEFINE Good == Locked'
<1> SUFFICES Good
    OBVIOUS
<1>0. ASSUME NEW t \in Tasks, NEW pc \in Places, Moves(t, pc), pc \notin {"persist", "erase guard"}, task[t].pc \notin {"persist", "erase guard"},
             UNCHANGED <<guarded, guardStored, guardLock>>, failed => failed'
      PROVE  Good
    BY <1>0 DEF Locked, Moves, At
<1>1. CASE handleSaveWifi
    BY <1>1, SaveBegins DEF Locked, At, handleSaveWifi
<1>2. CASE Choose
    BY <1>0, <1>2, ChooseMoves DEF Choose, Places, SavePlaces, At
<1>3. CASE SetPassword
  <2>1. Moves(Httpd, "persist") /\ guarded' /\ guardLock' = Httpd /\ guardLock = Free
    BY <1>3, GotoMoves DEF SetPassword, Places, SavePlaces
  <2> QED
    BY <2>1 DEF Locked, Moves, At, Free, Tasks, Httpd, App
<1>4. CASE PersistPassword
  <2>1. (Moves(Httpd, "keep") /\ guardStored') \/ (Moves(Httpd, "idle") /\ failed')
    BY <1>4, GotoMoves DEF PersistPassword, Places, SavePlaces
  <2>2. guarded' = guarded /\ task[Httpd].pc = "persist"
    BY <1>4 DEF PersistPassword, At
  <2>3. task[App].pc # "erase guard" /\ task[App].pc # "persist"
    BY <2>2 DEF Locked, At, Tasks, Httpd, App
  <2> QED
    BY <2>1, <2>2, <2>3 DEF Locked, Moves, At
<1>5. CASE Keep
    BY <1>5, KeepMoves DEF Locked, Keep, At
<1>6. CASE StoreSettings
    BY <1>0, <1>6, StoreMoves DEF StoreSettings, StoredAs, Places, SavePlaces, At
<1>7. CASE Saved
    BY <1>7, SavedMoves DEF Locked, Saved, At
<1>8. ASSUME NEW t \in Tasks, FactoryReset(t) PROVE Good
    BY <1>0, <1>8, ResetMoves DEF FactoryReset, At, Places, Resetting
<1>9. ASSUME NEW t \in Tasks, ClearSettings(t) PROVE Good
    BY <1>9, ResetMoves DEF Locked, ClearSettings, Moves, At
<1>10. ASSUME NEW t \in Tasks, ClearGuard(t) PROVE Good
  <2>1. Moves(t, "erase guard") /\ ~ guarded' /\ guardLock' = t /\ guardLock = Free
    BY <1>10, ResetMoves DEF ClearGuard
  <2> QED
    BY <2>1 DEF Locked, Moves, At, Free, Tasks, Httpd, App
<1>11. ASSUME NEW t \in Tasks, EraseGuard(t) PROVE Good
  <2>1. Moves(t, "restart") /\ guarded' = guarded /\ task[t].pc = "erase guard" /\ ~ guarded
    BY <1>11, ResetMoves DEF EraseGuard, Locked, At
  <2>2. \A u \in Tasks : u # t => task[u].pc # "erase guard" /\ task[u].pc # "persist"
    BY <2>1 DEF Locked, At, Tasks, Httpd, App
  <2> QED
    BY <2>1, <2>2 DEF Locked, Moves, At
<1>12. ASSUME NEW t \in Tasks, RequestRestart(t) PROVE Good
    BY <1>12, RestartMoves DEF Locked, RequestRestart, At
<1>13. CASE Boot
    BY <1>13, BootMoves DEF Locked, Boot, At
<1> QED
    BY <1>1, <1>2, <1>3, <1>4, <1>5, <1>6, <1>7, <1>8, <1>9, <1>10, <1>11, <1>12, <1>13
       DEF Next, Save, Reset, Restart, PowerCut

LEMMA ApartStep == ASSUME Typed, Apart, Next PROVE Apart'
<1> USE IdleJob DEF At, history
<1> DEFINE Good == Apart'
<1> SUFFICES Good
    OBVIOUS
<1>1. CASE handleSaveWifi
  <2>1. crossed' \/ task[App].pc = "idle"
    BY <1>1, Zenon DEF handleSaveWifi
  <2> QED
    BY <1>1, <2>1, SaveBegins DEF Apart
<1>2. CASE Choose
    BY <1>2, ChooseMoves DEF Choose, Moves, Apart, Saving
<1>3. CASE SetPassword
    BY <1>3, GotoMoves DEF SetPassword, Moves, Apart, Saving, Places, SavePlaces
<1>4. CASE PersistPassword
    BY <1>4, GotoMoves DEF PersistPassword, Moves, Apart, Saving, Places, SavePlaces
<1>5. CASE Keep
    BY <1>5, KeepMoves DEF Keep, Apart, Saving
<1>6. CASE StoreSettings
    BY <1>6, StoreMoves DEF StoreSettings, StoredAs, Moves, Apart, Saving
<1>7. CASE Saved
    BY <1>7, SavedMoves DEF Saved, Apart, Saving
<1>8. ASSUME NEW t \in Tasks, FactoryReset(t) PROVE Good
  <2>1. crossed => crossed'
    BY <1>8, Zenon DEF FactoryReset
  <2>2. t = App /\ Saving => crossed'
    BY <1>8, Zenon DEF FactoryReset
  <2>3. Moves(t, "clear settings")
    BY <1>8, ResetMoves
  <2> QED
    BY <2>1, <2>2, <2>3 DEF Moves, Apart, Saving
<1>9. ASSUME NEW t \in Tasks, ClearSettings(t) PROVE Good
  <2>1. task' = task \/ Moves(t, "clear guard")
    BY <1>9, ResetMoves
  <2> QED
    BY <1>9, <2>1 DEF ClearSettings, Moves, Apart, Saving
<1>10. ASSUME NEW t \in Tasks, ClearGuard(t) PROVE Good
    BY <1>10, ResetMoves DEF ClearGuard, Moves, Apart, Saving
<1>11. ASSUME NEW t \in Tasks, EraseGuard(t) PROVE Good
    BY <1>11, ResetMoves DEF EraseGuard, Moves, Apart, Saving
<1>12. ASSUME NEW t \in Tasks, RequestRestart(t) PROVE Good
    BY <1>12, RestartMoves DEF RequestRestart, Apart, Saving
<1>13. CASE Boot
    BY <1>13, BootMoves DEF Apart, Saving
<1> QED
    BY <1>1, <1>2, <1>3, <1>4, <1>5, <1>6, <1>7, <1>8, <1>9, <1>10, <1>11, <1>12, <1>13
       DEF Next, Save, Reset, Restart, PowerCut

(* A step that flash refused says so; one that did not, did its work. *)
LEMMA FlashRefuses ==
    /\ PersistPassword => (failed => failed') /\ (~ failed' => guardStored' /\ Goto(Httpd, "keep"))
    /\ \A t \in Tasks : ClearSettings(t) => (failed => failed')
    /\ \A t \in Tasks : EraseGuard(t) => (failed => failed') /\ (~ failed' => ~ guardStored')
<1>1. ASSUME PersistPassword
      PROVE  (failed => failed') /\ (~ failed' => guardStored' /\ Goto(Httpd, "keep"))
  <2>1. \/ guardStored' = TRUE /\ Goto(Httpd, "keep") /\ failed' = failed
        \/ failed' = TRUE
    BY <1>1, Zenon DEF PersistPassword
  <2> QED
    BY <2>1
<1>2. ASSUME NEW t \in Tasks PROVE ClearSettings(t) => (failed => failed')
    BY Zenon DEF ClearSettings
<1>3. ASSUME NEW t \in Tasks, EraseGuard(t) PROVE (failed => failed') /\ (~ failed' => ~ guardStored')
  <2>1. (guardStored' = FALSE /\ failed' = failed) \/ failed' = TRUE
    BY <1>3, Zenon DEF EraseGuard
  <2> QED
    BY <2>1
<1> QED
    BY <1>1, <1>2, <1>3

LEMMA GuardFirstStep == ASSUME Typed, Locked, Apart, GuardFirst, Next PROVE GuardFirst'
<1> USE IdleJob DEF At, history, guardVars
<1> DEFINE Good == GuardFirst'
<1> SUFFICES ASSUME ~ failed', ~ crossed' PROVE Good
    BY DEF GuardFirst
<1>1. CASE handleSaveWifi
  <2>1. ~ crossed /\ task[App].pc = "idle"
    BY <1>1, Zenon DEF handleSaveWifi
  <2> QED
    BY <1>1, <2>1, SaveBegins DEF GuardFirst, handleSaveWifi
<1>2. CASE Choose
  <2>1. guarded => guardStored
    BY <1>2 DEF Choose, Locked
  <2> QED
    BY <1>2, <2>1, ChooseMoves DEF Choose, Moves, GuardFirst
<1>3. CASE SetPassword
  <2>1. Moves(Httpd, "persist") /\ task[Httpd].pc = "setPassword" /\ ~ crossed /\ ~ failed /\ UNCHANGED <<nvs, guardStored>>
    BY <1>3, GotoMoves DEF SetPassword, Places, SavePlaces
  <2>2. task[App].pc = "idle"
    BY <2>1 DEF Apart, Saving
  <2> QED
    BY <2>1, <2>2 DEF Moves, GuardFirst
<1>4. CASE PersistPassword
  <2>1. Moves(Httpd, "keep") /\ guardStored' /\ task[Httpd].pc = "persist" /\ ~ crossed /\ ~ failed /\ nvs' = nvs
    BY <1>4, FlashRefuses, GotoMoves DEF PersistPassword, Places, SavePlaces
  <2>2. task[App].pc = "idle"
    BY <2>1 DEF Apart, Saving
  <2> QED
    BY <2>1, <2>2 DEF Moves, GuardFirst
<1>5. CASE Keep
    BY <1>5, KeepMoves DEF Keep, GuardFirst
<1>6. CASE StoreSettings
  <2>1. ~ failed /\ ~ crossed /\ UNCHANGED <<guarded, guardStored>> /\ task[Httpd].pc \in {"host", "ssid", "password"}
    BY <1>6 DEF StoreSettings
  <2>2. task[App].pc = "idle" /\ guardStored
    BY <2>1 DEF Apart, Saving, GuardFirst
  <2>3. Moves(Httpd, "ssid") \/ Moves(Httpd, "password") \/ Moves(Httpd, "saved") \/ Moves(Httpd, "idle")
    BY <1>6, StoreMoves DEF StoredAs
  <2> QED
    BY <2>1, <2>2, <2>3 DEF Moves, GuardFirst
<1>7. CASE Saved
    BY <1>7, SavedMoves DEF Saved, GuardFirst
<1>8. ASSUME NEW t \in Tasks, FactoryReset(t) PROVE Good
  <2>1. ~ crossed /\ ~ failed /\ UNCHANGED <<nvs, guarded, guardStored>>
    BY <1>8, Zenon DEF FactoryReset
  <2> QED
    BY <1>8, <2>1, ResetMoves DEF Moves, GuardFirst
<1>9. ASSUME NEW t \in Tasks, ClearSettings(t) PROVE Good
  <2>1. ~ crossed /\ ~ failed /\ UNCHANGED <<guarded, guardStored>>
    BY <1>9, FlashRefuses DEF ClearSettings
  <2>2. CASE nvs # EmptyNvs /\ (\E k \in Keys : nvs' = [nvs EXCEPT ![k] = Absent]) /\ UNCHANGED task
    <3>1. (nvs'["host"] # Absent => nvs["host"] # Absent) /\ (nvs'["ssid"] # Absent => nvs["ssid"] # Absent)
        BY <2>2 DEF Typed, Keys
    <3> QED
        BY <2>1, <2>2, <3>1 DEF GuardFirst
  <2>3. CASE nvs = EmptyNvs /\ Moves(t, "clear guard") /\ UNCHANGED nvs
    BY <2>1, <2>3 DEF GuardFirst, Moves
  <2> QED
    BY <1>9, <2>2, <2>3, ResetMoves
<1>10. ASSUME NEW t \in Tasks, ClearGuard(t) PROVE Good
    BY <1>10, ResetMoves DEF ClearGuard, Moves, GuardFirst
<1>11. ASSUME NEW t \in Tasks, EraseGuard(t) PROVE Good
  <2>1. ~ crossed /\ ~ failed /\ UNCHANGED <<nvs, guarded>> /\ task[t].pc = "erase guard" /\ Moves(t, "restart") /\ ~ guardStored'
    BY <1>11, FlashRefuses, ResetMoves DEF EraseGuard
  <2>2. nvs = EmptyNvs /\ ~ guarded
    BY <2>1 DEF GuardFirst, Locked
  <2>3. nvs["host"] = Absent
    BY <2>2 DEF EmptyNvs, Keys
  <2>4. task'[Httpd].pc \notin {"keep", "host", "ssid", "password", "saved"}
    <3>1. CASE t = Httpd
        BY <2>1, <3>1 DEF Moves
    <3>2. CASE t = App
        BY <2>1, <3>2 DEF Moves, Apart, Saving
    <3> QED
        BY <3>1, <3>2
  <2> QED
    BY <2>1, <2>2, <2>3, <2>4 DEF Moves, GuardFirst
<1>12. ASSUME NEW t \in Tasks, RequestRestart(t) PROVE Good
    BY <1>12, RestartMoves DEF RequestRestart, GuardFirst
<1>13. CASE Boot
    BY <1>13, BootMoves DEF Boot, GuardFirst
<1> QED
    BY <1>1, <1>2, <1>3, <1>4, <1>5, <1>6, <1>7, <1>8, <1>9, <1>10, <1>11, <1>12, <1>13
       DEF Next, Save, Reset, Restart, PowerCut

LEMMA ForgotStep == ASSUME Typed, Apart, GuardFirst, Forgot, Next PROVE Forgot'
<1> USE IdleJob DEF At, history, guardVars
<1> DEFINE Good == Forgot'
<1> SUFFICES Good
    OBVIOUS
<1>1. CASE handleSaveWifi
    BY <1>1 DEF handleSaveWifi, Forgot
<1>2. CASE Choose
    BY <1>2 DEF Choose, Forgot, Saving
<1>3. CASE SetPassword
    BY <1>3 DEF SetPassword, Forgot, Saving
<1>4. CASE PersistPassword
    BY <1>4 DEF PersistPassword, Forgot, Saving
<1>5. CASE Keep
    BY <1>5 DEF Keep, Forgot, Saving
<1>6. CASE StoreSettings
    BY <1>6 DEF StoreSettings, Forgot, Saving
<1>7. CASE Saved
    BY <1>7 DEF Saved, Forgot, Saving
<1>8. ASSUME NEW t \in Tasks, FactoryReset(t) PROVE Good
  <2>1. (crossed => crossed') /\ UNCHANGED <<forgotten, failed, nvs, guarded, guardStored>>
    BY <1>8, Zenon DEF FactoryReset
  <2> QED
    BY <1>8, <2>1, ResetMoves DEF Forgot, Moves, Saving
<1>9. ASSUME NEW t \in Tasks, ClearSettings(t) PROVE Good
  <2>1. UNCHANGED <<forgotten, crossed, guarded, guardStored>> /\ (failed => failed')
    BY <1>9, FlashRefuses DEF ClearSettings
  <2>2. nvs = EmptyNvs => nvs' = EmptyNvs
    BY <1>9, ResetMoves
  <2>3. UNCHANGED task \/ Moves(t, "clear guard")
    BY <1>9, ResetMoves
  <2>4. Saving' => Saving
    BY <2>3 DEF Moves, Saving
  <2> QED
    BY <2>1, <2>2, <2>4 DEF Forgot
<1>10. ASSUME NEW t \in Tasks, ClearGuard(t) PROVE Good
    BY <1>10, ResetMoves DEF ClearGuard, Moves, Forgot, Saving
<1>11. ASSUME NEW t \in Tasks, EraseGuard(t) PROVE Good
  <2>1. UNCHANGED <<forgotten, crossed, guarded, nvs>> /\ (failed => failed') /\ (failed' \/ ~ guardStored') /\ Moves(t, "restart")
    BY <1>11, FlashRefuses, ResetMoves DEF EraseGuard
  <2> QED
    BY <2>1 DEF Moves, Forgot, Saving
<1>12. ASSUME NEW t \in Tasks, RequestRestart(t) PROVE Good
  <2>1. task[t].pc = "restart" /\ UNCHANGED <<failed, crossed, guarded, guardStored, nvs>>
    BY <1>12 DEF RequestRestart
  <2>2. forgotten' => ~ Saving
    BY <1>12, Zenon DEF RequestRestart
  <2>3. Saving' => Saving
    BY <1>12, RestartMoves DEF Saving
  <2>4. ~ failed /\ ~ crossed => nvs = EmptyNvs /\ ~ guarded /\ ~ guardStored
    BY <2>1 DEF GuardFirst
  <2> QED
    BY <2>1, <2>2, <2>3, <2>4 DEF Forgot
<1>13. CASE Boot
    BY <1>13, BootMoves DEF Boot, Forgot, Saving
<1> QED
    BY <1>1, <1>2, <1>3, <1>4, <1>5, <1>6, <1>7, <1>8, <1>9, <1>10, <1>11, <1>12, <1>13
       DEF Next, Save, Reset, Restart, PowerCut

(* A save that nothing overlaps has both tasks to itself. *)
LEMMA Alone == ASSUME Apart, Saving, ~ crossed PROVE task[App].pc = "idle"
BY DEF Apart, At

LEMMA StoredStep == ASSUME Typed, Apart, Stored, Next PROVE Stored'
<1> USE IdleJob, ValuesAssumption DEF At, history, guardVars
<1> DEFINE Good == Stored'
<1> SUFFICES ASSUME ~ crossed' PROVE Good
    BY DEF Stored
<1>1. CASE handleSaveWifi
    BY <1>1, SaveBegins DEF Stored, handleSaveWifi
<1>2. CASE Choose
    BY <1>2, ChooseMoves DEF Choose, Moves, Stored
<1>3. CASE SetPassword
    BY <1>3, GotoMoves DEF SetPassword, Moves, Stored, Places, SavePlaces
<1>4. CASE PersistPassword
    BY <1>4, GotoMoves DEF PersistPassword, Moves, Stored, Places, SavePlaces
<1>5. CASE Keep
    BY <1>5, KeepMoves DEF Keep, Stored
<1>6. CASE StoreSettings
  <2>1. ~ crossed /\ answered' = answered /\ task[Httpd].pc # "idle"
    BY <1>6 DEF StoreSettings
  <2>2. answered' = NoAnswer
    BY <2>1 DEF Stored
  <2>3. CASE task[Httpd].pc = "host"
    BY <1>6, <2>1, <2>2, <2>3, StoreMoves DEF StoredAs, Moves, Stored, Typed, Keys
  <2>4. CASE task[Httpd].pc = "ssid"
    BY <1>6, <2>1, <2>2, <2>4, StoreMoves DEF StoredAs, Moves, Stored, Typed, Keys
  <2>5. CASE task[Httpd].pc = "password"
    BY <1>6, <2>1, <2>2, <2>5, StoreMoves DEF StoredAs, Moves, Stored, Typed, Keys
  <2> QED
    BY <1>6, <2>3, <2>4, <2>5, StoreMoves
<1>7. CASE Saved
  <2>1. /\ ~ crossed /\ task[Httpd].pc = "saved" /\ nvs' = nvs
        /\ answered' = [ssid |-> task[Httpd].ssid, password |-> IF task[Httpd].keep THEN Absent ELSE task[Httpd].password]
    BY <1>7 DEF Saved
  <2>2. task[App].pc = "idle" /\ task[Httpd].ssid \in Ssids
    BY <2>1, Alone DEF Saving, Typed
  <2>3. answered'.ssid = task[Httpd].ssid /\ (answered'.password # Absent => ~ task[Httpd].keep /\ answered'.password = task[Httpd].password)
    BY <2>1
  <2>4. /\ nvs["host"] # Absent /\ nvs["ssid"] = task[Httpd].ssid
        /\ ~ task[Httpd].keep => nvs["password"] = task[Httpd].password
    BY <2>1 DEF Stored
  <2> QED
    BY <1>7, <2>1, <2>2, <2>3, <2>4, SavedMoves DEF Stored
<1>8. ASSUME NEW t \in Tasks, FactoryReset(t) PROVE Good
  <2>1. ~ crossed /\ answered' = NoAnswer /\ nvs' = nvs
    BY <1>8, Zenon DEF FactoryReset
  <2> QED
    BY <1>8, <2>1, ResetMoves DEF Moves, Stored
<1>9. ASSUME NEW t \in Tasks, ClearSettings(t) PROVE Good
  <2>1. ~ crossed /\ answered' = answered /\ task[t].pc = "clear settings"
    BY <1>9 DEF ClearSettings
  <2>2. answered' = NoAnswer
    BY <2>1 DEF Stored
  <2>3. task[Httpd].pc \notin {"ssid", "password", "saved"}
    BY <2>1, Alone DEF Saving
  <2>4. task' = task \/ Moves(t, "clear guard")
    BY <1>9, ResetMoves
  <2> QED
    BY <2>1, <2>2, <2>3, <2>4 DEF Moves, Stored
<1>10. ASSUME NEW t \in Tasks, ClearGuard(t) PROVE Good
    BY <1>10, ResetMoves DEF ClearGuard, Moves, Stored
<1>11. ASSUME NEW t \in Tasks, EraseGuard(t) PROVE Good
    BY <1>11, ResetMoves DEF EraseGuard, Moves, Stored
<1>12. ASSUME NEW t \in Tasks, RequestRestart(t) PROVE Good
    BY <1>12, RestartMoves DEF RequestRestart, Stored
<1>13. CASE Boot
    BY <1>13, BootMoves DEF Boot, Stored
<1> QED
    BY <1>1, <1>2, <1>3, <1>4, <1>5, <1>6, <1>7, <1>8, <1>9, <1>10, <1>11, <1>12, <1>13
       DEF Next, Save, Reset, Restart, PowerCut

LEMMA BelongsStep == ASSUME Typed, Apart, Stored, Belongs, Next PROVE Belongs'
<1> USE IdleJob, ValuesAssumption DEF At, history, guardVars
<1> DEFINE Good == Belongs'
<1> SUFFICES Good
    OBVIOUS
<1>1. CASE handleSaveWifi
  <2>1. (crossed => crossed') /\ UNCHANGED <<nvs, halfSaved, entered>> /\ task[Httpd].pc = "idle"
    BY <1>1, Zenon DEF handleSaveWifi
  <2> QED
    BY <1>1, <2>1, SaveBegins DEF Belongs
<1>2. CASE Choose
    BY <1>2, ChooseMoves DEF Choose, Moves, Belongs
<1>3. CASE SetPassword
    BY <1>3, GotoMoves DEF SetPassword, Moves, Belongs, Places, SavePlaces
<1>4. CASE PersistPassword
  <2>1. Moves(Httpd, "keep") \/ Moves(Httpd, "idle")
    BY <1>4, GotoMoves DEF PersistPassword, Places, SavePlaces
  <2>2. UNCHANGED <<nvs, entered, crossed, halfSaved>> /\ task[Httpd].pc = "persist"
    BY <1>4 DEF PersistPassword
  <2> QED
    BY <2>1, <2>2 DEF Moves, Belongs
<1>5. CASE Keep
  <2>1. UNCHANGED <<nvs, halfSaved, crossed>> /\ task[Httpd].pc = "keep"
        /\ entered' = IF KeepPassword(Httpd) THEN entered ELSE entered \cup {<<task[Httpd].ssid, task[Httpd].password>>}
    BY <1>5 DEF Keep
  <2> QED
    BY <1>5, <2>1, KeepMoves DEF Belongs, KeepPassword
<1>6. CASE StoreSettings
  <2>1. UNCHANGED <<crossed, entered>> /\ task[Httpd].pc \in {"host", "ssid", "password"}
    BY <1>6 DEF StoreSettings
  <2>2. halfSaved /\ ~ halfSaved' => task[Httpd].pc = "password" /\ ~ task[Httpd].keep /\ task'[Httpd].pc = "saved"
    BY <1>6, Zenon DEF StoreSettings, PasswordDue
  <2>3. task[Httpd].pc \in {"ssid", "password"} /\ ~ task[Httpd].keep /\ task'[Httpd].pc = "idle" => halfSaved'
    BY <1>6 DEF StoreSettings, PasswordDue
  <2>4. CASE task[Httpd].pc = "host"
    <3>1. nvs'["ssid"] = nvs["ssid"] /\ nvs'["password"] = nvs["password"]
        BY <1>6, <2>4, StoreMoves DEF StoredAs, Typed, Keys
    <3> QED
        BY <1>6, <2>1, <2>2, <2>4, <3>1, StoreMoves DEF StoredAs, Moves, Belongs
  <2>5. CASE task[Httpd].pc = "ssid"
    <3>1. (nvs'["ssid"] = nvs["ssid"] \/ nvs'["ssid"] = task[Httpd].ssid) /\ nvs'["password"] = nvs["password"]
        BY <1>6, <2>5, StoreMoves DEF StoredAs, Typed, Keys
    <3>2. (Moves(Httpd, "password") /\ nvs'["ssid"] = task[Httpd].ssid) \/ Moves(Httpd, "idle")
        BY <1>6, <2>5, StoreMoves DEF StoredAs, Typed, Keys
    <3> QED
        BY <2>1, <2>2, <2>3, <2>5, <3>1, <3>2 DEF Moves, Belongs
  <2>6. CASE task[Httpd].pc = "password" /\ ~ task[Httpd].keep
    <3>1. nvs'["ssid"] = nvs["ssid"]
        BY <1>6, <2>6, StoreMoves DEF StoredAs, Typed, Keys
    <3>2. (Moves(Httpd, "saved") /\ nvs'["password"] = task[Httpd].password) \/ Moves(Httpd, "idle")
        BY <1>6, <2>6, StoreMoves DEF StoredAs, Typed, Keys
    <3>3. ~ crossed => nvs["ssid"] = task[Httpd].ssid
        BY <2>6 DEF Stored
    <3> QED
        BY <2>1, <2>2, <2>3, <2>6, <3>1, <3>2, <3>3 DEF Moves, Belongs
  <2>7. CASE task[Httpd].pc = "password" /\ task[Httpd].keep
    <3>1. Moves(Httpd, "saved") /\ nvs' = nvs
        BY <1>6, <2>7, StoreMoves
    <3> QED
        BY <2>1, <2>2, <2>7, <3>1 DEF Moves, Belongs
  <2> QED
    BY <2>1, <2>4, <2>5, <2>6, <2>7
<1>7. CASE Saved
    BY <1>7, SavedMoves DEF Saved, Belongs
<1>8. ASSUME NEW t \in Tasks, FactoryReset(t) PROVE Good
  <2>1. (crossed => crossed') /\ UNCHANGED <<nvs, halfSaved, entered>>
    BY <1>8, Zenon DEF FactoryReset
  <2>2. Moves(t, "clear settings") /\ task[t].pc = "idle"
    BY <1>8, ResetMoves
  <2> QED
    BY <2>1, <2>2 DEF Moves, Belongs
<1>9. ASSUME NEW t \in Tasks, ClearSettings(t) PROVE Good
  <2>1. UNCHANGED <<crossed, halfSaved, entered>> /\ task[t].pc = "clear settings"
    BY <1>9 DEF ClearSettings
  <2>2. ~ crossed => task[Httpd].pc \notin {"host", "ssid", "password", "saved"}
    BY <2>1, Alone DEF Saving
  <2>3. task' = task \/ Moves(t, "clear guard")
    BY <1>9, ResetMoves
  <2>4. (nvs'["ssid"] = nvs["ssid"] \/ nvs'["ssid"] = Absent) /\ (nvs'["password"] = nvs["password"] \/ nvs'["password"] = Absent)
    BY <1>9, ResetMoves DEF Typed, Keys
  <2> QED
    BY <2>1, <2>2, <2>3, <2>4 DEF Moves, Belongs
<1>10. ASSUME NEW t \in Tasks, ClearGuard(t) PROVE Good
    BY <1>10, ResetMoves DEF ClearGuard, Moves, Belongs
<1>11. ASSUME NEW t \in Tasks, EraseGuard(t) PROVE Good
    BY <1>11, ResetMoves DEF EraseGuard, Moves, Belongs
<1>12. ASSUME NEW t \in Tasks, RequestRestart(t) PROVE Good
    BY <1>12, RestartMoves DEF RequestRestart, Belongs
<1>13. CASE Boot
  <2>1. UNCHANGED <<nvs, entered, crossed>> /\ (halfSaved => halfSaved')
    BY <1>13, Zenon DEF Boot
  <2>2. task[Httpd].pc = "password" /\ ~ task[Httpd].keep => halfSaved'
    BY <1>13 DEF Boot, PasswordDue
  <2> QED
    BY <1>13, <2>1, <2>2, BootMoves DEF Belongs
<1> QED
    BY <1>1, <1>2, <1>3, <1>4, <1>5, <1>6, <1>7, <1>8, <1>9, <1>10, <1>11, <1>12, <1>13
       DEF Next, Save, Reset, Restart, PowerCut

LEMMA SettingsInitial == Init => SettingsInv
<1> SUFFICES ASSUME Init PROVE SettingsInv
    OBVIOUS
<1> USE IdleJob DEF Init, At
<1>1. Typed
    BY DEF Typed, EmptyNvs, Saving, SavePlaces
<1>2. Locked /\ Apart
    BY DEF Locked, Apart, Saving
<1>3. nvs["host"] = Absent /\ nvs["ssid"] = Absent /\ answered = NoAnswer
    BY DEF EmptyNvs, Keys
<1>4. GuardFirst /\ Forgot
    BY <1>3 DEF GuardFirst, Forgot
<1>5. Stored /\ Belongs
    BY <1>3 DEF Stored, Belongs
<1> QED
    BY <1>1, <1>2, <1>4, <1>5 DEF SettingsInv

LEMMA SettingsStep == SettingsInv /\ [Next]_vars => SettingsInv'
<1> SUFFICES ASSUME SettingsInv, [Next]_vars PROVE SettingsInv'
    OBVIOUS
<1>1. CASE Next
    BY <1>1, TypedStep, LockedStep, ApartStep, GuardFirstStep, ForgotStep, StoredStep, BelongsStep DEF SettingsInv
<1>2. CASE UNCHANGED vars
    BY <1>2 DEF vars, guardVars, history, SettingsInv, Typed, Locked, Apart, GuardFirst, Forgot, Stored, Belongs,
       Saving, At
<1> QED
    BY <1>1, <1>2

LEMMA SettingsSafe == SettingsInv => ConfiguredIsGuarded /\ AnswersAreTrue /\ KeptPasswordBelongs
<1> SUFFICES ASSUME SettingsInv PROVE ConfiguredIsGuarded /\ AnswersAreTrue /\ KeptPasswordBelongs
    OBVIOUS
<1> USE DEF SettingsInv
<1>1. ConfiguredIsGuarded
    BY DEF GuardFirst, ConfiguredIsGuarded
<1>2. AnsweredIsStored
    BY DEF Stored, AnsweredIsStored
<1>3. ResetForgets
    BY DEF Forgot, ResetForgets
<1>4. KeptPasswordBelongs
    BY IdleJob DEF Stored, Belongs, KeptPasswordBelongs, At
<1> QED
    BY <1>1, <1>2, <1>3, <1>4 DEF AnswersAreTrue

LEMMA SettingsAlways == Spec => []SettingsInv
BY SettingsInitial, SettingsStep, PTL DEF Spec

(* ConfiguredIsGuarded: wherever the power or a restart cuts a save or a   *)
(* reset short, a device with a network to join has its password in flash, *)
(* unless flash refused a step or a reset of the application overlapped.   *)
THEOREM LanNeedsPassword == Spec => []ConfiguredIsGuarded
BY SettingsAlways, SettingsSafe, PTL

(* AnswersAreTrue: a save answered "saved" is what the next begin() reads, *)
(* unless the application reset the device in the middle of it, and a      *)
(* reset that ended left neither settings nor password behind, unless so,  *)
(* or flash refused a part of it.                                          *)
THEOREM AnswersHold == Spec => []AnswersAreTrue
BY SettingsAlways, SettingsSafe, PTL

(* KeptPasswordBelongs: no save leaves a network with the WiFi password of *)
(* another, blank passwords included, unless an earlier save broke off     *)
(* between the two or a reset of the application crossed the save.         *)
THEOREM PasswordIsOfItsNetwork == Spec => []KeptPasswordBelongs
BY SettingsAlways, SettingsSafe, PTL
=============================================================================
