------------------------- MODULE AccessGuardProofs -------------------------
(***************************************************************************)
(* Theorems about AccessGuard, for every value of its constants.           *)
(***************************************************************************)
EXTENDS AccessGuard, TLAPS

Zeroed(x) == x = 0 \/ x = Absent
Above(x, n) == Zeroed(x) \/ x > n

(* The mutex is held by exactly the task that writes flash, and only the   *)
(* server task runs the two operations that replace one token.             *)
LockInv ==
    /\ \A t \in Tasks : task[t].pc \in {"persist", "erase"} <=> lock = t
    /\ task[App].pc \notin {"rotate", "regen"}

(* RAM and flash, while a task writes one into the other. *)
WriteInv ==
    /\ lock # Free => dirty
    /\ \A t \in Tasks :
          /\ task[t].pc = "persist" =>
                \A i \in 1..4 : i < task[t].step => nvs[PersistOrder[i]] = ram[PersistOrder[i]]
          /\ task[t].pc = "erase" => ~hasPassword /\ ram = ZeroRam

(* Without a password at most one token is in RAM: the handlers that draw  *)
(* one were let in when there was a password, and there is one such        *)
(* handler at a time.                                                      *)
TokenInv ==
    /\ hasPassword => ram.session # 0 /\ ram.apiKey # 0
    /\ ~hasPassword => ram.session = 0 \/ ram.apiKey = 0
    /\ ~hasPassword /\ task[Httpd].pc \in {"rotate", "regen"} => ram.session = 0 /\ ram.apiKey = 0

(* The same after a clear, for RAM and flash together. *)
ClearedInv ==
    cleared =>
        /\ ~hasPassword
        /\ \/ ram.session = 0 /\ Zeroed(nvs["session"])
           \/ ram.apiKey = 0 /\ Zeroed(nvs["apiKey"])
        /\ task[Httpd].pc \in {"rotate", "regen"} =>
              Zeroed(nvs["session"]) /\ Zeroed(nvs["apiKey"])

Inv == LockInv /\ WriteInv /\ TokenInv /\ ClearedInv /\ SettledSurvivesReboot
IInv == TypeOK /\ Inv

-----------------------------------------------------------------------------
(* Type correctness. *)

(* A secret drawn stays drawn: the types only grow. *)
LEMMA TypesGrow ==
    ASSUME fresh \in Nat, fresh' = fresh + 1
    PROVE  /\ Secret \subseteq Secret'
           /\ Hash \subseteq Hash'
           /\ SecretRam \subseteq SecretRam'
           /\ TaskState \subseteq TaskState'
<1>1. Secret \subseteq Secret'
  BY DEF Secret
<1>2. Hash \subseteq Hash'
  BY <1>1 DEF Hash
<1>3. SecretRam \subseteq SecretRam'
  BY <1>1, <1>2 DEF SecretRam
<1>4. TaskState \subseteq TaskState'
  BY <1>1, <1>2 DEF TaskState
<1> QED
  BY <1>1, <1>2, <1>3, <1>4

LEMMA IdleType ==
    ASSUME fresh \in Nat
    PROVE  Idle \in TaskState /\ ZeroRam \in SecretRam /\ 0 \in Secret /\ ZeroHash \in Hash
BY DEF Idle, TaskState, ZeroRam, SecretRam, Secret, Hash, ZeroHash, Derive, Ops, Places, Presented

LEMMA InitType == Init => TypeOK
<1> SUFFICES ASSUME Init PROVE TypeOK
  OBVIOUS
<1>1. fresh \in Nat /\ fresh \in 0..MaxSecret /\ now \in 0..MaxTime /\ boots \in 0..MaxBoots
  BY BoundsAssumption DEF Init
<1>2. nvs = [k \in Keys |-> nvs[k]] /\ \A k \in Keys : nvs[k] = Absent
  BY DEF Init, EmptyNvs
<1>3. task \in [Tasks -> TaskState] /\ ram \in SecretRam
  BY <1>1, IdleType DEF Init
<1>4. failures \in 0..FREE_ATTEMPTS /\ lastFailure \in 0..now /\ floor \in 0..fresh /\ admitted \in 0..now
  BY BoundsAssumption DEF Init
<1>5. /\ \A k \in {"salt", "session", "apiKey"} : nvs[k] \in Secret \cup {Absent}
      /\ nvs["hash"] \in Hash \cup {Absent}
  BY <1>2 DEF Keys
<1> QED
  BY <1>1, <1>2, <1>3, <1>4, <1>5 DEF Init, TypeOK

LEMMA RequestType == TypeOK /\ Request => TypeOK'
<1> SUFFICES ASSUME TypeOK, Request PROVE TypeOK'
  OBVIOUS
<1>1. PICK t \in Tasks, op \in Ops, pc \in Places, p \in Presented, q \in Presented :
        Begin(t, op, pc, p, q)
  BY DEF Request, handleLogin, handleLogout, handleChangePassword, handleRegenerateApiKey,
         handleSaveWifi, appSetPassword, appCheckPassword, appClear, Tasks, Ops, Places, Presented
<1>2. task' \in [Tasks -> TaskState]
  <2>1. Idle \in TaskState
    BY IdleType DEF TypeOK
  <2>2. [Idle EXCEPT !.op = op, !.pc = pc, !.pw = p, !.next = q] \in TaskState
    BY <2>1 DEF TaskState
  <2> QED
    BY <1>1, <2>2 DEF TypeOK, Begin
<1> QED
  BY <1>1, <1>2 DEF TypeOK, Begin, guardVars, history, Secret, Hash, SecretRam, TaskState

(* A step that moves only its own task along keeps the types. *)
LEMMA TaskStepType ==
    ASSUME TypeOK, NEW t \in Tasks, NEW s \in TaskState
    PROVE  [task EXCEPT ![t] = s] \in [Tasks -> TaskState]
BY DEF TypeOK

LEMMA MoveType ==
    ASSUME TypeOK, NEW t \in Tasks
    PROVE  /\ Finish(t) => task' \in [Tasks -> TaskState]
           /\ \A pc \in Places : Goto(t, pc) => task' \in [Tasks -> TaskState]
<1>1. Idle \in TaskState
  BY IdleType DEF TypeOK
<1>2. \A pc \in Places : [task[t] EXCEPT !.pc = pc] \in TaskState
  BY DEF TypeOK, TaskState
<1> QED
  BY <1>1, <1>2 DEF Finish, Goto, TypeOK

LEMMA CheckType ==
    ASSUME TypeOK, NEW t \in Tasks, Choose(t) \/ Gate(t) \/ Verify(t) \/ Token(t) \/ SetRefused(t)
    PROVE  TypeOK'
<1>1. task' \in [Tasks -> TaskState]
  <2>1. CASE Choose(t)
    BY <2>1, MoveType DEF Choose, Places
  <2>2. CASE Gate(t)
    <3>1. [task[t] EXCEPT !.pc = "derive", !.salt = ram.salt, !.expected = ram.hash] \in TaskState
      <4>1. task[t] \in TaskState /\ ram.salt \in Secret /\ ram.hash \in Hash /\ "derive" \in Places
        BY DEF TypeOK, SecretRam, Places
      <4> QED
        BY <4>1 DEF TaskState
    <3> QED
      BY <2>2, <3>1, MoveType DEF Gate, TypeOK
  <2>3. CASE Verify(t)
    BY <2>3, MoveType DEF Verify, AfterCheck, Places
  <2>4. CASE Token(t)
    BY <2>4, MoveType DEF Token
  <2>5. CASE SetRefused(t)
    BY <2>5, MoveType DEF SetRefused
  <2> QED
    BY <2>1, <2>2, <2>3, <2>4, <2>5
<1>2. failures' \in 0..FREE_ATTEMPTS
  BY BoundsAssumption DEF TypeOK, Choose, Gate, Verify, Token, SetRefused, guardVars
<1>3. lastFailure' \in 0..now' /\ admitted' \in 0..now' /\ now' \in 0..MaxTime
  BY BoundsAssumption DEF TypeOK, Choose, Gate, Verify, Token, SetRefused, guardVars, history
<1>4. floor' \in 0..fresh'
  <2>1. task[t].base \in 0..fresh
    BY DEF TypeOK, TaskState, Secret
  <2> QED
    BY <2>1 DEF TypeOK, Choose, Gate, Verify, Token, SetRefused, guardVars, history, Raised
<1>5. UNCHANGED <<hasPassword, ram, nvs, lock, fresh, boots, dirty, cleared>>
  BY DEF Choose, Gate, Verify, Token, SetRefused, guardVars, history
<1> QED
  BY <1>1, <1>2, <1>3, <1>4, <1>5 DEF TypeOK, Secret, Hash, SecretRam, TaskState

LEMMA EnterPersistType ==
    ASSUME TypeOK, NEW t \in Tasks, NEW newRam, newRam \in SecretRam', EnterPersist(t, newRam)
    PROVE  /\ task' \in [Tasks -> TaskState'] /\ ram' \in SecretRam'
           /\ fresh' \in 0..MaxSecret /\ floor \in 0..fresh'
           /\ lock' \in Tasks /\ dirty' \in BOOLEAN
           /\ \A k \in {"salt", "session", "apiKey"} : nvs[k] \in Secret' \cup {Absent}
           /\ nvs["hash"] \in Hash' \cup {Absent}
<1>1. fresh \in Nat /\ fresh' = fresh + 1
  BY DEF TypeOK, EnterPersist
<1>2. [task[t] EXCEPT !.pc = "persist", !.step = 1, !.base = fresh] \in TaskState
  <2>1. task[t] \in TaskState /\ fresh \in Secret /\ "persist" \in Places /\ 1 \in 1..5
    BY <1>1 DEF TypeOK, Places, Secret
  <2> DEFINE steps == 1..5
  <2>2. TaskState = [op : Ops, pc : Places, pw : Presented, next : Presented,
                     salt : Secret, expected : Hash, base : Secret, step : steps]
    BY DEF TaskState
  <2>3. 1 \in steps
    BY <2>1
  <2> HIDE DEF steps
  <2> QED
    BY <2>1, <2>2, <2>3
<1>3. task' \in [Tasks -> TaskState']
  BY <1>1, <1>2, TypesGrow DEF TypeOK, EnterPersist
<1> QED
  BY <1>1, <1>3, TypesGrow, BoundsAssumption DEF TypeOK, EnterPersist

LEMMA DrawType ==
    ASSUME TypeOK, NEW t \in Tasks, SetPassword(t) \/ rotateSession(t) \/ regenerateApiKey(t)
    PROVE  TypeOK'
<1>1. fresh \in Nat /\ fresh' = fresh + 1
  BY DEF TypeOK, SetPassword, rotateSession, regenerateApiKey, EnterPersist
<1>2. ram \in SecretRam' /\ fresh + 1 \in Secret'
  BY <1>1, TypesGrow DEF TypeOK, Secret
<1>3. PICK newRam \in SecretRam' : EnterPersist(t, newRam)
  <2>1. CASE SetPassword(t)
    <3>1. Derive(task[t].next, fresh + 1) \in Hash'
      BY <1>2, <2>1 DEF SetPassword, Derive, Hash
    <3>2. (IF ~hasPassword \/ ram.apiKey = 0 THEN fresh + 1 ELSE ram.apiKey) \in Secret'
      BY <1>2 DEF SecretRam
    <3> QED
      BY <1>2, <2>1, <3>1, <3>2 DEF SetPassword, SecretRam
  <2>2. CASE rotateSession(t)
    <3>1. [ram EXCEPT !.session = fresh + 1] \in SecretRam'
      BY <1>2 DEF SecretRam
    <3> QED
      BY <2>2, <3>1 DEF rotateSession
  <2>3. CASE regenerateApiKey(t)
    <3>1. [ram EXCEPT !.apiKey = fresh + 1] \in SecretRam'
      BY <1>2 DEF SecretRam
    <3> QED
      BY <2>3, <3>1 DEF regenerateApiKey
  <2> QED
    BY <2>1, <2>2, <2>3
<1>4. UNCHANGED <<lastFailure, nvs, now, boots, floor, admitted>>
  BY DEF SetPassword, rotateSession, regenerateApiKey
<1>5. hasPassword' \in BOOLEAN /\ failures' \in 0..FREE_ATTEMPTS /\ cleared' \in BOOLEAN
  <2>1. CASE SetPassword(t)
    <3>1. hasPassword' \in BOOLEAN /\ cleared' \in BOOLEAN
      BY <2>1 DEF SetPassword
    <3>2. failures' \in 0..FREE_ATTEMPTS
      BY <2>1, BoundsAssumption DEF SetPassword
    <3> QED
      BY <3>1, <3>2
  <2>2. CASE rotateSession(t)
    BY <2>2 DEF rotateSession, TypeOK
  <2>3. CASE regenerateApiKey(t)
    BY <2>3 DEF regenerateApiKey, TypeOK
  <2> QED
    BY <2>1, <2>2, <2>3
<1> QED
  BY <1>3, <1>4, <1>5, EnterPersistType DEF TypeOK

LEMMA WriteType ==
    ASSUME TypeOK, NEW t \in Tasks,
           \/ PersistKey(t) \/ PersistCommit(t) \/ PersistFails(t)
           \/ clear(t) \/ EraseKey(t) \/ EraseDone(t) \/ EraseFails(t)
    PROVE  TypeOK'
<1> DEFINE Guards == UNCHANGED <<lastFailure, fresh, now, boots, admitted>>
<1>0. Guards
  BY DEF PersistKey, PersistCommit, PersistFails, clear, EraseKey, EraseDone, EraseFails,
         guardVars, history
<1>1. task' \in [Tasks -> TaskState]
  <2>1. CASE PersistKey(t)
    <3>1. [task[t] EXCEPT !.step = task[t].step + 1] \in TaskState
      <4> DEFINE rest == [op : Ops, pc : Places, pw : Presented, next : Presented,
                          salt : Secret, expected : Hash, base : Secret, step : 1..5]
      <4>1. task[t] \in rest /\ task[t].step + 1 \in 1..5
        BY <2>1 DEF PersistKey, TypeOK, TaskState
      <4> QED
        BY <4>1 DEF TaskState
    <3> QED
      BY <2>1, <3>1 DEF PersistKey, TypeOK
  <2>2. CASE PersistCommit(t) \/ PersistFails(t)
    BY <2>2, MoveType DEF PersistCommit, PersistFails, AfterPersist, Places
  <2>3. CASE clear(t)
    BY <2>3, MoveType DEF clear, Places
  <2>4. CASE EraseKey(t)
    BY <2>4 DEF EraseKey, TypeOK
  <2>5. CASE EraseDone(t) \/ EraseFails(t)
    BY <2>5, MoveType DEF EraseDone, EraseFails
  <2> QED
    BY <2>1, <2>2, <2>3, <2>4, <2>5
<1>2. /\ nvs' = [k \in Keys |-> nvs'[k]]
      /\ \A k \in {"salt", "session", "apiKey"} : nvs'[k] \in Secret \cup {Absent}
      /\ nvs'["hash"] \in Hash \cup {Absent}
  <2>1. CASE PersistKey(t)
    <3>1. task[t].step \in 1..4
      BY <2>1 DEF PersistKey, TypeOK, TaskState
    <3>2. PICK k \in Keys : k = PersistOrder[task[t].step] /\ nvs' = [nvs EXCEPT ![k] = ram[k]]
      <4>1. PersistOrder[task[t].step] \in Keys
        <5>1. task[t].step \in {1, 2, 3, 4}
          BY <3>1
        <5> QED
          BY <5>1 DEF PersistOrder, Keys
      <4> QED
        BY <2>1, <4>1 DEF PersistKey
    <3>3. /\ ram["salt"] \in Secret /\ ram["session"] \in Secret
          /\ ram["apiKey"] \in Secret /\ ram["hash"] \in Hash
      BY DEF TypeOK, SecretRam
    <3> QED
      BY <3>2, <3>3 DEF TypeOK, Keys
  <2>2. CASE EraseKey(t)
    BY <2>2 DEF EraseKey, TypeOK, Keys
  <2>3. CASE UNCHANGED nvs
    BY <2>3 DEF TypeOK
  <2> QED
    BY <2>1, <2>2, <2>3
    DEF PersistCommit, PersistFails, clear, EraseDone, EraseFails
<1>3. ram' \in SecretRam /\ failures' \in 0..FREE_ATTEMPTS
  <2>1. CASE clear(t)
    <3>1. ZeroRam \in SecretRam
      BY IdleType DEF TypeOK
    <3> QED
      BY <2>1, <3>1, BoundsAssumption DEF clear
  <2>2. CASE UNCHANGED <<ram, failures>>
    BY <2>2 DEF TypeOK
  <2> QED
    BY <2>1, <2>2
    DEF PersistKey, PersistCommit, PersistFails, EraseKey, EraseDone, EraseFails, guardVars
<1>4. floor' \in 0..fresh
  <2>1. task[t].base \in 0..fresh
    BY DEF TypeOK, TaskState, Secret
  <2> QED
    BY <2>1
    DEF TypeOK, PersistKey, PersistCommit, PersistFails, clear, EraseKey, EraseDone, EraseFails,
        history, AfterPersist, Raised
<1>5. lock' \in Tasks \cup {Free}
  BY DEF TypeOK, PersistKey, PersistCommit, PersistFails, clear, EraseKey, EraseDone, EraseFails,
         AfterPersist
<1>6. hasPassword' \in BOOLEAN
  BY DEF TypeOK, PersistKey, PersistCommit, PersistFails, clear, EraseKey, EraseDone, EraseFails, guardVars
<1>7. dirty' \in BOOLEAN /\ cleared' \in BOOLEAN
  BY DEF TypeOK, PersistKey, PersistCommit, PersistFails, clear, EraseKey, EraseDone, EraseFails, history
<1> QED
  BY <1>0, <1>1, <1>2, <1>3, <1>4, <1>5, <1>6, <1>7 DEF TypeOK, Secret, Hash, SecretRam, TaskState

LEMMA LoadedType ==
    ASSUME TypeOK
    PROVE  LoadedRam \in SecretRam /\ StoredPassword \in BOOLEAN
<1>1. 0 \in Secret /\ ZeroHash \in Hash
  BY IdleType DEF TypeOK
<1>2. /\ (IF BlobStored("salt") THEN nvs["salt"] ELSE 0) \in Secret
      /\ (IF BlobStored("salt") /\ BlobStored("hash") THEN nvs["hash"] ELSE ZeroHash) \in Hash
      /\ (IF BlobStored("salt") /\ BlobStored("hash") /\ TokenStored("session")
          THEN nvs["session"] ELSE 0) \in Secret
      /\ (IF StoredPassword THEN nvs["apiKey"] ELSE 0) \in Secret
  BY <1>1 DEF TypeOK, BlobStored, TokenStored, StoredPassword
<1> QED
  BY <1>2 DEF LoadedRam, SecretRam, StoredPassword

LEMMA RebootType == TypeOK /\ Reboot => TypeOK'
<1> SUFFICES ASSUME TypeOK, Reboot PROVE TypeOK'
  OBVIOUS
<1>1. hasPassword' \in BOOLEAN /\ ram' \in SecretRam
  BY LoadedType DEF Reboot
<1>2. task' \in [Tasks -> TaskState]
  BY IdleType DEF Reboot, TypeOK
<1>3. boots' \in 0..MaxBoots /\ now' \in 0..MaxTime /\ failures' \in 0..FREE_ATTEMPTS
  BY BoundsAssumption DEF Reboot, TypeOK
<1>4. lastFailure' \in 0..now' /\ admitted' \in 0..now'
  BY DEF Reboot
<1>5. dirty' \in BOOLEAN /\ lock' = Free /\ UNCHANGED <<nvs, fresh, cleared, floor>>
  BY DEF Reboot
<1> QED
  BY <1>1, <1>2, <1>3, <1>4, <1>5 DEF TypeOK, Secret, Hash, SecretRam, TaskState

LEMMA TickType == TypeOK /\ Tick => TypeOK'
BY BoundsAssumption DEF TypeOK, Tick, guardVars, history, Secret, Hash, SecretRam, TaskState

LEMMA NextType == TypeOK /\ [Next]_vars => TypeOK'
<1> SUFFICES ASSUME TypeOK, [Next]_vars PROVE TypeOK'
  OBVIOUS
<1>1. CASE UNCHANGED vars
  BY <1>1 DEF vars, guardVars, history, TypeOK, Secret, Hash, SecretRam, TaskState
<1>2. CASE \E t \in Tasks : Step(t)
  BY <1>2, CheckType, DrawType, WriteType DEF Step
<1> QED
  BY <1>1, <1>2, RequestType, RebootType, TickType DEF Next

(* Every variable keeps its type, whatever the constants. *)
THEOREM TypeCorrect == Spec => []TypeOK
<1> QED
  BY InitType, NextType, PTL DEF Spec

-----------------------------------------------------------------------------
(* The inductive invariant. *)

LEMMA InitInv == Init => Inv
<1> SUFFICES ASSUME Init PROVE Inv
  OBVIOUS
<1>1. \A t \in Tasks : task[t].pc = "idle"
  BY DEF Init, Idle
<1>2. LockInv
  BY <1>1 DEF Init, LockInv, Free, Tasks, Httpd, App
<1>3. WriteInv /\ TokenInv /\ ClearedInv
  BY <1>1 DEF Init, WriteInv, TokenInv, ClearedInv, ZeroRam, Free, Tasks, Httpd
<1>4. SettledSurvivesReboot
  BY DEF Init, SettledSurvivesReboot, Stored, Live, Credential, StoredPassword, BlobStored,
         EmptyNvs, Keys
<1> QED
  BY <1>2, <1>3, <1>4 DEF Inv

(* A step that moves one task on, outside the critical sections that       *)
(* write, and leaves RAM and flash alone.                                  *)
LEMMA QuietStep ==
    ASSUME IInv, NEW t \in Tasks, NEW s \in TaskState,
           task' = [task EXCEPT ![t] = s],
           task[t].pc \notin {"persist", "erase"}, s.pc \notin {"persist", "erase"},
           s.pc \in {"rotate", "regen"} => t = Httpd /\ hasPassword,
           UNCHANGED <<hasPassword, ram, nvs, lock, dirty, cleared>>
    PROVE  Inv'
<1>1. \A u \in Tasks : task'[u] = IF u = t THEN s ELSE task[u]
  BY DEF IInv, TypeOK
<1>2. LockInv'
  BY <1>1 DEF IInv, Inv, LockInv, Tasks, Httpd, App
<1>3. WriteInv'
  BY <1>1 DEF IInv, Inv, WriteInv
<1>4. TokenInv' /\ ClearedInv'
  BY <1>1 DEF IInv, Inv, TokenInv, ClearedInv, Tasks, Zeroed
<1>5. SettledSurvivesReboot'
  BY DEF IInv, Inv, SettledSurvivesReboot, Stored, Live, Credential, StoredPassword, LoadedRam,
         BlobStored, TokenStored
<1> QED
  BY <1>2, <1>3, <1>4, <1>5 DEF Inv

LEMMA RequestInv == IInv /\ Request => Inv'
<1> SUFFICES ASSUME IInv, Request PROVE Inv'
  OBVIOUS
<1>1. PICK t \in Tasks, op \in Ops, pc \in Places, p \in Presented, q \in Presented :
        /\ Begin(t, op, pc, p, q)
        /\ pc \notin {"persist", "erase"}
        /\ pc \in {"rotate", "regen"} => t = Httpd /\ hasPassword
  BY DEF Request, handleLogin, handleLogout, handleChangePassword, handleRegenerateApiKey,
         handleSaveWifi, appSetPassword, appCheckPassword, appClear, Tasks, Ops, Places, Presented,
         Authorized, matchesSession, matchesApiKey
<1> DEFINE s == [Idle EXCEPT !.op = op, !.pc = pc, !.pw = p, !.next = q]
<1>2. s \in TaskState /\ s.pc = pc
  <2>1. Idle \in TaskState
    BY IdleType DEF IInv, TypeOK
  <2> QED
    BY <2>1 DEF TaskState
<1>3. task' = [task EXCEPT ![t] = s] /\ task[t].pc = "idle"
  BY <1>1 DEF Begin
<1> HIDE DEF s
<1> QED
  BY <1>1, <1>2, <1>3, QuietStep DEF Begin, guardVars, history

LEMMA CheckInv ==
    ASSUME IInv, NEW t \in Tasks, Choose(t) \/ Gate(t) \/ Verify(t) \/ Token(t) \/ SetRefused(t)
    PROVE  Inv'
<1>1. PICK s \in TaskState :
        task' = [task EXCEPT ![t] = s] /\ s.pc \in {"idle", "set", "derive", "token"}
  <2>1. Idle \in TaskState /\ Idle.pc = "idle"
    BY IdleType DEF IInv, TypeOK, Idle
  <2>2. task[t] \in TaskState
    BY DEF IInv, TypeOK
  <2>3. \A pc \in Places : [task[t] EXCEPT !.pc = pc] \in TaskState /\ [task[t] EXCEPT !.pc = pc].pc = pc
    BY <2>2 DEF TaskState
  <2>4. Finish(t) \/ Goto(t, "set") \/ Goto(t, "token") =>
           \E s \in TaskState : task' = [task EXCEPT ![t] = s] /\ s.pc \in {"idle", "set", "derive", "token"}
    BY <2>1, <2>3 DEF Finish, Goto, Places
  <2>5. CASE Gate(t)
    <3>1. CASE Finish(t)
      BY <2>4, <3>1
    <3>2. CASE task' = [task EXCEPT ![t].pc = "derive", ![t].salt = ram.salt, ![t].expected = ram.hash]
      <4> DEFINE s == [task[t] EXCEPT !.pc = "derive", !.salt = ram.salt, !.expected = ram.hash]
      <4>1. ram.salt \in Secret /\ ram.hash \in Hash /\ "derive" \in Places
        BY DEF IInv, TypeOK, SecretRam, Places
      <4>2. s \in TaskState /\ s.pc = "derive"
        BY <2>2, <4>1 DEF TaskState
      <4>3. task' = [task EXCEPT ![t] = s]
        BY <3>2
      <4> QED
        BY <4>2, <4>3
    <3> QED
      BY <2>5, <3>1, <3>2 DEF Gate
  <2>6. CASE Choose(t) \/ Verify(t) \/ Token(t) \/ SetRefused(t)
    BY <2>4, <2>6 DEF Choose, Verify, Token, SetRefused, AfterCheck
  <2> QED
    BY <2>5, <2>6
<1>2. task[t].pc \notin {"persist", "erase"}
  BY DEF Choose, Gate, Verify, Token, SetRefused, At
<1>3. UNCHANGED <<hasPassword, ram, nvs, lock, dirty, cleared>>
  BY DEF Choose, Gate, Verify, Token, SetRefused, guardVars, history
<1> QED
  BY <1>1, <1>2, <1>3, QuietStep

(* Entering the critical section of setPassword, rotateSession or          *)
(* regenerateApiKey: the task now holds the mutex, flash is untouched.     *)
LEMMA DrawInv ==
    ASSUME IInv, NEW t \in Tasks, SetPassword(t) \/ rotateSession(t) \/ regenerateApiKey(t)
    PROVE  Inv'
<1>1. /\ lock = Free /\ lock' = t /\ dirty' = TRUE /\ fresh \in Nat
      /\ task' = [task EXCEPT ![t].pc = "persist", ![t].step = 1, ![t].base = fresh]
      /\ UNCHANGED nvs
  BY DEF SetPassword, rotateSession, regenerateApiKey, EnterPersist, IInv, TypeOK
<1>2. /\ \A u \in Tasks : u # t => task'[u] = task[u]
      /\ task'[t].pc = "persist" /\ task'[t].step = 1
  BY <1>1 DEF IInv, TypeOK, TaskState
<1>3. \A u \in Tasks : task[u].pc \notin {"persist", "erase"}
  BY <1>1 DEF IInv, Inv, LockInv, Free, Tasks, Httpd, App
<1>4. LockInv'
  BY <1>1, <1>2, <1>3 DEF IInv, Inv, LockInv, Free, Tasks, Httpd, App
<1>5. WriteInv'
  <2>1. \A u \in Tasks : task'[u].pc # "erase" /\ (task'[u].pc = "persist" => task'[u].step = 1)
    BY <1>2, <1>3
  <2>2. \A i \in 1..4 : ~(i < 1)
    OBVIOUS
  <2> QED
    BY <1>1, <2>1, <2>2 DEF WriteInv
<1>6. SettledSurvivesReboot'
  BY <1>1 DEF SettledSurvivesReboot
<1>7. TokenInv' /\ ClearedInv'
  <2>1. CASE SetPassword(t)
    <3>1. hasPassword' = TRUE /\ cleared' = FALSE /\ ram'.session = fresh + 1
      BY <2>1 DEF SetPassword, EnterPersist
    <3>2. ram'.apiKey = IF ~hasPassword \/ ram.apiKey = 0 THEN fresh + 1 ELSE ram.apiKey
      BY <2>1 DEF SetPassword, EnterPersist
    <3> QED
      BY <1>1, <3>1, <3>2 DEF TokenInv, ClearedInv
  <2>2. CASE rotateSession(t) \/ regenerateApiKey(t)
    <3>1. t = Httpd /\ task[t].pc \in {"rotate", "regen"} /\ task'[Httpd].pc = "persist"
      BY <1>2, <2>2 DEF rotateSession, regenerateApiKey, At, IInv, Inv, LockInv, Tasks
    <3>2. \/ ram'.session = fresh + 1 /\ ram'.apiKey = ram.apiKey
          \/ ram'.session = ram.session /\ ram'.apiKey = fresh + 1
      BY <2>2 DEF rotateSession, regenerateApiKey, EnterPersist, IInv, TypeOK, SecretRam
    <3>3. UNCHANGED <<hasPassword, cleared>>
      BY <2>2 DEF rotateSession, regenerateApiKey
    <3> QED
      BY <1>1, <3>1, <3>2, <3>3 DEF IInv, Inv, TokenInv, ClearedInv, Zeroed
  <2> QED
    BY <2>1, <2>2
<1> QED
  BY <1>4, <1>5, <1>6, <1>7 DEF Inv

LEMMA PersistKeyInv ==
    ASSUME IInv, NEW t \in Tasks, PersistKey(t)
    PROVE  Inv'
<1>1. /\ lock = t /\ task[t].pc = "persist" /\ task[t].step \in 1..4
      /\ task' = [task EXCEPT ![t].step = @ + 1]
      /\ UNCHANGED <<hasPassword, ram, lock, dirty, cleared>>
  BY DEF PersistKey, At, IInv, TypeOK, TaskState, guardVars, history
<1>2. \A u \in Tasks : task'[u].pc = task[u].pc /\ (u # t => task'[u] = task[u])
  BY <1>1 DEF IInv, TypeOK, TaskState
<1>3. task'[t].step = task[t].step + 1
  BY <1>1 DEF IInv, TypeOK, TaskState
<1>4. LockInv'
  BY <1>1, <1>2 DEF IInv, Inv, LockInv, Tasks
<1>5. PICK k \in Keys : k = PersistOrder[task[t].step] /\ nvs' = [nvs EXCEPT ![k] = ram[k]]
  <2>1. task[t].step \in {1, 2, 3, 4}
    BY <1>1
  <2>2. PersistOrder[task[t].step] \in Keys
    BY <2>1 DEF PersistOrder, Keys
  <2> QED
    BY <2>2 DEF PersistKey
<1>6. \A j \in Keys : nvs'[j] = IF j = k THEN ram[k] ELSE nvs[j]
  BY <1>5 DEF IInv, TypeOK
<1>7. WriteInv'
  <2>1. lock' # Free => dirty'
    BY <1>1 DEF IInv, Inv, WriteInv
  <2>2. \A u \in Tasks : task'[u].pc = "erase" => ~hasPassword' /\ ram' = ZeroRam
    BY <1>1, <1>2 DEF IInv, Inv, WriteInv
  <2>3. ASSUME NEW u \in Tasks, task'[u].pc = "persist", NEW i \in 1..4, i < task'[u].step
        PROVE  nvs'[PersistOrder[i]] = ram'[PersistOrder[i]]
    <3>1. u = t
      BY <1>1, <1>2, <2>3 DEF IInv, Inv, LockInv
    <3>2. PersistOrder[i] \in Keys
      <4>1. i \in {1, 2, 3, 4}
        OBVIOUS
      <4> QED
        BY <4>1 DEF PersistOrder, Keys
    <3>3. CASE i = task[t].step
      BY <1>1, <1>5, <1>6, <3>2, <3>3
    <3>4. CASE i < task[t].step
      <4>1. nvs[PersistOrder[i]] = ram[PersistOrder[i]]
        BY <1>1, <3>4 DEF IInv, Inv, WriteInv
      <4> QED
        BY <1>1, <1>6, <3>2, <4>1
    <3> QED
      BY <1>1, <1>3, <2>3, <3>1, <3>3, <3>4
  <2> QED
    BY <2>1, <2>2, <2>3 DEF WriteInv
<1>8. TokenInv'
  BY <1>1, <1>2 DEF IInv, Inv, TokenInv, Tasks
<1>9. ClearedInv'
  <2>1. nvs'["session"] \in {nvs["session"], ram.session} /\ nvs'["apiKey"] \in {nvs["apiKey"], ram.apiKey}
    BY <1>6 DEF Keys
  <2>2. task[Httpd].pc \in {"rotate", "regen"} /\ ~hasPassword => ram.session = 0 /\ ram.apiKey = 0
    BY DEF IInv, Inv, TokenInv
  <2>3. task'[Httpd].pc = task[Httpd].pc
    BY <1>2 DEF Tasks
  <2> QED
    BY <1>1, <2>1, <2>2, <2>3 DEF IInv, Inv, ClearedInv, Zeroed
<1>10. SettledSurvivesReboot'
  BY <1>1 DEF IInv, Inv, WriteInv, SettledSurvivesReboot, Free, Tasks, Httpd, App
<1> QED
  BY <1>4, <1>7, <1>8, <1>9, <1>10 DEF Inv

(* At the commit the four entries are RAM's four fields, so what a restart *)
(* would load is what the guard answers with.                              *)
LEMMA CommitSettles ==
    ASSUME IInv, NEW t \in Tasks, PersistCommit(t)
    PROVE  Stored = Live
<1>1. \A i \in 1..4 : nvs[PersistOrder[i]] = ram[PersistOrder[i]]
  BY DEF PersistCommit, At, IInv, Inv, WriteInv
<1>2. /\ nvs["salt"] = ram.salt /\ nvs["hash"] = ram.hash
      /\ nvs["session"] = ram.session /\ nvs["apiKey"] = ram.apiKey
  <2>1. PersistOrder[1] = "salt" /\ PersistOrder[2] = "hash" /\ PersistOrder[3] = "session"
        /\ PersistOrder[4] = "apiKey"
    BY DEF PersistOrder
  <2>2. 1 \in 1..4 /\ 2 \in 1..4 /\ 3 \in 1..4 /\ 4 \in 1..4
    OBVIOUS
  <2> QED
    BY <1>1, <2>1, <2>2
<1>3. ram.salt # Absent /\ ram.hash # Absent /\ ram.session # Absent /\ ram.apiKey # Absent
  <2>1. ram.salt \in Nat /\ ram.session \in Nat /\ ram.apiKey \in Nat
    BY DEF IInv, TypeOK, SecretRam, Secret
  <2>2. ram.hash \in [pw : Passwords \cup {NoPassword}, salt : Nat]
    BY DEF IInv, TypeOK, SecretRam, Hash, Secret
  <2> QED
    BY <2>1, <2>2, ValuesAssumption
<1>4. StoredPassword <=> hasPassword
  BY <1>2, <1>3 DEF IInv, Inv, TokenInv, StoredPassword, BlobStored, TokenStored
<1>5. CASE ~hasPassword
  BY <1>4, <1>5 DEF Stored, Live, Credential
<1>6. CASE hasPassword
  <2>1. LoadedRam = [salt |-> ram.salt, hash |-> ram.hash, session |-> ram.session, apiKey |-> ram.apiKey]
    BY <1>2, <1>4, <1>6 DEF LoadedRam, StoredPassword
  <2>2. ram = [salt |-> ram.salt, hash |-> ram.hash, session |-> ram.session, apiKey |-> ram.apiKey]
    BY DEF IInv, TypeOK, SecretRam
  <2> QED
    BY <1>4, <1>6, <2>1, <2>2 DEF Stored, Live, Credential
<1> QED
  BY <1>5, <1>6

LEMMA PersistEndInv ==
    ASSUME IInv, NEW t \in Tasks, PersistCommit(t) \/ PersistFails(t)
    PROVE  Inv'
<1>1. /\ lock = t /\ lock' = Free /\ task[t].pc = "persist"
      /\ UNCHANGED <<hasPassword, ram, nvs, cleared>>
  BY DEF PersistCommit, PersistFails, AfterPersist, At, guardVars
<1>2. /\ \A u \in Tasks : u # t => task'[u] = task[u]
      /\ \A u \in Tasks : task'[u].pc \notin {"persist", "erase"}
      /\ task'[t].pc \notin {"rotate", "regen"}
  <2>1. \A u \in Tasks : u # t => task[u].pc \notin {"persist", "erase"}
    BY <1>1 DEF IInv, Inv, LockInv
  <2>2. task' = [task EXCEPT ![t] = Idle] \/ task' = [task EXCEPT ![t].pc = "token"]
    BY DEF PersistCommit, PersistFails, AfterPersist, Finish, Goto
  <2> QED
    BY <2>1, <2>2 DEF IInv, TypeOK, TaskState, Idle
<1>3. LockInv'
  BY <1>1, <1>2 DEF IInv, Inv, LockInv, Free, Tasks, Httpd, App
<1>8. WriteInv'
  BY <1>1, <1>2 DEF WriteInv
<1>4. TokenInv' /\ ClearedInv'
  <2>1. task'[Httpd].pc \in {"rotate", "regen"} => task[Httpd].pc \in {"rotate", "regen"}
    BY <1>2 DEF Tasks
  <2>2. TokenInv'
    BY <1>1, <2>1 DEF IInv, Inv, TokenInv
  <2> QED
    BY <1>1, <2>1, <2>2 DEF IInv, Inv, ClearedInv, Zeroed
<1>5. Stored' = Stored /\ Live' = Live
  BY <1>1 DEF Stored, Live, Credential, StoredPassword, LoadedRam, BlobStored, TokenStored
<1>6. SettledSurvivesReboot'
  <2>1. CASE PersistCommit(t)
    BY <1>5, <2>1, CommitSettles DEF SettledSurvivesReboot
  <2>2. CASE PersistFails(t)
    BY <1>1, <1>5, <2>2 DEF PersistFails, SettledSurvivesReboot, IInv, Inv
  <2> QED
    BY <2>1, <2>2
<1> QED
  BY <1>3, <1>4, <1>6, <1>8 DEF Inv

LEMMA ClearInv ==
    ASSUME IInv, NEW t \in Tasks, clear(t) \/ EraseKey(t) \/ EraseDone(t) \/ EraseFails(t)
    PROVE  Inv'
<1>1. CASE clear(t)
  <2>1. /\ hasPassword' = FALSE /\ ram' = ZeroRam /\ dirty' = TRUE /\ lock = Free /\ lock' = t
        /\ task' = [task EXCEPT ![t].pc = "erase"] /\ UNCHANGED <<nvs, cleared>> /\ task[t].pc = "clear"
    BY <1>1 DEF clear, Goto, At
  <2>2. \A u \in Tasks : IF u = t THEN task'[u].pc = "erase"
                          ELSE task'[u] = task[u] /\ task[u].pc \notin {"persist", "erase"}
    BY <2>1 DEF IInv, TypeOK, TaskState, Inv, LockInv, Free, Tasks, Httpd, App
  <2>3. LockInv' /\ WriteInv'
    BY <2>1, <2>2 DEF IInv, Inv, LockInv, WriteInv, Free, Tasks, Httpd, App
  <2>4. TokenInv' /\ ClearedInv'
    BY <2>1, <2>2 DEF IInv, Inv, TokenInv, ClearedInv, ZeroRam, Zeroed, Tasks
  <2> QED
    BY <2>1, <2>3, <2>4 DEF Inv, SettledSurvivesReboot
<1>2. CASE EraseKey(t)
  <2>1. /\ lock = t /\ task[t].pc = "erase"
        /\ UNCHANGED <<hasPassword, ram, lock, task, dirty, cleared>>
    BY <1>2 DEF EraseKey, At, guardVars, history
  <2>2. \A j \in Keys : nvs'[j] = nvs[j] \/ nvs'[j] = Absent
    BY <1>2 DEF EraseKey, IInv, TypeOK
  <2>3. \A u \in Tasks : task[u].pc # "persist"
    BY <2>1 DEF IInv, Inv, LockInv
  <2>4. LockInv' /\ WriteInv'
    BY <2>1, <2>3 DEF IInv, Inv, LockInv, WriteInv
  <2>5. TokenInv' /\ ClearedInv'
    BY <2>1, <2>2 DEF IInv, Inv, TokenInv, ClearedInv, Zeroed, Keys
  <2>6. dirty' = TRUE
    BY <2>1 DEF IInv, Inv, WriteInv, TypeOK, Free, Tasks, Httpd, App
  <2> QED
    BY <2>4, <2>5, <2>6 DEF Inv, SettledSurvivesReboot
<1>3. CASE EraseDone(t) \/ EraseFails(t)
  <2>1. /\ lock = t /\ lock' = Free /\ task[t].pc = "erase" /\ task' = [task EXCEPT ![t] = Idle]
        /\ UNCHANGED <<hasPassword, ram, nvs>>
    BY <1>3 DEF EraseDone, EraseFails, At, Finish, guardVars
  <2>2. ~hasPassword /\ ram.session = 0 /\ ram.apiKey = 0
    BY <2>1 DEF IInv, Inv, WriteInv, ZeroRam
  <2>3. /\ \A u \in Tasks : u # t => task'[u] = task[u]
        /\ \A u \in Tasks : task'[u].pc \notin {"persist", "erase"}
        /\ task'[t].pc = "idle"
    BY <2>1 DEF IInv, TypeOK, Idle, Inv, LockInv
  <2>4. LockInv' /\ WriteInv' /\ TokenInv'
    BY <2>1, <2>2, <2>3 DEF IInv, Inv, LockInv, WriteInv, TokenInv, Free, Tasks, Httpd, App
  <2>5. ClearedInv' /\ SettledSurvivesReboot'
    <3>1. CASE EraseDone(t)
      <4>1. \A k \in Keys : nvs[k] = Absent
        BY <3>1 DEF EraseDone, EmptyNvs
      <4>2. ~StoredPassword'
        BY <2>1, <4>1 DEF StoredPassword, BlobStored, Keys
      <4> QED
        BY <2>1, <2>2, <4>1, <4>2
        DEF ClearedInv, Zeroed, Keys, SettledSurvivesReboot, Stored, Live, Credential
    <3>2. CASE EraseFails(t)
      <4>1. UNCHANGED <<dirty, cleared>>
        BY <3>2 DEF EraseFails, history
      <4>2. Stored' = Stored /\ Live' = Live
        BY <2>1 DEF Stored, Live, Credential, StoredPassword, LoadedRam, BlobStored, TokenStored
      <4>3. task'[Httpd].pc \in {"rotate", "regen"} => task[Httpd].pc \in {"rotate", "regen"}
        BY <2>3 DEF Tasks
      <4>4. ClearedInv'
        BY <2>1, <4>1, <4>3 DEF IInv, Inv, ClearedInv, Zeroed
      <4> QED
        BY <4>1, <4>2, <4>4 DEF IInv, Inv, SettledSurvivesReboot
    <3> QED
      BY <1>3, <3>1, <3>2
  <2> QED
    BY <2>4, <2>5 DEF Inv
<1> QED
  BY <1>1, <1>2, <1>3

LEMMA RebootInv == IInv /\ Reboot => Inv'
<1> SUFFICES ASSUME IInv, Reboot PROVE Inv'
  OBVIOUS
<1>1. /\ hasPassword' = StoredPassword /\ ram' = LoadedRam /\ lock' = Free
      /\ UNCHANGED <<nvs, cleared>> /\ \A t \in Tasks : task'[t].pc = "idle"
  BY DEF Reboot, Idle
<1>2. LockInv' /\ WriteInv'
  BY <1>1 DEF LockInv, WriteInv, Free, Tasks, Httpd, App
<1>3. /\ ram'.session = IF BlobStored("salt") /\ BlobStored("hash") /\ TokenStored("session")
                        THEN nvs["session"] ELSE 0
      /\ ram'.apiKey = IF StoredPassword THEN nvs["apiKey"] ELSE 0
  BY <1>1 DEF LoadedRam
<1>4. TokenInv' /\ ClearedInv'
  BY <1>1, <1>3 DEF IInv, Inv, TokenInv, ClearedInv, Zeroed, StoredPassword, TokenStored, BlobStored, Tasks
<1>5. SettledSurvivesReboot'
  <2>1. StoredPassword' = StoredPassword /\ LoadedRam' = LoadedRam
    BY <1>1 DEF StoredPassword, LoadedRam, BlobStored, TokenStored
  <2> QED
    BY <1>1, <2>1 DEF SettledSurvivesReboot, Stored, Live, Credential
<1> QED
  BY <1>2, <1>4, <1>5 DEF Inv

LEMMA FrameInv ==
    ASSUME IInv, UNCHANGED <<hasPassword, ram, nvs, lock, task, dirty, cleared>>
    PROVE  Inv'
BY DEF IInv, Inv, LockInv, WriteInv, TokenInv, ClearedInv, SettledSurvivesReboot, Stored, Live,
       Credential, StoredPassword, LoadedRam, BlobStored, TokenStored

LEMMA NextInv == IInv /\ [Next]_vars => IInv'
<1> SUFFICES ASSUME IInv, [Next]_vars PROVE IInv'
  OBVIOUS
<1>1. TypeOK'
  BY NextType DEF IInv
<1>2. CASE \E t \in Tasks : Step(t)
  BY <1>1, <1>2, CheckInv, DrawInv, PersistKeyInv, PersistEndInv, ClearInv DEF Step, IInv
<1>3. CASE Tick \/ UNCHANGED vars
  BY <1>1, <1>3, FrameInv DEF Tick, vars, guardVars, history, IInv
<1> QED
  BY <1>1, <1>2, <1>3, RequestInv, RebootInv DEF Next, IInv

THEOREM Invariant == Spec => []IInv
<1>1. Init => IInv
  BY InitType, InitInv DEF IInv
<1> QED
  BY <1>1, NextInv, PTL DEF Spec

(* A cleared guard never comes up with a password again until one is set.  *)
THEOREM ClearedIsForGood == Spec => []ClearedStaysCleared
<1>1. IInv => ClearedStaysCleared
  BY DEF IInv, Inv, ClearedInv, ClearedStaysCleared, StoredPassword, TokenStored, Zeroed
<1> QED
  BY <1>1, Invariant, PTL

(* Once every change is written a restart is invisible. *)
THEOREM SettledIsDurable == Spec => []SettledSurvivesReboot
<1>1. IInv => SettledSurvivesReboot
  BY DEF IInv, Inv
<1> QED
  BY <1>1, Invariant, PTL

-----------------------------------------------------------------------------
(* Sessions reported as signed out, as long as writes do not fail. *)

(* A session in RAM or flash is one drawn after those reported as signed   *)
(* out; a handler about to report some is already past them.               *)
SessionInv ==
    /\ Above(ram.session, floor) /\ Above(nvs["session"], floor)
    /\ task[App].op \notin {"login", "logout", "change"}
    /\ task[Httpd].pc = "regen" => task[Httpd].op = "regenerate"
    /\ task[Httpd].op \in {"change", "logout"} /\ task[Httpd].pc \in {"persist", "token"} =>
          Above(ram.session, task[Httpd].base)
    /\ task[Httpd].op = "change" /\ task[Httpd].pc = "token" =>
          Above(nvs["session"], task[Httpd].base)

LEMMA InitSession == Init => SessionInv
BY DEF Init, SessionInv, Above, Zeroed, ZeroRam, EmptyNvs, Keys, Idle, Tasks, Httpd, App

LEMMA CheckSession ==
    ASSUME IInv, SessionInv, NEW t \in Tasks,
           Choose(t) \/ Gate(t) \/ Verify(t) \/ Token(t) \/ SetRefused(t)
    PROVE  SessionInv'
<1>1. UNCHANGED <<ram, nvs>> /\ \A u \in Tasks : u # t => task'[u] = task[u]
  BY DEF Choose, Gate, Verify, Token, SetRefused, guardVars, AfterCheck, Finish, Goto, IInv, TypeOK
<1>2. \/ task'[t] = Idle
      \/ task'[t].op = task[t].op /\ task'[t].pc \in {"set", "derive"}
      \/ task'[t].op = task[t].op /\ task[t].op = "login" /\ task'[t].pc = "token"
  BY DEF Choose, Gate, Verify, Token, SetRefused, AfterCheck, Finish, Goto, IInv, TypeOK, TaskState
<1>3. floor' = floor \/ (Token(t) /\ t = Httpd /\ task[t].op = "change" /\ task[t].pc = "token"
                         /\ floor' \in {floor, task[t].base})
  BY DEF Choose, Gate, Verify, Token, SetRefused, history, At, Raised, SessionInv, Tasks
<1>4. Above(ram.session, floor') /\ Above(nvs["session"], floor')
  BY <1>3 DEF SessionInv
<1> QED
  BY <1>1, <1>2, <1>4 DEF SessionInv, Idle, Tasks, Httpd, App

LEMMA RequestSession == IInv /\ SessionInv /\ Request => SessionInv'
<1> SUFFICES ASSUME IInv, SessionInv, Request PROVE SessionInv'
  OBVIOUS
<1>1. PICK t \in Tasks, op \in Ops, pc \in Places, p \in Presented, q \in Presented :
        /\ Begin(t, op, pc, p, q)
        /\ t = App => op \notin {"login", "logout", "change"}
        /\ pc = "regen" => op = "regenerate"
        /\ pc \notin {"persist", "token"}
  BY DEF Request, handleLogin, handleLogout, handleChangePassword, handleRegenerateApiKey,
         handleSaveWifi, appSetPassword, appCheckPassword, appClear, Tasks, Ops, Places, Presented,
         Httpd, App
<1>2. /\ task'[t].op = op /\ task'[t].pc = pc /\ \A u \in Tasks : u # t => task'[u] = task[u]
      /\ UNCHANGED <<ram, nvs, floor>>
  BY <1>1 DEF Begin, guardVars, history, IInv, TypeOK, Idle
<1> QED
  BY <1>1, <1>2 DEF SessionInv, Tasks

LEMMA DrawSession ==
    ASSUME IInv, SessionInv, NEW t \in Tasks,
           SetPassword(t) \/ rotateSession(t) \/ regenerateApiKey(t)
    PROVE  SessionInv'
<1>1. /\ fresh \in Nat /\ floor \in 0..fresh /\ UNCHANGED <<nvs, floor>>
      /\ \A u \in Tasks : task[u].base \in 0..fresh
  BY DEF SetPassword, rotateSession, regenerateApiKey, IInv, TypeOK, TaskState, Secret
<1>2. /\ \A u \in Tasks : u # t => task'[u] = task[u]
      /\ task'[t].op = task[t].op /\ task'[t].pc = "persist" /\ task'[t].base = fresh
  BY DEF SetPassword, rotateSession, regenerateApiKey, EnterPersist, IInv, TypeOK, TaskState
<1>3. CASE regenerateApiKey(t)
  <2>1. t = Httpd /\ task[t].op = "regenerate"
    <3>1. task[t].pc = "regen"
      BY <1>3 DEF regenerateApiKey, At
    <3>2. t = Httpd
      BY <3>1 DEF IInv, Inv, LockInv, Tasks
    <3> QED
      BY <3>1, <3>2 DEF SessionInv
  <2>2. ram'.session = ram.session
    BY <1>3 DEF regenerateApiKey, EnterPersist, IInv, TypeOK, SecretRam
  <2> QED
    BY <1>1, <1>2, <2>1, <2>2 DEF SessionInv, Httpd, App, Tasks
<1>4. CASE SetPassword(t) \/ rotateSession(t)
  <2>1. ram'.session = fresh + 1
    BY <1>4 DEF SetPassword, rotateSession, EnterPersist, IInv, TypeOK, SecretRam
  <2>2. \A n \in 0..fresh : Above(ram'.session, n)
    BY <1>1, <2>1 DEF Above
  <2>3. task'[Httpd].base \in 0..fresh
    BY <1>1, <1>2 DEF Tasks
  <2> QED
    BY <1>1, <1>2, <2>2, <2>3 DEF SessionInv, Tasks, Httpd, App
<1> QED
  BY <1>3, <1>4

LEMMA WriteSession ==
    ASSUME IInv, SessionInv, "flash" \notin Faults, NEW t \in Tasks,
           PersistKey(t) \/ PersistCommit(t) \/ PersistFails(t)
    PROVE  SessionInv'
<1>1. UNCHANGED ram /\ lock = t /\ task[t].pc = "persist" /\ \A u \in Tasks : u # t => task'[u] = task[u]
  BY DEF PersistKey, PersistCommit, PersistFails, AfterPersist, Finish, Goto, guardVars, At, IInv, TypeOK
<1>2. CASE PersistKey(t)
  <2>1. floor' = floor /\ task'[t].op = task[t].op /\ task'[t].base = task[t].base /\ task'[t].pc = "persist"
    BY <1>1, <1>2 DEF PersistKey, history, IInv, TypeOK, TaskState
  <2>2. nvs'["session"] \in {nvs["session"], ram.session}
    BY <1>2 DEF PersistKey, IInv, TypeOK, Keys
  <2> QED
    BY <1>1, <2>1, <2>2 DEF SessionInv, Tasks, Httpd, App
<1>3. CASE PersistCommit(t)
  <2>1. nvs["session"] = ram.session
    <3>1. 3 \in 1..4 /\ 3 < 5 /\ PersistOrder[3] = "session"
      BY DEF PersistOrder
    <3> QED
      BY <1>1, <1>3, <3>1 DEF PersistCommit, IInv, Inv, WriteInv
  <2>2. UNCHANGED nvs /\ floor' = IF task[t].op = "logout" THEN Raised(task[t].base) ELSE floor
    BY <1>3 DEF PersistCommit, AfterPersist
  <2>3. \/ task'[t] = Idle
        \/ task'[t].op = "change" /\ task[t].op = "change" /\ task'[t].base = task[t].base
           /\ task'[t].pc = "token"
    BY <1>3 DEF PersistCommit, AfterPersist, Finish, Goto, IInv, TypeOK, TaskState
  <2>4. Above(ram.session, floor')
    BY <1>1, <2>2 DEF SessionInv, Raised, Tasks
  <2> QED
    BY <1>1, <2>1, <2>2, <2>3, <2>4 DEF SessionInv, Tasks, Idle, Httpd, App
<1> QED
  BY <1>2, <1>3 DEF PersistFails

LEMMA ClearSession ==
    ASSUME IInv, SessionInv, NEW t \in Tasks,
           clear(t) \/ EraseKey(t) \/ EraseDone(t) \/ EraseFails(t)
    PROVE  SessionInv'
<1>1. /\ \A u \in Tasks : u # t => task'[u] = task[u]
      /\ task'[t] = Idle \/ (task'[t].op = task[t].op /\ task'[t].pc = "erase")
  BY DEF clear, EraseKey, EraseDone, EraseFails, Finish, Goto, At, IInv, TypeOK, TaskState
<1>2. ram'.session \in {0, ram.session} /\ nvs'["session"] \in {Absent, nvs["session"]}
  BY DEF clear, EraseKey, EraseDone, EraseFails, ZeroRam, guardVars, IInv, TypeOK, Keys
<1>3. Above(ram'.session, floor') /\ Above(nvs'["session"], floor')
  <2>1. CASE EraseDone(t)
    BY <2>1 DEF EraseDone, EmptyNvs, Keys, At, guardVars, IInv, Inv, WriteInv, ZeroRam, Above, Zeroed
  <2>2. CASE floor' = floor
    BY <1>2, <2>2 DEF SessionInv, Above, Zeroed
  <2> QED
    BY <2>1, <2>2 DEF clear, EraseKey, EraseFails, history
<1> QED
  BY <1>1, <1>2, <1>3 DEF SessionInv, Idle, Tasks, Httpd, App, Above, Zeroed

LEMMA RebootSession == IInv /\ SessionInv /\ Reboot => SessionInv'
<1> SUFFICES ASSUME IInv, SessionInv, Reboot PROVE SessionInv'
  OBVIOUS
<1>1. ram'.session \in {0, nvs["session"]} /\ UNCHANGED <<nvs, floor>>
  BY DEF Reboot, LoadedRam
<1>2. task'[App] = Idle /\ task'[Httpd] = Idle
  BY DEF Reboot, Tasks
<1> QED
  BY <1>1, <1>2 DEF SessionInv, Idle, Above, Zeroed

(* Without failing writes, a session that sign-out or a password change    *)
(* reported as gone is never accepted again, restarts included.            *)
THEOREM SignOutIsForGood ==
    ASSUME "flash" \notin Faults
    PROVE  Spec => []SignedOutStaysOut
<1>1. Init => SessionInv
  BY InitSession
<1>2. IInv /\ SessionInv /\ [Next]_vars => SessionInv'
  <2> SUFFICES ASSUME IInv, SessionInv, [Next]_vars PROVE SessionInv'
    OBVIOUS
  <2>1. CASE \E t \in Tasks : Step(t)
    BY <2>1, CheckSession, DrawSession, WriteSession, ClearSession DEF Step
  <2>2. CASE Tick \/ UNCHANGED vars
    BY <2>2 DEF Tick, vars, guardVars, history, SessionInv
  <2> QED
    BY <2>1, <2>2, RequestSession, RebootSession DEF Next
<1>3. IInv /\ SessionInv => SignedOutStaysOut
  <2> SUFFICES ASSUME IInv, SessionInv PROVE SignedOutStaysOut
    OBVIOUS
  <2>1. hasPassword => ram.session > floor
    <3>1. ram.session # Absent
      BY ValuesAssumption DEF IInv, TypeOK, SecretRam, Secret
    <3> QED
      BY <3>1 DEF IInv, Inv, TokenInv, SessionInv, Above, Zeroed
  <2>2. StoredPassword => nvs["session"] > floor
    BY DEF SessionInv, Above, Zeroed, StoredPassword, TokenStored
  <2> QED
    BY <2>1, <2>2 DEF SignedOutStaysOut
<1> QED
  BY <1>1, <1>2, <1>3, Invariant, PTL DEF Spec

-----------------------------------------------------------------------------
(* The lockout, when only the server task checks passwords. *)

(* A failure is recorded after the attempt it belongs to was let through. *)
LockoutInv ==
    /\ task[App].pc \notin {"gate", "derive", "token"}
    /\ task[App].op \notin {"login", "change"}
    /\ failures > 0 /\ task[Httpd].pc # "derive" => lastFailure >= admitted

LEMMA InitLockout == Init => LockoutInv
BY DEF Init, LockoutInv, Idle, Tasks, Httpd, App

LEMMA RequestLockout ==
    ASSUME IInv, LockoutInv, "check" \notin AppOps, Request
    PROVE  LockoutInv'
<1>1. PICK t \in Tasks, op \in Ops, pc \in Places, p \in Presented, q \in Presented :
        /\ Begin(t, op, pc, p, q)
        /\ t = App => pc \in {"set", "clear"} /\ op \in {"set", "clear"}
  BY DEF Request, handleLogin, handleLogout, handleChangePassword, handleRegenerateApiKey,
         handleSaveWifi, appSetPassword, appCheckPassword, appClear, Tasks, Ops, Places, Presented,
         Httpd, App
<1>2. /\ task'[t].op = op /\ task'[t].pc = pc /\ \A u \in Tasks : u # t => task'[u] = task[u]
      /\ task[t].pc = "idle" /\ UNCHANGED <<failures, lastFailure, admitted>>
  BY <1>1 DEF Begin, guardVars, history, IInv, TypeOK, Idle
<1> QED
  BY <1>1, <1>2 DEF LockoutInv, Tasks

LEMMA StepLockout ==
    ASSUME IInv, LockoutInv, NEW t \in Tasks, Step(t)
    PROVE  LockoutInv'
<1>1. \A u \in Tasks : u # t => task'[u] = task[u]
  BY DEF Step, Choose, Gate, Verify, Token, SetRefused, SetPassword, rotateSession, regenerateApiKey,
         EnterPersist, PersistKey, PersistCommit, PersistFails, AfterPersist, AfterCheck, clear,
         EraseKey, EraseDone, EraseFails, Finish, Goto, IInv, TypeOK
<1>2. now \in Nat /\ lastFailure \in 0..now /\ admitted \in 0..now /\ failures \in Nat
  BY BoundsAssumption DEF IInv, TypeOK
<1>3. CASE Gate(t)
  <2>1. t = Httpd
    BY <1>3 DEF Gate, At, LockoutInv, Tasks
  <2>2. UNCHANGED <<failures, lastFailure>>
    BY <1>3 DEF Gate, guardVars
  <2>3. task'[t].pc = "derive" \/ UNCHANGED admitted
    BY <1>3 DEF Gate, IInv, TypeOK, TaskState
  <2>4. task[t].pc # "derive"
    BY <1>3 DEF Gate, At
  <2> QED
    BY <1>1, <2>1, <2>2, <2>3, <2>4 DEF LockoutInv, Tasks, Httpd, App
<1>4. CASE Verify(t)
  <2>1. t = Httpd
    BY <1>4 DEF Verify, At, LockoutInv, Tasks
  <2>2. UNCHANGED admitted /\ (failures' = 0 \/ lastFailure' = now)
    BY <1>4 DEF Verify, history
  <2> QED
    BY <1>1, <1>2, <2>1, <2>2 DEF LockoutInv, Tasks, Httpd, App
<1>5. CASE ~Gate(t) /\ ~Verify(t)
  <2>1. UNCHANGED <<lastFailure, admitted>> /\ failures' \in {0, failures} /\ task[t].pc # "derive"
    BY <1>5 DEF Step, Choose, Token, SetRefused, SetPassword, rotateSession, regenerateApiKey,
         EnterPersist, PersistKey, PersistCommit, PersistFails, clear,
         EraseKey, EraseDone, EraseFails, guardVars, history, At
  <2>2. /\ task'[t] = Idle \/ task'[t].op = task[t].op
        /\ task'[t].pc = "token" => task[t].op = "change"
        /\ task'[t].pc \notin {"gate", "derive"}
    BY <1>5 DEF Step, Choose, Token, SetRefused, SetPassword, rotateSession, regenerateApiKey,
         EnterPersist, PersistKey, PersistCommit, PersistFails, AfterPersist, clear,
         EraseKey, EraseDone, EraseFails, Finish, Goto, At, IInv, TypeOK, TaskState, Idle
  <2> QED
    BY <1>1, <1>2, <2>1, <2>2 DEF LockoutInv, Tasks, Httpd, App, Idle
<1> QED
  BY <1>3, <1>4, <1>5

(* If the application does not check passwords itself, attempts made       *)
(* during the lockout are let through at least LOCKOUT apart.              *)
THEOREM LockoutHolds ==
    ASSUME "check" \notin AppOps
    PROVE  Spec => LockoutSpacing
<1> DEFINE Spaced == \A t \in Tasks :
              Gate(t) /\ task'[t].pc = "derive" /\ failures >= FREE_ATTEMPTS => now >= admitted + LOCKOUT
<1>1. Init => LockoutInv
  BY InitLockout
<1>2. IInv /\ LockoutInv /\ [Next]_vars => LockoutInv'
  <2> SUFFICES ASSUME IInv, LockoutInv, [Next]_vars PROVE LockoutInv'
    OBVIOUS
  <2>1. CASE Reboot
    BY <2>1 DEF Reboot, LockoutInv, Idle, Tasks, Httpd, App
  <2>2. CASE Tick \/ UNCHANGED vars
    BY <2>2 DEF Tick, vars, guardVars, history, LockoutInv
  <2> QED
    BY <2>1, <2>2, RequestLockout, StepLockout DEF Next
<1>3. IInv /\ LockoutInv => Spaced
  <2> SUFFICES ASSUME IInv, LockoutInv, NEW t \in Tasks,
                      Gate(t), task'[t].pc = "derive", failures >= FREE_ATTEMPTS
               PROVE  now >= admitted + LOCKOUT
    OBVIOUS
  <2>1. ~LockedOut
    BY DEF Gate, Finish, IInv, TypeOK, Idle
  <2>2. now >= lastFailure + LOCKOUT
    BY <2>1, BoundsAssumption DEF LockedOut, IInv, TypeOK
  <2>3. lastFailure >= admitted
    BY BoundsAssumption DEF Gate, At, LockoutInv, IInv, TypeOK, Tasks
  <2> QED
    BY <2>2, <2>3, BoundsAssumption DEF IInv, TypeOK
<1>4. IInv /\ LockoutInv /\ [Next]_vars => [Spaced]_vars
  BY <1>3
<1> QED
  BY <1>1, <1>2, <1>4, Invariant, PTL DEF Spec, LockoutSpacing

-----------------------------------------------------------------------------
(* The guard implements DurableCredential. *)

LiveOK == Live \in AnyRam \cup {NoPassword}

LEMMA LiveType == TypeOK => LiveOK
<1>1. SecretRam \subseteq AnyRam
  BY DEF SecretRam, AnyRam, Hash, Secret
<1> QED
  BY <1>1 DEF TypeOK, LiveOK, Live, Credential

LEMMA StepDurable ==
    ASSUME IInv, IInv', LiveOK', Next
    PROVE  Durable!Next \/ UNCHANGED Durable!vars
<1> USE DEF Durable!vars
<1>1. Live' \in AnyRam \cup {NoPassword}
  BY DEF LiveOK
<1>2. CASE dirty'
  BY <1>1, <1>2 DEF Durable!Change, Durable!Next
<1>3. CASE ~dirty' /\ dirty
  <2>1. Stored' = Live'
    BY <1>3 DEF IInv, Inv, SettledSurvivesReboot
  <2>2. Durable!Restart
    BY <1>1, <1>3, <2>1 DEF Durable!Restart
  <2> QED
    BY <2>2 DEF Durable!Next
<1>4. CASE ~dirty' /\ ~dirty
  <2>1. lock = Free
    BY <1>4 DEF IInv, Inv, WriteInv
  <2>2. CASE Reboot
    <3>1. StoredPassword' = StoredPassword /\ LoadedRam' = LoadedRam
      BY <2>2 DEF Reboot, StoredPassword, LoadedRam, BlobStored, TokenStored
    <3>2. Live' = Stored /\ Stored' = Stored
      BY <2>2, <3>1 DEF Reboot, Live, Stored, Credential
    <3> QED
      BY <1>4, <3>2 DEF IInv, Inv, SettledSurvivesReboot
  <2>3. CASE UNCHANGED <<hasPassword, ram, nvs>>
    <3>1. Live' = Live /\ Stored' = Stored
      BY <2>3 DEF Live, Stored, Credential, StoredPassword, LoadedRam, BlobStored, TokenStored
    <3> QED
      BY <1>4, <3>1
  <2>4. Reboot \/ UNCHANGED <<hasPassword, ram, nvs>>
    <3>1. CASE \E t \in Tasks : Step(t)
      BY <1>4, <2>1, <3>1
      DEF Step, Choose, Gate, Verify, Token, SetRefused, SetPassword, rotateSession,
          regenerateApiKey, EnterPersist, PersistKey, PersistCommit, PersistFails, clear,
          EraseKey, EraseDone, EraseFails, guardVars, Tasks, Free, Httpd, App
    <3>2. CASE Request \/ Tick
      BY <3>2 DEF Tick, Request, handleLogin, handleLogout, handleChangePassword,
          handleRegenerateApiKey, handleSaveWifi, appSetPassword, appCheckPassword, appClear, Begin,
          guardVars
    <3> QED
      BY <3>1, <3>2 DEF Next
  <2> QED
    BY <2>2, <2>3, <2>4
<1> QED
  BY <1>2, <1>3, <1>4 DEF IInv, TypeOK

(* A change takes effect at once, is settled when it is written, and a     *)
(* restart never alters what is settled.                                   *)
THEOREM GuardImplementsDurable == Spec => ImplementsDurableCredential
<1>1. Init => Durable!Init
  <2> SUFFICES ASSUME Init PROVE Durable!Init
    OBVIOUS
  <2>1. Live = NoPassword /\ Stored = NoPassword /\ ~dirty
    BY DEF Init, Live, Stored, Credential, StoredPassword, BlobStored, EmptyNvs, Keys
  <2> QED
    BY <2>1 DEF Durable!Init
<1>2. IInv /\ IInv' /\ LiveOK' /\ [Next]_vars => [Durable!Next]_(Durable!vars)
  <2>1. ASSUME UNCHANGED vars PROVE UNCHANGED Durable!vars
    BY <2>1 DEF vars, guardVars, history, Durable!vars, Live, Stored, Credential, StoredPassword,
         LoadedRam, BlobStored, TokenStored
  <2> QED
    BY <2>1, StepDurable
<1>3. IInv => LiveOK
  BY LiveType DEF IInv
<1> QED
  BY <1>1, <1>2, <1>3, Invariant, PTL DEF Spec, ImplementsDurableCredential, Durable!Spec

=============================================================================
