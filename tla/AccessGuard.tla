---------------------------- MODULE AccessGuard ----------------------------
(***************************************************************************)
(* The device password, the browser session and the API key: the class     *)
(* AccessGuardClass (src/AccessGuard.cpp, src/AccessGuardHttp.cpp), with   *)
(* the RAM copy its mutex guards, the four entries of the NVS namespace    *)
(* "pf_access" and the two callers that reach it at the same time: the     *)
(* server task (one request at a time) and the application's own task.     *)
(*                                                                         *)
(* A critical section that writes flash is split at every nvs call, since  *)
(* the power can go or the flash can refuse between two of them.  Secrets  *)
(* are numbered in the order they are drawn: 0 is the zeroed buffer (the   *)
(* empty string), and randomHex and esp_fill_random return a number that   *)
(* was never returned before.  PBKDF2 is the injective pairing of a        *)
(* password with its salt.                                                 *)
(***************************************************************************)
EXTENDS Naturals

CONSTANTS
    Passwords,      \* passwords of 8..64 bytes
    BadPassword,    \* any password outside those lengths
    NoPassword,     \* what the zeroed hash buffer is the hash of: nothing
    Absent,         \* the value of an NVS entry that is not stored
    AppOps,         \* the calls the application makes: {"set","check","clear"}
    Faults,         \* the calls that may fail: {"flash","hash"}
    FREE_ATTEMPTS,  \* wrong passwords in a row before the lockout
    LOCKOUT,        \* LOCKOUT_S, in ticks of the clock
    MaxSecret,      \* bound: secrets drawn
    MaxTime,        \* bound: ticks since a boot
    MaxBoots        \* bound: restarts

ASSUME BoundsAssumption ==
    /\ FREE_ATTEMPTS \in Nat \ {0}
    /\ LOCKOUT \in Nat \ {0}
    /\ MaxSecret \in Nat
    /\ MaxTime \in Nat
    /\ MaxBoots \in Nat
ASSUME ValuesAssumption ==
    /\ BadPassword \notin Passwords
    /\ NoPassword \notin Passwords \cup {BadPassword}
    /\ Absent \notin Nat \cup [pw : Passwords \cup {NoPassword}, salt : Nat]

VARIABLES
    hasPassword,    \* _hasPassword
    ram,            \* _salt, _hash, _session, _apiKey
    failures,       \* _failures, saturated at FREE_ATTEMPTS
    lastFailure,    \* _lastFailureUs
    nvs,            \* the entries of "pf_access"
    lock,           \* _mutex: the task inside a critical section that writes flash
    task,           \* what each task is doing: its handler, its place and its locals
    fresh,          \* secrets drawn so far
    now,            \* esp_timer_get_time(), from the last boot
    boots,          \* restarts so far
    dirty,          \* history: RAM changed since the last write that succeeded
    cleared,        \* history: cleared, and no password set since
    floor,          \* history: sessions up to this one were reported signed out
    admitted        \* history: when the lockout last let an attempt through

guardVars == <<hasPassword, ram, failures, lastFailure>>
history == <<dirty, cleared, floor, admitted>>
vars == <<guardVars, nvs, lock, task, fresh, now, boots, history>>

Httpd == "httpd"    \* the server task
App == "app"        \* the application's task
Tasks == {Httpd, App}
Free == "free"
Keys == {"salt", "hash", "session", "apiKey"}
PersistWithoutKey == <<"salt", "hash", "session", "session">>

(* The order persist() writes in. *)
PersistOrder == <<"salt", "hash", "session", "apiKey">>

(* derive: PBKDF2-HMAC-SHA256 over the password and its salt. *)
Derive(p, salt) == [pw |-> p, salt |-> salt]
ZeroHash == Derive(NoPassword, 0)
ZeroRam == [salt |-> 0, hash |-> ZeroHash, session |-> 0, apiKey |-> 0]
EmptyNvs == [k \in Keys |-> Absent]

Presented == Passwords \cup {BadPassword}
Idle == [op |-> "none", pc |-> "idle", pw |-> BadPassword, next |-> BadPassword,
         salt |-> 0, expected |-> ZeroHash, base |-> 0, step |-> 1]

(* readBlob, readToken: an entry counts only when it is stored whole.  The *)
(* zeroed salt and hash have their full length; an empty token does not.   *)
TokenStoredAnyLength(k) == nvs[k] # Absent

BlobStored(k) == nvs[k] # Absent
TokenStored(k) == nvs[k] # Absent /\ nvs[k] # 0
StoredPassword ==
    BlobStored("salt") /\ BlobStored("hash") /\ TokenStored("session") /\ TokenStored("apiKey")

LoadedRamUnchecked == [salt |-> nvs["salt"], hash |-> nvs["hash"], session |-> nvs["session"],
                       apiKey |-> nvs["apiKey"]]

(* begin: what the chain of reads leaves in RAM; it stops at the first entry missing. *)
LoadedRam ==
    LET upTo(ks) == \A k \in ks : IF k \in {"salt", "hash"} THEN BlobStored(k) ELSE TokenStored(k)
    IN  [salt    |-> IF upTo({"salt"}) THEN nvs["salt"] ELSE 0,
         hash    |-> IF upTo({"salt", "hash"}) THEN nvs["hash"] ELSE ZeroHash,
         session |-> IF upTo({"salt", "hash", "session"}) THEN nvs["session"] ELSE 0,
         apiKey  |-> IF StoredPassword THEN nvs["apiKey"] ELSE 0]

matchesSession(token) == hasPassword /\ token # 0 /\ token = ram.session
matchesApiKey(token) == hasPassword /\ token # 0 /\ token = ram.apiKey

(* isAuthorized: a request carries a session cookie or a bearer key; any   *)
(* secret ever drawn may be presented.                                     *)
Authorized ==
    \E token \in 0..fresh : matchesSession(token) \/ matchesApiKey(token)

Init ==
    /\ hasPassword = FALSE
    /\ ram = ZeroRam
    /\ failures = 0
    /\ lastFailure = 0
    /\ nvs = EmptyNvs
    /\ lock = Free
    /\ task = [t \in Tasks |-> Idle]
    /\ fresh = 0
    /\ now = 0
    /\ boots = 0
    /\ dirty = FALSE
    /\ cleared = FALSE
    /\ floor = 0
    /\ admitted = 0

-----------------------------------------------------------------------------
(* A handler or a call begins.  Refusals before the first change of state  *)
(* (cross-origin, unauthorised, unreadable body) change nothing.           *)

CanDraw == fresh + 2 <= MaxSecret   \* each task may draw once per call

Begin(t, op, pc, p, q) ==
    /\ task[t].pc = "idle"
    /\ task' = [task EXCEPT ![t] = [Idle EXCEPT !.op = op, !.pc = pc, !.pw = p, !.next = q]]
    /\ UNCHANGED <<guardVars, nvs, lock, fresh, now, boots, history>>

handleLogin == \E p \in Presented : Begin(Httpd, "login", "gate", p, BadPassword)

handleLogout ==
    CanDraw /\ lock = Free /\ Authorized /\ Begin(Httpd, "logout", "rotate", BadPassword, BadPassword)

handleChangePassword ==
    /\ CanDraw /\ lock = Free /\ Authorized
    /\ \E p, q \in Presented : Begin(Httpd, "change", "gate", p, q)

handleRegenerateApiKey ==
    CanDraw /\ lock = Free /\ Authorized /\ Begin(Httpd, "regenerate", "regen", BadPassword, BadPassword)

(* handleSaveWifi, as far as the device password goes: allowSetup, then after *)
(* the body is read, whether this save is the one that chooses the password.  *)
handleSaveWifi ==
    /\ CanDraw /\ lock = Free
    /\ ~hasPassword \/ Authorized
    /\ \E q \in Passwords : Begin(Httpd, "save", "choose", BadPassword, q)

appSetPassword ==
    "set" \in AppOps /\ CanDraw /\ \E q \in Presented : Begin(App, "set", "set", BadPassword, q)
appCheckPassword == "check" \in AppOps /\ \E p \in Presented : Begin(App, "check", "gate", p, BadPassword)
appClear == "clear" \in AppOps /\ Begin(App, "clear", "clear", BadPassword, BadPassword)

-----------------------------------------------------------------------------
(* The steps of a handler or call. *)

At(t, pc) == task[t].pc = pc
Raised(n) == IF n > floor THEN n ELSE floor
Finish(t) == task' = [task EXCEPT ![t] = Idle]
Goto(t, pc) == task' = [task EXCEPT ![t].pc = pc]

(* handleSaveWifi: choosingPassword = !Access.hasPassword(). *)
Choose(t) ==
    /\ At(t, "choose") /\ lock = Free
    /\ IF hasPassword THEN Finish(t) ELSE Goto(t, "set")
    /\ UNCHANGED <<guardVars, nvs, lock, fresh, now, boots, history>>

LockedOutNever == failures > FREE_ATTEMPTS /\ now < lastFailure + LOCKOUT

LockedOut == failures >= FREE_ATTEMPTS /\ now < lastFailure + LOCKOUT

(* checkPassword, first critical section: refused, or the salt and the     *)
(* hash are copied out for the slow derivation.                            *)
Gate(t) ==
    /\ At(t, "gate") /\ lock = Free
    /\ IF hasPassword /\ ~LockedOut
       THEN /\ task' = [task EXCEPT ![t].pc = "derive", ![t].salt = ram.salt,
                                    ![t].expected = ram.hash]
            /\ admitted' = IF failures >= FREE_ATTEMPTS THEN now ELSE admitted
       ELSE Finish(t) /\ UNCHANGED admitted
    /\ UNCHANGED <<guardVars, nvs, lock, fresh, now, boots, dirty, cleared, floor>>

(* What follows a right password: the login's answer, the change itself, or nothing. *)
AfterCheck(t) ==
    CASE task[t].op = "login"  -> Goto(t, "token")
      [] task[t].op = "change" -> Goto(t, "set")
      [] OTHER                 -> Finish(t)

(* checkPassword, second critical section: the copy decides, the counter is updated. *)
Verify(t) ==
    /\ At(t, "derive") /\ lock = Free
    /\ \/ /\ task[t].pw \in Passwords
          /\ Derive(task[t].pw, task[t].salt) = task[t].expected
          /\ failures' = 0
          /\ AfterCheck(t)
          /\ UNCHANGED lastFailure
       \/ /\ \/ Derive(task[t].pw, task[t].salt) # task[t].expected
             \/ "hash" \in Faults
          /\ failures' = IF failures < FREE_ATTEMPTS THEN failures + 1 ELSE failures
          /\ lastFailure' = now
          /\ Finish(t)
    /\ UNCHANGED <<hasPassword, ram, nvs, lock, fresh, now, boots, history>>

(* handleLogin, handleChangePassword: sessionToken() and the answer with the cookie. *)
Token(t) ==
    /\ At(t, "token") /\ lock = Free
    /\ Finish(t)
    /\ floor' = IF task[t].op = "change" THEN Raised(task[t].base) ELSE floor
    /\ UNCHANGED <<guardVars, nvs, lock, fresh, now, boots, dirty, cleared, admitted>>

(* setPassword refused: the length, or the hashing failed. *)
SetRefused(t) ==
    /\ At(t, "set")
    /\ task[t].next \notin Passwords \/ "hash" \in Faults
    /\ Finish(t)
    /\ UNCHANGED <<guardVars, nvs, lock, fresh, now, boots, history>>

(* The critical section begins: RAM changes, and persist() is next. *)
EnterPersist(t, newRam) ==
    /\ lock = Free /\ fresh < MaxSecret   \* never in the way: see CanDraw
    /\ fresh' = fresh + 1
    /\ ram' = newRam
    /\ lock' = t
    /\ dirty' = TRUE
    /\ task' = [task EXCEPT ![t].pc = "persist", ![t].step = 1, ![t].base = fresh]

SetPassword(t) ==
    /\ At(t, "set") /\ task[t].next \in Passwords
    /\ EnterPersist(t, [salt |-> fresh + 1, hash |-> Derive(task[t].next, fresh + 1),
                        session |-> fresh + 1,
                        apiKey |-> IF ~hasPassword \/ ram.apiKey = 0 THEN fresh + 1 ELSE ram.apiKey])
    /\ hasPassword' = TRUE
    /\ failures' = 0
    /\ cleared' = FALSE
    /\ UNCHANGED <<lastFailure, nvs, now, boots, floor, admitted>>

rotateSessionInVain(t) ==
    /\ At(t, "rotate")
    /\ EnterPersist(t, ram)
    /\ UNCHANGED <<hasPassword, failures, lastFailure, nvs, now, boots, cleared, floor, admitted>>

rotateSession(t) ==
    /\ At(t, "rotate")
    /\ EnterPersist(t, [ram EXCEPT !.session = fresh + 1])
    /\ UNCHANGED <<hasPassword, failures, lastFailure, nvs, now, boots, cleared, floor, admitted>>

regenerateApiKey(t) ==
    /\ At(t, "regen")
    /\ EnterPersist(t, [ram EXCEPT !.apiKey = fresh + 1])
    /\ UNCHANGED <<hasPassword, failures, lastFailure, nvs, now, boots, cleared, floor, admitted>>

(* persist, one nvs_set. *)
PersistKey(t) ==
    /\ lock = t /\ At(t, "persist") /\ task[t].step <= 4
    /\ LET k == PersistOrder[task[t].step] IN nvs' = [nvs EXCEPT ![k] = ram[k]]
    /\ task' = [task EXCEPT ![t].step = @ + 1]
    /\ UNCHANGED <<guardVars, lock, fresh, now, boots, history>>

(* The handler answers "signed out" whatever rotateSession returned; a     *)
(* changed password is answered only after the new token is read.          *)
AfterPersist(t, ok) ==
    /\ lock' = Free
    /\ floor' = IF task[t].op = "logout" THEN Raised(task[t].base) ELSE floor
    /\ IF task[t].op = "change" /\ ok THEN Goto(t, "token") ELSE Finish(t)

(* persist, nvs_commit. *)
PersistCommit(t) ==
    /\ lock = t /\ At(t, "persist") /\ task[t].step = 5
    /\ AfterPersist(t, TRUE)
    /\ dirty' = FALSE
    /\ UNCHANGED <<guardVars, nvs, fresh, now, boots, cleared, admitted>>

PersistFailsRetrying(t) ==
    /\ lock = t /\ At(t, "persist") /\ "flash" \in Faults
    /\ task' = [task EXCEPT ![t].step = 1]
    /\ UNCHANGED <<guardVars, nvs, lock, fresh, now, boots, history>>

(* persist, any of its nvs calls fails: the rest are skipped, RAM keeps the change. *)
PersistFails(t) ==
    /\ lock = t /\ At(t, "persist") /\ "flash" \in Faults
    /\ AfterPersist(t, FALSE)
    /\ UNCHANGED <<guardVars, nvs, fresh, now, boots, dirty, cleared, admitted>>

(* clear: RAM first, then nvs_erase_all entry by entry, then the commit. *)
clear(t) ==
    /\ At(t, "clear") /\ lock = Free
    /\ hasPassword' = FALSE
    /\ ram' = ZeroRam
    /\ failures' = 0
    /\ lock' = t
    /\ dirty' = TRUE
    /\ Goto(t, "erase")
    /\ UNCHANGED <<lastFailure, nvs, fresh, now, boots, cleared, floor, admitted>>

EraseKey(t) ==
    /\ lock = t /\ At(t, "erase")
    /\ \E k \in Keys : nvs[k] # Absent /\ nvs' = [nvs EXCEPT ![k] = Absent]
    /\ UNCHANGED <<guardVars, lock, task, fresh, now, boots, history>>

EraseDone(t) ==
    /\ lock = t /\ At(t, "erase") /\ nvs = EmptyNvs
    /\ lock' = Free
    /\ Finish(t)
    /\ dirty' = FALSE
    /\ cleared' = TRUE
    /\ floor' = fresh
    /\ UNCHANGED <<guardVars, nvs, fresh, now, boots, admitted>>

(* nvs_open or nvs_erase_all fails: nobody looks at the result. *)
EraseFails(t) ==
    /\ lock = t /\ At(t, "erase") /\ "flash" \in Faults
    /\ lock' = Free
    /\ Finish(t)
    /\ UNCHANGED <<guardVars, nvs, fresh, now, boots, history>>

(* A restart or a power cut, at any point, and begin() on the way up. *)
Reboot ==
    /\ boots < MaxBoots
    /\ boots' = boots + 1
    /\ hasPassword' = StoredPassword
    /\ ram' = LoadedRam
    /\ failures' = 0
    /\ lastFailure' = 0
    /\ lock' = Free
    /\ task' = [t \in Tasks |-> Idle]
    /\ now' = 0
    /\ dirty' = FALSE
    /\ admitted' = 0
    /\ UNCHANGED <<nvs, fresh, cleared, floor>>

Tick ==
    /\ now < MaxTime
    /\ now' = now + 1
    /\ UNCHANGED <<guardVars, nvs, lock, task, fresh, boots, history>>

Request ==
    \/ handleLogin \/ handleLogout \/ handleChangePassword \/ handleRegenerateApiKey
    \/ handleSaveWifi \/ appSetPassword \/ appCheckPassword \/ appClear

Step(t) ==
    \/ Choose(t) \/ Gate(t) \/ Verify(t) \/ Token(t)
    \/ SetRefused(t) \/ SetPassword(t) \/ rotateSession(t) \/ regenerateApiKey(t)
    \/ PersistKey(t) \/ PersistCommit(t) \/ PersistFails(t)
    \/ clear(t) \/ EraseKey(t) \/ EraseDone(t) \/ EraseFails(t)

Next == Request \/ (\E t \in Tasks : Step(t)) \/ Reboot \/ Tick

Spec == Init /\ [][Next]_vars

(* A started handler keeps running, and a task that waits for the mutex    *)
(* gets it: FreeRTOS wakes the waiters of a mutex, none is left behind.    *)
Fairness == \A t \in Tasks : SF_vars(Step(t))
FairSpec == Spec /\ Fairness

-----------------------------------------------------------------------------
Secret == 0..fresh
Hash == [pw : Passwords \cup {NoPassword}, salt : Secret]
AnyRam == [salt : Nat, hash : [pw : Passwords \cup {NoPassword}, salt : Nat],
           session : Nat, apiKey : Nat]
SecretRam == [salt : Secret, hash : Hash, session : Secret, apiKey : Secret]
Places == {"idle", "choose", "gate", "derive", "token", "set", "rotate", "regen",
           "persist", "clear", "erase"}
Ops == {"none", "login", "logout", "change", "regenerate", "save", "set", "check", "clear"}

TaskState == [op : Ops, pc : Places, pw : Presented, next : Presented,
              salt : Secret, expected : Hash, base : Secret, step : 1..5]

(* Every variable keeps its type; no secret is used before it is drawn. *)
TypeOK ==
    /\ hasPassword \in BOOLEAN
    /\ ram \in SecretRam
    /\ failures \in 0..FREE_ATTEMPTS
    /\ lastFailure \in 0..now
    /\ nvs = [k \in Keys |-> nvs[k]]
    /\ \A k \in {"salt", "session", "apiKey"} : nvs[k] \in Secret \cup {Absent}
    /\ nvs["hash"] \in Hash \cup {Absent}
    /\ lock \in Tasks \cup {Free}
    /\ task \in [Tasks -> TaskState]
    /\ fresh \in 0..MaxSecret
    /\ now \in 0..MaxTime
    /\ boots \in 0..MaxBoots
    /\ dirty \in BOOLEAN /\ cleared \in BOOLEAN
    /\ floor \in 0..fresh
    /\ admitted \in 0..now

(* A guard that was cleared (factory reset) never comes up with a password *)
(* again until one is set: neither in RAM nor from flash, whatever handler *)
(* was past its authorisation check when clear() ran, and wherever the     *)
(* power went.  (AccessGuard.cpp:33-41, 145-210)                           *)
ClearedStaysCleared == cleared => ~hasPassword /\ ~StoredPassword

(* What a restart would load. *)
Credential(has, r) == IF has THEN r ELSE NoPassword
Live == Credential(hasPassword, ram)
Stored == Credential(StoredPassword, LoadedRam)

(* Once every change has been written, a restart is invisible: it loads    *)
(* exactly the password, session and key the guard answers with now.       *)
SettledSurvivesReboot == ~dirty => Stored = Live

(* Seen through this mapping, every step of the guard is a step of         *)
(* DurableCredential or changes nothing there.                             *)
Durable == INSTANCE DurableCredential WITH
    Credentials <- AnyRam \cup {NoPassword},
    Unsettled <- Absent,
    live <- Live,
    settled <- IF dirty THEN Absent ELSE Stored
ImplementsDurableCredential == Durable!Spec

(* A session that sign-out or a password change reported as gone is never  *)
(* accepted again, after restarts included.                                *)
SignedOutStaysOut ==
    /\ hasPassword => ram.session > floor
    /\ StoredPassword => nvs["session"] > floor

(* A stored password is one somebody chose: a restart never comes up       *)
(* asking for a password that nothing matches.                             *)
StoredPasswordMatches ==
    StoredPassword => \E p \in Passwords : nvs["hash"] = Derive(p, nvs["salt"])

(* During the lockout, attempts are let through at least LOCKOUT apart,    *)
(* counted from when they were let through and not from when they failed.  *)
LockoutSpacing ==
    [][\A t \in Tasks :
          Gate(t) /\ task'[t].pc = "derive" /\ failures >= FREE_ATTEMPTS
              => now >= admitted + LOCKOUT]_vars

(* Every call returns: the mutex is released on every path. *)
CallsReturn == \A t \in Tasks : ~At(t, "idle") ~> At(t, "idle")
=============================================================================
