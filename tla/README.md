# Preflight-IDF, modelled and checked

TLA+ models of the Preflight-IDF component (WiFi setup, password guard, OTA
update, logger and HTTPS certificate of an ESP32 device), the TLC
configurations that check them, and TLAPS proofs of every safety property the
passing runs check; liveness is model-checked only. Paths are relative to the
repository; `src/AccessGuard.cpp:203` is a line of it.

The code is small, but it runs on several tasks, it writes flash entry by entry
on a device whose power may go at any moment, and it measures time with a
32-bit clock that wraps. These are the things modelled here: every action is
what runs between two points where another task, a power cut or an error can
get in. Layout, logging and wording are left out; what a page, a form or a list
carries through is modelled by what its encoders do.

## 1. Inventory

### Who runs

| Party | What it runs |
|---|---|
| server task (`httpd`) | every HTTP handler, one request at a time |
| application task | `begin()`, `update()`, `loop()`, and any public call: `setPassword`, `checkPassword`, `clear`, `factoryReset`, `Logger.*` |
| event-loop task | `wifiEventHandler`, `ipEventHandler` |
| timer task | the restart timer of `DeviceCertHttp.cpp` |
| DNS task | `dnsServerTask` of the captive portal |
| any other task | may log |
| power supply, bootloader | a reset between any two steps; which image boots next |

### Components

| Component | State it keeps | Operations | What makes it correct |
|---|---|---|---|
| Access guard (`AccessGuard*.cpp`) | `_hasPassword`, salt, hash, session, API key, `_failures`, `_lastFailureUs` in RAM under `_mutex`; four entries in NVS `pf_access` | `begin`, `setPassword`, `checkPassword`, `clear`, `rotateSession`, `regenerateApiKey`, `isAuthorized`, the handlers | what is written survives a restart, what is not is one or the other; cleared stays cleared; signed out stays out; the lockout holds |
| WiFi settings (`WiFiSetupManager.cpp`) | device name, network, password in NVS; with the guard's password | `handleSaveWifi`, `factoryReset` (web and application), `begin` | a device that joins a network has a device password; a save that was answered is what the next boot reads |
| OTA update (`OTAManager.cpp`) | partitions, otadata, `_currentStage`, the handle, `_rebootRequested`, `_rebootTime` | `handleOTAUpload`, `loop` | there is always an image to boot; a success is the next boot; every upload ends clean |
| Firmware probation (`superviseFirmware`) | `_firmwarePending`, otadata | confirm, roll back | an image nobody can reach goes away |
| Multipart stream (`OTAManager.cpp:401-525`) | the held-back window, the header buffer | one read after the other | what reaches the partition is the image, however the reads fall |
| Station (`WiFiSetupManager.cpp`) | `_wifiEvents`, `_lastReconnectMs`, `_reconnectFailures` | `connectToNetwork`, the event handlers, the retry in `update` | a lost network is retried in time, for ever, with a backoff |
| Deferred restart | `_restartRequested`, `_restartTime` (atomics) | `requestRestart`, `update` | the answer leaves first, and the restart comes |
| Scan cache | `_scannedNetworks`, `_scanCompleted`, `_lastScanMs` under `_stateMutex` | `scanNetworks`, `handleGetNetworks` | no scan in setup mode, no old list outside it |
| Logger (`Logger.cpp`) | the deque, its limit, the drop counter, the output callback | `addEntry`, `begin`, `clear`, `setOutputCallback`, the responses | every line is there or counted; a response is well formed and ends; a callback lives while it runs |
| Crash report | the core dump partition | `reportLastCrash` | reported by one boot only, and spent by its report |
| Device certificate (`DeviceCert*.cpp`) | host, certificate, key, authority and marks in NVS `pf_tls` | load, generate, install, revert, clear | key and certificate fit; an installation that was answered stays |
| Server host (`ServerHost.cpp`) | the servers and their sockets | `start` with its fallbacks, `stop`, the redirect from port 80 | the socket budget; a redirect leads somewhere |
| Manager lifetime (`WiFiSetupManager.cpp`) | event group, mutex, registered handlers, servers, DNS task | constructor, `begin`, destructor | nobody uses what the destructor has taken apart, and it ends |
| DNS server | `_dnsTask`, `_dnsRunning`, `_dnsTaskAlive`, `_dnsSocket` (shared, without a lock) | `startDnsServer`, `stopDnsServer`, `dnsServerTask`, `processDnsRequest` | the task is asked to end and waited for; any datagram stays in its buffers |
| Boot UI (`WiFiSetupBootUI.cpp`) | two widget pointers and the delete callbacks bound to their addresses | `initialize`, `cleanup`, moves, destructor, the status callback | pointers and screen agree; one task inside LVGL |
| OTA routes (`OTAManager.cpp`) | which of two routes were accepted | `begin`, destructor | a route does not outlive its manager, nor does a manager take another's |
| Form body (`FormBody.h`) | none | `readFormBody`, `urlDecode`, `formValue` | a whole body is taken, in bounded time; a field is read as typed |
| Same origin (`SameOrigin.h`) | none | `isSameOrigin` | a source counts only if all of its host was seen |
| Portal and pages (`WiFiSetupManager.cpp`, `html/`) | the session cookie in the browser | the routes and what the pages do next, the escapes | names survive; a sign-in sticks; no circle of redirects |
| mDNS, style, tools, example | | | not modelled, section 7 |

### How they meet

* The save handler calls the guard (`setPassword`) and then stores the
  settings; a factory reset clears the settings, the guard and the certificate.
  All of them end in `requestRestart()`, and `update()` restarts two seconds
  later. `WifiSettings` has the guard reduced to *has a password, in RAM and in
  flash*; `DeviceCert` has the reset reduced to the entries of `pf_tls`.
* Every handler that needs a sign-in reads the guard under its mutex and goes
  on without it.
* The OTA handler sets a flag that `loop()` on the application task reads, and
  stages an image that the bootloader starts on probation; `superviseFirmware`
  ends the probation by what the network says.
* The event-loop task writes what `update()` compares with the clock.
* Everything logs; the log's callback runs on the task that logs.
* The destructor of the manager, on the application's task, ends what the event
  loop, two servers and the DNS task do with the object.
* `begin()` reports its progress to the boot UI; so does the event-loop task.
* The web server's route table is shared with the application and the OTA
  managers.
* A page is guarded by itself and refuses to another page; the browser brings
  the cookie, whose name depends on the scheme.

### What is hard here

Power cuts and flash errors between the entries of one logical record (guard,
settings, certificate, partition and otadata); two tasks on one object with the
lock released between check and use (`checkPassword`, the streaming index, the
log limit); plain or atomic variables shared without a lock (restart flags,
reconnect time); clocks that wrap; streams cut at any byte; callbacks that call
back. `PROJECT.json` lists each hazard at its line with the property that
covers it, or why none does.

## 2. Modules

| Module | Models | State and actions in terms of the code |
|---|---|---|
| `DurableCredential` | nothing of the code: the abstract promise | `live`, `settled`; change, settle, restart |
| `AccessGuard` | `AccessGuard.cpp`, `AccessGuardHttp.cpp` and the callers in `handleSaveWifi` | `ram` and `nvs` are the two copies; `task[t]` is the handler a task is in, with its locals; `Gate` and `Verify` are the two critical sections of `checkPassword`; `PersistKey`, `PersistCommit`, `PersistFails` are the NVS calls of `persist()`, `EraseKey` … those of `clear()`; `Reboot` is a reset at any point and `begin()` |
| `AccessGuardProofs` | theorems about `AccessGuard` | section 6 |
| `WifiSettings` | saving, resetting, booting | one action per NVS call of `handleSaveWifi` and `factoryReset`, from the server task and the application's; `Restart` and `PowerCut` are `Boot` |
| `Firmware` | `handleOTAUpload`, `loop`, `superviseFirmware`, partitions and bootloader | `upload` is the handler's place and locals; `content`, `otaState`, `bootSlot` are flash; `BootFrom` is the bootloader with the part of `begin()` that sees a probation |
| `MultipartStream` | the receive loop of the upload | `Gather` is a read while the part headers are incomplete, `Feed` one behind them, `HeldOf` the bytes held back in case they begin the delimiter |
| `Station` | `connectToNetwork`, the handlers, the retry in `update` | the two reads of `update()` (`ReadClock`, `Compare`) are apart, so that a disconnect may be handled between them |
| `DeferredRestart` | `requestRestart`, the restart in `update` | each load and store of the two atomics is an action; the two operands are read in either order, as C++ allows |
| `ScanCache` | `scanNetworks`, `recordScan`, `getFreshScan`, `handleGetNetworks` | a scan begins and ends in different steps |
| `CrashReport` | `reportLastCrash` across boots | `Check`, `Report` or `KeepUnread`, `Erase`, with panics, power cuts and updates in between |
| `Logger` | buffer, `begin`, `clear`, streamed and whole responses | an action is what runs between two takes of the mutex; a line is its number in arrival order; `Snapshot` is the `try` of `getLogsJSON` and `getLogsHTML`, `SnapshotOutOfMemory` their `catch` |
| `LogCallback` | the callback part of `addEntry`, `setOutputCallback` | a task is a stack of frames, so that callbacks and destructors may log and set; `count` is the `shared_ptr`'s. `CallbackReturns` clears the flag and then gives up the copy; behind `CallbackThrows` the unwinding gives it up first, so that a destructor runs barred, and `Catch` clears the flag |
| `DeviceCert`, `MCDeviceCert` | the entries of `pf_tls`, the requests, the boot, `ServerHost::start` | `todo` is the list of NVS calls an operation still has to make; `Write` makes one, `WriteFails` gives up |
| `Manager` | constructor, `begin()`, destructor, `startDnsServer`, `stopDnsServer`, `dnsServerTask`, `ServerHost::stop` | `owner` is the application's task: the line of `begin()` or of the destructor (`DestructorOrder`) it is at; `dns` is where the DNS task is; the four `dns…` variables are the fields both write without a lock; `stalls` says that the DNS task may be kept from running |
| `DnsRequest` | `processDnsRequest` | `pos` and `questionEnd` as in the code; a byte of the datagram is chosen when it is read; `read`, `copied` and `sent` are how far the code looked, copied and sent |
| `FormBody` | `readFormBody` | one `httpd_req_recv` is an action: bytes, a timeout, or the end |
| `TextCodecs` | `urlDecode`, `formValue`, `listEscape`, `jsonEscape`, `htmlEscape`, `replaceAll`, the normal form of the device name, `urlEncode`, `isSameOrigin`; the page's `splitEscaped`, `unescapeField`, `populateNetworks`, `nextPath` | functions over sequences of characters, checked against what the browser encodes and parses (external); one state is one input |
| `Browsing` | the routes a browser is sent to, the session cookie of each scheme, what the pages do with an answer | `at`, `shown` and `jar` are the browser; a handler is one step of a navigation (`Follow`) or one post of the page it shows |
| `OtaRoutes` | the routes of `OTAManager` | `table` is the server's, shared with the application; `registered` the two flags of each manager |
| `BootUI` | `WiFiSetupBootUI` | `lvgl.member` is what the pointers hold, `lvgl.callback` which addresses each widget nulls when it goes; `Rebound` is `rebindDeleteCallback` |
| `BootScreen` | the status callback in `connectToNetwork`, `ipEventHandler`, the scan and the hotspot | `app` and `loop` are the two tasks, a call of the callback is a place to be in |
| `MCParts` | composes `Station`, `DeferredRestart`, `ScanCache`, `CrashReport` | they share no state: a behaviour picks one (`part`) and the others stand still, so the states are the sum and not the product |
| `MCPortal` | composes `MultipartStream`, `FormBody`, `DnsRequest`, `TextCodecs`, `Browsing` | likewise |
| `MCLifetimes` | composes `Manager`, `OtaRoutes`, `BootUI`, `LogCallback` | likewise; the fairness is `Manager`'s, in the behaviours that pick it |
| `PartsProofs`, `PortalProofs`, `LifetimesProofs` | theorems about what these three compose | section 6; a theorem is about the whole composition, in which one part runs |
| `WifiSettingsProofs`, `FirmwareProofs`, `DeviceCertProofs`, `LoggerProofs` | theorems about the module they are named for | section 6 |

Code outside the repository (bootloader and otadata, WiFi driver, NVS, mbedTLS,
`shared_ptr`, the clock) is modelled from how the code uses it and marked
external in the map.

## 3. Runs

The three `violation` runs are section 5. Everything else passes.

| Run | Shows | Bounds, and why they are enough |
|---|---|---|
| `AccessGuard` | `TypeOK`, `ClearedStaysCleared`, `SignedOutStaysOut` and the refinement of `DurableCredential` under two tasks and a reset at every NVS call | two passwords, two restarts; `MaxSecret` 4 lets three operations draw a secret, so a first password, a change and a sign-out or key meet. No time: the lockout is the next run |
| `AccessGuardFaults` | `LockoutSpacing`, `CallsReturn` and `SettledSurvivesReboot`, when any flash call or the hashing fails | `FREE_ATTEMPTS` 2, `LOCKOUT` 2, three ticks: the lockout is entered, waited out, and entered again by the attempt it let through |
| `Firmware` | `AlwaysBootable`, `ReportedUpdateBoots`, `UploadsEnd`, `UploadTerminates`, `DeadImageLeaves`, `RebootLeavesDelay`: always an image to boot, a success is it, a dead one leaves, uploads end clean and the restart leaves the answer time | two slots and one image slot, good, dead, corrupt and foreign images, every call failing, resets anywhere. One chunk fits and one is too much; the restart delay is one tick, the roll-back two, three ticks in all |
| `WifiSettings` | `ConfiguredIsGuarded`, `KeptPasswordBelongs`, `AnswersAreTrue`: an answered save is what the next boot reads, a finished reset leaves nothing | two networks, a password and the blank one: enough to save, change, keep and mix up; unbounded number of saves, resets, restarts |
| `Logger` | `ResponseFaithful` (well-formed array, nothing repeated, nothing skipped but what was removed, a whole window), `EveryLineAccounted`, `StreamEnds` | two tasks, five lines, batches of two, limits 0, 1, 3 and 4, two calls of `begin()`: the buffer overflows, shrinks and empties inside a response. For `StreamEnds` lines go on for ever (`endless`) |
| `DeviceCert` | `ServedFits` (key, certificate, name and sockets of what the server presents), `TrustAnchorSigned`, `InstalledStays` | two names, two authorities (interchangeable: symmetry), two keys, `maxOpenSockets` 5 |
| `Parts` | `RetriedInTime`, `FailuresForgotten` (station), `RestartLeavesDelay`, `RestartedInTime` (deferred restart), `ServedIsCurrent` (scan cache), `ReportsOnce` (crash report) | the clock wraps at 16 ticks from any start, above the longest backoff with its lags; three failures reach the cap of the doubling; two requests; three panics on two builds |
| `Portal` | `WrittenIsImage` (upload), `WholeBodyInTime` (form), `StaysInBuffers` (DNS), `TextsSurvive` (escapes, paths, origins), `SignInSticks`, `RedirectsEnd` (browser) | upload: `CR LF` is one symbol and the boundary two equal ones (`EqualPair`), so delimiters overlap their own false starts; 12 symbols hold headers, an image of five and the delimiter, in every division into reads. Form: a body of at most 8 bytes, 3 timeouts of 5 units, a deadline of 15. DNS: the buffer is 96 bytes and the labels are the short ones and the extremes, so that every `questionEnd` around both limits is reached. Texts: pairs of texts of at most two characters over the alphabets of `MCPortal`, which contain every character an encoder treats specially; a source of 5 characters and hosts of 2, so that the buffer cuts before, inside and behind the host. Browser: one device, both addresses, both schemes, restarts and sessions without bound |
| `Lifetimes` | `UsersOutlived`, `DestructorEnds` (manager), `RoutesMatchManagers` (OTA routes), `MembersMatchScreen` (boot UI), `CallbackLifetime`, `NotReentered` (log callback) | a receive of two turns and a wait of six keep the code's proportion (a receive times out well within the wait); two OTA managers and a table of two; two screens, four widget addresses that are used again; two tasks, three callbacks, stacks of three frames: a callback that replaces itself by one whose predecessor's destructor logs |

Deadlock is checked except where a component comes to an end by itself: a body
that was read, a datagram that was answered, a text that has no next (`Portal`),
a manager that is gone (`Lifetimes`), a device that restarted (`Parts`), lines
and keys used up (`Logger`, `DeviceCert`), a boot that ended (`BootScreen`).

Each property has a mutant in `PROJECT.json`, an error one could make in the
code (a wrong order of writes, a missing store, an off-by-one, an unguarded
read) under which the run finds the property violated.

## 4. What the properties do not claim

Several properties hold only outside a situation that the model reaches and in
which the code does something else. The situation is part of the formula, as a
history variable or a constant; without it TLC shows the counterexample. Where no
property is named, nothing is claimed.

| Exception | In the formula | What happens inside it |
|---|---|---|
| flash refuses the write of a sign-out | `Faults` of `AccessGuard` has no `"flash"`, `SignOutIsForGood` assumes it | `handleLogout` answers "signed out" whatever `rotateSession` returned (`AccessGuardHttp.cpp:175`); a restart loads the old session |
| a second task calls `checkPassword` | `AppOps` of `AccessGuardFaults` has no `"check"`, `LockoutHolds` assumes it | the test and the count are two critical sections with the derivation between them: two attempts pass together |
| the application sets a password during a sign-in | no property | the sign-in, verified against the old password, is answered with the new session (`AccessGuardHttp.cpp:161`) |
| `loop()` looks between the two stores of the upload handler | `~At("time")` in `RebootLeavesDelay` | the flag is set before the time beside it (`OTAManager.cpp:577`): the device restarts at once |
| the call that rolls back fails | `refused` in `DeadImageLeaves` | the dead image stays until a reset |
| power cut or failing erase behind `esp_ota_end` on an image slot | no property | an image of another project stays bootable (`OTAManager.cpp:542`) |
| flash refuses the device password, or a part of a reset | `failed` in `WifiSettings` | the password is in RAM, so the next save stores a network without one in flash; a reset reports success with settings left (`WiFiSetupManager.cpp:300`, `:949`) |
| the application resets in the middle of a save | `crossed` | the save goes on and stores a network after the password was cleared |
| a save broke off between network and password | `halfSaved` | the next save with a blank password keeps the old network's |
| a web reset and its restart two seconds later | no property | until then the device answers without a password on the LAN |
| a second request while a restart is due | `requests = 1` in `RestartLeavesDelay` | its time may be stored between the two reads of `update()`; the difference wraps and the restart comes at once |
| the clock has come round since the last scan | `SCAN_MAX_AGE..(WRAP - 1)` in `ServedIsCurrent` | 49.7 days later the old list counts as fresh for `SCAN_MAX_AGE` |
| `begin(0)` while a line is on its way | `broken` in `StreamEnds`, 0 in `EveryLineAccounted` | the trimming loop pops an empty deque with the mutex held (`Logger.cpp:189`) |
| an allocation fails in `getLogsJSON` or `getLogsHTML` | `starved` in `SkipsOnlyRemoved` | the answer is `"[]"` or empty (`Logger.cpp:389`, `:427`; promised at `Logger.h:107`) whatever the buffer holds, the notice of dropped lines included: a reader cannot tell it from an empty log |
| a line was trimmed for a push that then failed | no property | two lines are gone, one is counted (`Logger.cpp:190`) |
| two tasks use the callback before `begin()` | one task in `EarlyTasks`; `OneEarlyTask` in the theorems | there is no mutex yet: the `shared_ptr` is copied and swapped without a lock |
| the erase of a reported dump fails or is cut short; its line is dropped | `unspent`; no property | the crash is reported again; or it is erased and in no log |
| a store or an installation that replaces a signed certificate is cut short or fails | `torn` in `DeviceCert`: `"key"` in `PairMatches`, `"signed"` in `TrustAnchorSigned`, either in `SelfSignedIsForHost`, until a new certificate is stored whole or there is none | an installation over another, cut between certificate and authority, leaves the old authority beside the new certificate; a store cut before `key` or `signed` leaves the new certificate beside the old key or the old mark; the mixture is served (`DeviceCert.cpp:91`, `:415`). A first installation and a store over self-signed entries are not excepted: there the order of the writes is enough |
| `nvs_erase_all` is cut short, or fails, during a factory reset | none, but `TrustAnchorSigned` speaks of an authority beside a certificate only | the authority and its mark may stay without the certificate (`DeviceCert.cpp:240`, the result is not read). No HTTPS starts from that; but until a new certificate is made `loadTrustedCa` hands out the authority although nothing it signed is left |
| the DNS task is at its error exit when the manager is destroyed | `{"task cleared", "last"}` in `UsersOutlived` | it has cleared `_dnsTask` (`WiFiSetupManager.cpp:1080`, `:1095`), so nobody waits, and its last two stores go to an object that may be gone |
| the DNS task is kept from running between `socket()` and the store of its result | not modelled: `CreateSocket` is both | a deletion there would leave a socket that no field names; it needs the stall of the next row |
| the DNS task is kept from running for the whole second of the wait | `stalls`, for `dns # "deleted"` in `UsersOutlived` | it is deleted where it is, its socket closed under it, as the comment at `WiFiSetupManager.cpp:1045` wants to avoid; if it ends between the test and the deletion, `vTaskDelete` gets the handle of a task that has ended, or null after the error exit: the caller deletes itself (`owner = "deleted"`) |
| a request is in an OTA handler when its manager is destroyed | no property | unregistering a route does not wait for a handler that runs; the comment at `OTAManager.cpp:34` asks only that the server still be there |
| the consumer deletes the boot screen's widgets | no property | the members are null, and `initialize()` still answers that the screen is ready: nothing is shown |
| the device listens on other ports than 80 and 443 | ports are the schemes' own in `Browsing` | the setup page comes back without a port after HTTPS was turned on or off (`html/setup_html.h:242`) |
| another browser signs out, the password is changed, or the device changes its address | `signedIn`, and a cookie is the host's | the browser has to sign in again |
| a source longer than its buffer whose host does not end in it | `Len(Source(text)) <= SOURCE_SIZE` in `SourceJudgedWhole` | the request is refused although it may be the device's own |
| fewer than four sockets | `MaxOpenSockets`; `EnoughSockets` in `HttpsStartFits` | the main server keeps one and the redirect server takes three (`ServerHost.cpp:123`) |

## 5. Findings

* `AccessGuardTornWrite` — `persist()` writes salt, hash, session and key as
  four entries. A power cut between the first two, during a password change,
  leaves the new salt beside the old hash. All entries are whole, so `begin()`
  reports a password, and none matches.
* `StationUnderflow` — `update()` reads the clock and then `_lastReconnectMs`.
  A disconnect handled between the two stores a later time; the unsigned
  difference is about 2^32 and the retry follows the disconnect at once, without
  the backoff. The next retry is in time again (`RetriedInTime` holds).
* `BootScreen` — `LVGL.md:48` calls the boot UI safe where LVGL has no other
  concurrent owner, and gives the boot window, before the application starts an
  LVGL task, as the case it is built for. In that window the component brings the
  second user itself: `ipEventHandler` wakes `begin()` and then calls
  `onConnected()` on the event-loop task (line 44 of the same document says on
  which), while the application's task may be in `onConnectionProgress()`, or
  already past `begin()` and in `cleanup()`. Both are inside LVGL, which is not
  thread-safe, and nothing locks.

One disagreement is no run, because it is the comment that is the more cautious:
`Logger.cpp:571` says that trimming between two batches can give "a repeated or
skipped line", and no run can refute a "can". Skipped lines happen. A repeated one
cannot: lines leave at the front only, or all at once, so what stands under the
index that was kept is never an earlier line. `ResponseFaithful` claims that, and
`ResponsesFaithful` proves it for every size.

## 6. Proofs

`AccessGuardProofs` proves, for every set of passwords, every bound, every
`FREE_ATTEMPTS` and `LOCKOUT` and every combination of faults that is not
excluded below:

| Theorem | States | Assumes beside the constants' types |
|---|---|---|
| `TypeCorrect` | `Spec => []TypeOK` | |
| `ClearedIsForGood` | `Spec => []ClearedStaysCleared` | |
| `SettledIsDurable` | `Spec => []SettledSurvivesReboot` | |
| `GuardImplementsDurable` | `Spec => Durable!Spec` | |
| `SignOutIsForGood` | `SignedOutStaysOut` | no flash write fails (`"flash" \notin Faults`), power cuts included |
| `LockoutHolds` | `LockoutSpacing` | only the server task calls `checkPassword` (`"check" \notin AppOps`) |

The constants' types are `BoundsAssumption` and `ValuesAssumption`, which TLC
evaluates in the two runs.

None of the invariants is inductive by itself. The inductive one, `IInv`, is

* `TypeOK`, in which no secret is used before it is drawn (`Secret == 0..fresh`);
* `LockInv`: the task that writes flash is the one that holds the mutex, and
  only the server task replaces single tokens;
* `WriteInv`: while a task writes, the entries it has written equal RAM, and
  RAM is marked `dirty` — so at the commit flash is RAM;
* `TokenInv`: without a password at most one of session and key is in RAM. A
  handler that was let in before `clear()` may draw one token afterwards and
  persist it, but not both, and both are needed for `begin()` to see a password;
* `ClearedInv`: the same of RAM and flash together, after a clear. This is why
  `ClearedStaysCleared` holds although the handlers check and act in different
  critical sections;
* `SettledSurvivesReboot` itself.

`NextInv` has one lemma per group of actions (requests, checks, draws, single
NVS writes, commit and failure, clear, reboot). `SignOutIsForGood` adds
`SessionInv` (sessions in RAM, in flash and in a half-done write lie above
`floor`), `LockoutHolds` adds `LockoutInv` (an attempt that was let through is
not followed by another before it failed). The refinement maps `live` to the
credential in RAM, or none, and `settled` to what a restart would load, or
`Unsettled` while RAM is dirty; every action is a step or a stutter of
`DurableCredential` by `IInv` before and after it.

The other seven modules prove what the rest of the project promises. As above,
the theorems hold for every value of the constants within the assumptions the
modules state and TLC evaluates (named below where they say more than a type),
and for every fault the model has; no theorem assumes anything of the behaviour.
Each proof is an inductive invariant, a lemma per action or group of actions
that keeps it, and the step from it to the property.

| Theorem | States | Assumes beside the constants' types |
|---|---|---|
| `NothingLeftOpen`, `SomethingBoots`, `AnsweredUpdateBoots`, `RestartLeavesAnswer` (`FirmwareProofs`) | `UploadsEnd`, `AlwaysBootable`, `ReportedUpdateBoots`, `RebootLeavesDelay` | the names of the image slots are their own |
| `LanNeedsPassword`, `AnswersHold`, `PasswordIsOfItsNetwork` (`WifiSettingsProofs`) | `ConfiguredIsGuarded`, `AnswersAreTrue`, `KeptPasswordBelongs` | an absent entry is no value |
| `NetworkIsRetried`, `OutageStartsAfresh` (`PartsProofs`) | `RetriedInTime`, `FailuresForgotten` | `Sta!ClockAssumption`: the longest backoff and two passes fit in the clock, and the first backoff and a pass in the longest |
| `RestartComes`, `AnswerHasItsDelay` (`PartsProofs`) | `RestartedInTime`, `RestartLeavesDelay` | `Restart!ClockAssumption`: the delay and two passes fit in the clock |
| `ListIsCurrent` (`PartsProofs`) | `ServedIsCurrent` | `SCAN_MAX_AGE` is positive and less than the clock |
| `CrashIsToldOnce` (`PartsProofs`) | `ReportsOnce` | |
| `LinesAccounted`, `ResponsesFaithful` (`LoggerProofs`) | `EveryLineAccounted`, `ResponseFaithful` | the tasks are finitely many |
| `HttpsStartFits` (`DeviceCertProofs`) | `ServedFits` | `EnoughSockets`: the server is given four sockets at least. Below, the code takes one and three (`ServerHost.cpp:123`) |
| `AnchorSigned`, `InstallationStays` (`DeviceCertProofs`) | `TrustAnchorSigned`, `InstalledStays` | |
| `ImageIsWritten` (`PortalProofs`) | `WrittenIsImage` | `SymbolsAssumption`: the boundary is not empty and has no line break; the headers' limit fits in a read |
| `DatagramStaysInBuffers` (`PortalProofs`) | `StaysInBuffers` | `SizesAssumption`: the flags and the count of questions lie in the header, and the buffer holds the header, the shortest question and an answer |
| `BodyIsWholeAndInTime` (`PortalProofs`) | `WholeBodyInTime` | the limits are positive |
| `TextsAreUnderstood` (`PortalProofs`) | `TextsSurvive` | `BoundsAssumption`; the texts are of any length over the alphabets of `MCPortal`, and the lemmas about forms, lists, JSON and the page are proved for any alphabet |
| `SourcesAreJudged` (`PortalProofs`) | `SourceJudgedWhole`, the part of `TextsSurvive` about origins | `BoundsAssumption`: the sizes are numbers; what is proved of a source is proved of any sequence, its addresses are those of `TextCodecs` |
| `SignInIsKept`, `NavigationsEnd` (`PortalProofs`) | `SignInSticks`, `RedirectsEnd` | |
| `ManagerOutlivesUsers` (`LifetimesProofs`) | `UsersOutlived` | `TurnsAssumption`: the wait is longer than a receive and the three stretches behind it, and than the five from the task's start to its error exit. The code's 50 turns against 13 leave room |
| `RoutesOfManagers`, `MembersAgree` (`LifetimesProofs`) | `RoutesMatchManagers`, `MembersMatchScreen` | a null pointer is no widget |
| `CallbacksLive`, `CallbacksNotReentered` (`LifetimesProofs`) | `CallbackLifetime`, `NotReentered` | `OneEarlyTask`: one task at most uses the callback before `begin()` has made the mutex |

What each inductive invariant adds, and why the properties need it:

* `FirmwareInv`: `TargetInv` (what an upload writes is never the running slot),
  `ProbationInv` (while the running image is on probation the other slot has a
  whole, valid one, and no firmware upload is open: this is what makes a roll-back
  safe, and it holds because `esp_ota_begin` is refused meanwhile), `StagedInv`
  (the slot that boots next is written by nobody from `esp_ota_set_boot_partition`
  to the restart, the reason `ReportedUpdateBoots` survives a second upload).
  The lemma `Chosen` says which slot the bootloader then takes.
* `SettingsInv`: who holds the guard's mutex (`Locked`), a save during
  which the application works too is marked `crossed` (`Apart`), the device
  password is in flash before the settings are, and a reset erases them before
  the password (`GuardFirst`), what a reset has cleared stays so (`Forgot`), and
  flash holds what the save has stored up to the entry it is at (`Stored`,
  `Belongs`), with the recorded exceptions.
* `StationInv`: the time since the radio fell idle against the time since the
  last attempt, which differ only while the failures count as none or a pass is
  under way (`IdleInv`); the last event not yet handled says what the radio is.
* `RestartInv`: the stored time is as old as the last answer, and what a pass of
  `update()` has read is of this time or of before the answer; from there on it
  is arithmetic modulo `WRAP`, proved for every `WRAP`.
* `ScanInv`: the list's age is the clock's difference until the clock has come
  round. `CrashInv`: a dump still to be told has been told by nobody.
* `LinesInv` counts the lines that are on their way, by the cardinality of the
  tasks that log. `ResponseInv`: the buffer is the last `Len(entries)` lines
  (`Place`), and a reader's position less what it has sent is what was removed
  behind its back (`ReadInv`), from which no line is repeated and no more skipped
  than left; `TextInv` says that a response under way is an array but for its
  last bracket.
* `CertInv`: for each operation, what is stored when a given rest of its NVS
  calls is still to make (`StoreInv`, `InstallInv`, `RevertInv`). What fits
  (`Paired`, `OwnIsForHost`, `Anchored`) stays true when entries are erased in any
  order (`ErasedFits`), which serves a reset, a revert and both cut short; a cut
  leaves what fits, or an old `key` or `signed` that was still to be replaced,
  and that is all `torn` names (`CutWhole`). `PromiseInv`: no such operation is
  under way while an answered installation stands.
* `UploadInv`: `First` and `End` are the image's ends in the body read in one
  piece. What was written and what is held back are, together, the body from
  `First` to where the reads are; no delimiter is complete in them; and once
  something was written a whole delimiter's length is held (`Held`), so that a
  delimiter that a read completes cannot have begun in what was written. The lemma
  `Fed` is one read, `GatherKeeps` the search for the end of the part headers in a
  beginning of the body, which finds what a search of all of it would.
* `NavigationInv` bounds the redirects made by those still ahead (`Ahead`), a
  function of where the browser is; `SessionInv` has a Secure cookie only under
  the name of HTTPS, so that none ever stands in the way of another.
* `ManagerInv`: what is gone at which step of the destructor (`LiveInv`), the
  DNS task's place against the four fields that both tasks write (`DnsInv`), and
  in `WaitInv` that the turns waited and those the task still needs stay below
  `STOP_TURNS`.
* `CallbackInv`: the flag is set exactly while a frame runs a callback or unwinds
  from one; `count[c]` is the number of frames, of all tasks' stacks, that
  hold `c`, and one for `outputCallback` (`CountInv`); a callback is destroyed,
  or being destroyed, exactly when that is 0 (`LifeInv`).
* `ScreenInv`, `RoutesInv`: the members and the widgets' callbacks are inverse to
  each other; a route is in the table once.
* `InputInv` is what an input may be, and no more: no step changes it, and
  `TextsSurvive` is what the functions make of it. The argument is one for all
  the decoders. What an encoder writes is a run of tokens, one for each character
  (`Each`); a decoder is a `Walk` that reads at each place what stands there and
  where it goes on. A walk that reads every token as its character reads the text,
  and goes on behind it (`WalkThrough`), and each encoder's tokens are such
  (`Decodes`, `JsonDecodes`, `HtmlDecodes`, `ListDecodes`). For a form and for a
  list it remains that the walk which looks for delimiters finds those that were
  written and no others: an escaped form value holds no `&` and no `=`
  (`FormFinds`), and a walk over a row or a list passes the escaped name
  (`PassesName`, `RowIsSplit`, `ListIsSplit`). For the page that confirms a save,
  the first `replaceAll` leaves the other token alone because a label has no `%`
  (`LabelIsPlain`), and the second is not run again over what it put in
  (`ReplacesOne`), so that a network called like a token is shown by its name.
  `TwoAreKept` compares what `populateNetworks` keeps with the rule of
  `ListSurvives`.
* `SourcesAreJudged` needs no more than that the headers are texts: what `Find`
  finds in front of a cut it finds in the whole (`FoundBeforeCut`), so a host whose
  end is in the buffer is the whole source's (`SeenIsWhole`).

Trying the proofs changed the models where they said less, or more, than they
had to: the wait of the destructor needs `RECV_TURNS + 3 < STOP_TURNS`, strictly;
the station needs a first backoff that a late pass does not carry beyond the
longest; the sockets of `ServedFits` need the four; and the part of
`UsersOutlived` that holds even if the DNS task stalls is now stated without
that exception.

Some functions of the models are recursive: `Backoff` of `Station`, `Items` of
`Logger`, and in `TextCodecs` the walk of every decoder (`Walk`), the loop of
`populateNetworks` and the library's `FlattenSeq`, which puts an encoder's tokens
behind each other. Induction over a predicate is not within reach of the provers,
so what is needed of them is proved by the smallest counterexample: the set of
numbers at which the claim fails has a least element (`LeastNatural`, from the
library's `WFMin`), whose predecessor satisfies the claim. A walk and `FlattenSeq`
are shown to be what their recursion says in the same way (`WalkRecurs`,
`FlattenStep`).

Some lemmas of `PortalProofs` about texts have a predicate for their hypotheses
(`ListWalks`, `IsPage`, `RowSpelt` and so on) and a name for a character
(`Comma`, `Quote`, `Brace`): the solvers then see only the facts a step needs.

Only model-checked: liveness (`CallsReturn`, `DeadImageLeaves`,
`UploadTerminates`, `StreamEnds`, `DestructorEnds`), which is out of the prover's
reach. Every invariant and every action property that a passing run checks is
stated by a theorem.

### Fairness

* `AccessGuard`: strong fairness of each task's next step. A started handler
  runs on, and `xSemaphoreTake` waits with `portMAX_DELAY` on a FreeRTOS mutex,
  which wakes its waiters in order of priority and arrival; no step is assumed
  that a holder of the mutex does not take.
* `Firmware`: weak fairness of the handler (receives time out by themselves),
  of `loop()` and `update()`, which `begin()` requires the application to call
  again and again, of `begin()` ending, and of time. Nothing makes a reset happen.
* `Manager`: strong fairness of the destructor, which gets its turn between two
  requests or events however many come; weak fairness of the handlers, which
  return, and of the DNS task where it does not stall. `DestructorEnds` needs
  neither the DNS task to run nor the network to be silent.
* `Logger`: weak fairness of the streaming handler and of a line that is on its
  way; the client need not stay (`StreamAborts` is always possible).

## 7. Not modelled

The registration of the portal's routes, mDNS and the radio set-up are straight
lines of library calls, and the running image's hash in `logRunningImage` is
printed and used for nothing else. Of the pages only what `Browsing` and
`TextCodecs` name is modelled: the rest is layout, styling (the style sheet and
its theme) and wording. The certificate tool runs on a PC, the example is the
loop every model takes the application to be. Inside the modelled components
these are left out: the text of answers and log lines, the level filter and
console of the logger, progress callbacks, `parseBoundary`, the fonts, colours
and texts of the boot screen, the fields of a certificate beyond key, name and
signer, and the delay of `DeviceCertHttp.cpp`'s restart timer (the model restarts
any time after the answer). `TextCodecs` takes a character for a byte: what the
browser makes of UTF-8 is the same on both ways.

## 8. Plan

Done: the modules above, in the order access guard, firmware and stream,
settings, station and restart, logger, certificate, manager and DNS task, DNS
request and form body, codecs, browsing, boot UI, OTA routes; and the proofs of
section 6.

Next:

1. The restart timer of the certificate routes, with a clock.
2. A list of any number of networks in `ListSurvives`: the run and the theorem
   have two, of any names.
