---------------------------- MODULE CrashReport ----------------------------
(***************************************************************************)
(* reportLastCrash() across boots.  A panic leaves a core dump in flash in *)
(* place of the one before; the next boot decodes it into the log and      *)
(* erases it, or keeps it for a build that can.  The log is in RAM.        *)
(***************************************************************************)
EXTENDS Naturals

CONSTANTS
    Builds,         \* firmware builds the device may run
    MaxCrashes,     \* bound: panics
    Faults          \* "erase": the erase fails.  "alloc": no memory for the
                    \* summary or for a line.  "power": power cuts

NoDump == [crash |-> 0, intact |-> TRUE, readable |-> {}]
Crashes == 1..MaxCrashes
CrashesAssumption == MaxCrashes \in Nat

VARIABLES
    dump,           \* the core dump partition: which builds decode it
    build,
    stage,          \* "boot", then reportLastCrash(): "decode", "erase"; then
                    \* "running", or "unread" when memory lacked to look
    crashes,
    log,            \* the crashes in this boot's log
    told,           \* history: boots whose log had the crash, up to 2
    unspent         \* history: reported, but the erase failed or was cut short

vars == <<dump, build, stage, crashes, log, told, unspent>>

Init ==
    /\ dump = NoDump
    /\ build \in Builds
    /\ stage = "boot"
    /\ crashes = 0
    /\ log = {} /\ told = [c \in Crashes |-> 0] /\ unspent = {}

Reboot == stage' = "boot" /\ log' = {}

(* A panic, at any moment; the dump it writes may be damaged, or beyond    *)
(* the builds there are.                                                   *)
Panic ==
    /\ crashes < MaxCrashes
    /\ crashes' = crashes + 1
    /\ \E intact \in BOOLEAN, readable \in SUBSET Builds :
          dump' = [crash |-> crashes', intact |-> intact, readable |-> IF intact THEN readable ELSE {}]
    /\ Reboot
    /\ UNCHANGED <<build, told, unspent>>

PowerCut ==
    /\ "power" \in Faults
    /\ Reboot
    /\ unspent' = IF stage = "erase" THEN unspent \cup {dump.crash} ELSE unspent
    /\ UNCHANGED <<dump, build, crashes, told>>

Update ==
    /\ stage \in {"running", "unread"}
    /\ build' \in Builds
    /\ Reboot
    /\ UNCHANGED <<dump, crashes, told, unspent>>

(* esp_core_dump_image_check, and the memory for the summary. *)
Check ==
    /\ stage = "boot"
    /\ \/ stage' = IF dump # NoDump /\ dump.intact THEN "decode" ELSE "running"
       \/ "alloc" \in Faults /\ stage' = "unread"
    /\ UNCHANGED <<dump, build, crashes, log, told, unspent>>

Decodes == build \in dump.readable

(* error(): the report is in the log unless its line was dropped. *)
Report ==
    /\ stage = "decode" /\ Decodes
    /\ \/ /\ log' = log \cup {dump.crash}
          /\ told' = [told EXCEPT ![dump.crash] = IF @ < 2 THEN @ + 1 ELSE @]
       \/ "alloc" \in Faults /\ UNCHANGED <<log, told>>
    /\ stage' = "erase"
    /\ UNCHANGED <<dump, build, crashes, unspent>>

(* What could not be decoded is kept. *)
KeepUnread ==
    /\ stage = "decode" /\ ~Decodes
    /\ stage' = "running"
    /\ UNCHANGED <<dump, build, crashes, log, told, unspent>>

ErasedNot == dump
Erased == NoDump

Erase ==
    /\ stage = "erase"
    /\ \/ dump' = Erased /\ UNCHANGED unspent
       \/ "erase" \in Faults /\ unspent' = unspent \cup {dump.crash} /\ UNCHANGED dump
    /\ stage' = "running"
    /\ UNCHANGED <<build, crashes, log, told>>

Next == Panic \/ PowerCut \/ Update \/ Check \/ Report \/ KeepUnread \/ Erase

Spec == Init /\ [][Next]_vars

-----------------------------------------------------------------------------
(* A decoded dump reports exactly once, unless its erase failed or the     *)
(* power went before it: no crash is told by two boots, and when a boot's  *)
(* report is over no dump is left that its build can read.                 *)
ReportsOnce ==
    /\ \A c \in Crashes \ unspent : told[c] <= 1
    /\ stage = "running" /\ dump # NoDump /\ dump.crash \notin unspent => build \notin dump.readable
=============================================================================
