---------------------------- MODULE MCLifetimes -----------------------------
(***************************************************************************)
(* Who outlives whom: the manager and the tasks that use it, the managers  *)
(* and their routes, the boot screen and its widgets, the log's callback.  *)
(* They have no common state: a behaviour picks one and the others stand   *)
(* still.                                                                  *)
(***************************************************************************)
EXTENDS Naturals

CONSTANTS RECV_TURNS, STOP_TURNS,
          Managers, App, max_uri_handlers,
          UIs, Widgets, None,
          Tasks, Callbacks, EarlyTasks, MaxDepth

VARIABLES part,
          owner, live, handlers, servers, event, requests,
          dnsTask, dnsRunning, dnsTaskAlive, dnsSocket, dns, open, turns, still, stalls,
          managers, initialized, registered, table,
          uis, ready, lvgl,
          outputCallback, count, inOutputCallback, begun, holder, stack, made, destroyed

Manager == INSTANCE Manager
Routes == INSTANCE OtaRoutes WITH alive <- managers
Screen == INSTANCE BootUI WITH alive <- uis
Callback == INSTANCE LogCallback

ASSUME ManagerAssumption == Manager!TurnsAssumption
ASSUME RoutesAssumption == Routes!RoutesAssumption
ASSUME ScreenAssumption == Screen!WidgetsAssumption
ASSUME CallbackAssumption == Callback!CallbackAssumption /\ Callback!EarlyAssumption

managerVars == <<owner, live, handlers, servers, event, requests,
                 dnsTask, dnsRunning, dnsTaskAlive, dnsSocket, dns, open, turns, still, stalls>>
routesVars == <<managers, initialized, registered, table>>
screenVars == <<uis, ready, lvgl>>
callbackVars == <<outputCallback, count, inOutputCallback, begun, holder, stack, made, destroyed>>
vars == <<part, managerVars, routesVars, screenVars, callbackVars>>

Init ==
    /\ part \in {"manager", "routes", "screen", "callback"}
    /\ Manager!Init /\ Routes!Init /\ Screen!Init /\ Callback!Init
    /\ part # "manager" => ~stalls

ManagerRuns == part = "manager" /\ Manager!Next /\ UNCHANGED <<part, routesVars, screenVars, callbackVars>>
RoutesRun == part = "routes" /\ Routes!Next /\ UNCHANGED <<part, managerVars, screenVars, callbackVars>>
ScreenRuns == part = "screen" /\ Screen!Next /\ UNCHANGED <<part, managerVars, routesVars, callbackVars>>
CallbackRuns == part = "callback" /\ Callback!Next /\ UNCHANGED <<part, managerVars, routesVars, screenVars>>

Next == ManagerRuns \/ RoutesRun \/ ScreenRuns \/ CallbackRuns

(* The fairness of Manager, in the behaviours that are about the manager.  *)
Spec == Init /\ [][Next]_vars /\ (part = "manager" => Manager!Fairness)

-----------------------------------------------------------------------------
(* Nobody uses what is gone (Manager).                                     *)
UsersOutlived == Manager!UsersOutlived

(* The manager's destructor comes to an end.                               *)
DestructorEnds == Manager!DestructorEnds

(* A manager remembers the routes it has, and takes no others with it.     *)
RoutesMatchManagers == Routes!RoutesMatchManagers

(* The boot screen's members and the screen agree.                         *)
MembersMatchScreen == Screen!MembersMatchScreen

(* A callback lives while it runs, and is destroyed when it was replaced.  *)
CallbackLifetime == Callback!CallbackLifetime

(* A callback is not fed its own lines, nor does it wait for its own mutex.*)
NotReentered == Callback!NotReentered
=============================================================================
