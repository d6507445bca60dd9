----------------------------- MODULE OtaRoutes ------------------------------
(***************************************************************************)
(* The routes of OTAManagers in the web server's table, which they share   *)
(* with the application's own.  A route carries a pointer to its manager.  *)
(* A registration fails, silently for the server, when the table is full   *)
(* or the route is taken; each manager remembers which of its two were     *)
(* accepted and removes those with itself.                                 *)
(***************************************************************************)
EXTENDS Naturals, FiniteSets

CONSTANTS
    Managers,
    App,            \* the application's routes
    max_uri_handlers

Own == {"page", "upload"}       \* GET /update, POST /ota/upload
Routes == Own \cup {"other"}    \* and any other route of the application
RoutesAssumption == App \notin Managers /\ max_uri_handlers \in Nat

VARIABLES
    alive,
    initialized,    \* the managers begin() has run for
    registered,     \* _pageRouteRegistered, _uploadRouteRegistered
    table           \* the server's: who registered each route

vars == <<alive, initialized, registered, table>>

Init ==
    /\ alive = {} /\ initialized = {}
    /\ registered = [m \in Managers |-> {}]
    /\ table = {}

Taken(t) == {entry.route : entry \in t}

(* httpd_register_uri_handler *)
Accepts(t, route) == route \notin Taken(t) /\ Cardinality(t) < max_uri_handlers
Registering(t, route, who) == IF Accepts(t, route) THEN t \cup {[route |-> route, by |-> who]} ELSE t

(* httpd_unregister_uri_handler: by route, whoever registered it. *)
Unregistering(t, routes) == {entry \in t : entry.route \notin routes}

AcceptedAll(m, before, after) == Own

(* setupOTAEndpoints: the page, then the upload. *)
Accepted(m, before, after) == {route \in Own : [route |-> route, by |-> m] \in after \ before}

-----------------------------------------------------------------------------
Construct(m) ==
    /\ m \notin alive
    /\ alive' = alive \cup {m}
    /\ registered' = [registered EXCEPT ![m] = {}]
    /\ UNCHANGED <<initialized, table>>

begin(m) ==
    /\ m \in alive \ initialized
    /\ table' = Registering(Registering(table, "page", m), "upload", m)
    /\ registered' = [registered EXCEPT ![m] = Accepted(m, table, table')]
    /\ initialized' = initialized \cup {m}
    /\ UNCHANGED alive

Destroy(m) ==
    /\ m \in alive
    /\ table' = Unregistering(table, registered[m])
    /\ alive' = alive \ {m}
    /\ initialized' = initialized \ {m}
    /\ registered' = [registered EXCEPT ![m] = {}]

AppRegisters ==
    /\ \E route \in Routes : table' = Registering(table, route, App)
    /\ UNCHANGED <<alive, initialized, registered>>

AppUnregisters ==
    /\ \E entry \in table : entry.by = App /\ table' = table \ {entry}
    /\ UNCHANGED <<alive, initialized, registered>>

Next == AppRegisters \/ AppUnregisters \/ \E m \in Managers : Construct(m) \/ begin(m) \/ Destroy(m)

Spec == Init /\ [][Next]_vars

-----------------------------------------------------------------------------
(* No route of a manager outlives it, and a manager takes no route with it *)
(* that the application, or another manager, has in the table: what it     *)
(* remembers is exactly what it has there.                                 *)
RoutesMatchManagers ==
    /\ \A entry \in table : entry.by # App => entry.by \in alive
    /\ \A m \in Managers : registered[m] = {entry.route : entry \in {e \in table : e.by = m}}
=============================================================================
