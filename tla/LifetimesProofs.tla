--------------------------- MODULE LifetimesProofs --------------------------
(***************************************************************************)
(* Theorems about what MCLifetimes composes: the routes of OTA managers,   *)
(* the boot screen's widgets, the log's callback and the life of the       *)
(* setup manager, for every value of the constants.                        *)
(***************************************************************************)
EXTENDS MCLifetimes, FiniteSetTheorems, SequenceTheorems, TLAPS

(* A part that stands still keeps its variables.                           *)
LEMMA OnePartRuns == ASSUME [Next]_vars
                     PROVE  /\ ManagerRuns \/ UNCHANGED managerVars
                            /\ RoutesRun \/ UNCHANGED routesVars
                            /\ ScreenRuns \/ UNCHANGED screenVars
                            /\ CallbackRuns \/ UNCHANGED callbackVars
BY DEF Next, ManagerRuns, RoutesRun, ScreenRuns, CallbackRuns, vars, managerVars, routesVars, screenVars, callbackVars

-----------------------------------------------------------------------------
(* The routes of OTA managers. *)

Entry(route, who) == [route |-> route, by |-> who]

RoutesType ==
    /\ managers \subseteq Managers /\ initialized \subseteq managers
    /\ registered \in [Managers -> SUBSET Routes!Own]
    /\ table \subseteq [route : Routes!Routes, by : Managers \cup {App}]

Own(t, m) == {r \in Routes!Own : Entry(r, m) \in t}

(* A route is in the table once, and of a manager only from begin() on.    *)
RoutesInv ==
    /\ RoutesType
    /\ \A e, f \in table : e.route = f.route => e = f
    /\ \A e \in table : e.by # App => e.by \in initialized /\ e.route \in Routes!Own
    /\ \A m \in Managers : registered[m] = Own(table, m)

(* What the invariant says of a manager's routes is what the property does.*)
LEMMA RoutesMatch == ASSUME RoutesInv PROVE RoutesMatchManagers
<1>1. ASSUME NEW m \in Managers
      PROVE  registered[m] = {entry.route : entry \in {e \in table : e.by = m}}
  <2>1. ASSUME NEW e \in table, e.by = m PROVE e.route \in Own(table, m)
    BY <2>1, RoutesAssumption DEF RoutesInv, RoutesType, Own, Entry, Routes!RoutesAssumption
  <2>2. ASSUME NEW r \in Own(table, m) PROVE r \in {entry.route : entry \in {e \in table : e.by = m}}
    BY DEF Own, Entry
  <2> QED BY <2>1, <2>2 DEF RoutesInv
<1> QED BY <1>1 DEF RoutesInv, RoutesType, RoutesMatchManagers, Routes!RoutesMatchManagers

LEMMA RoutesInit == Routes!Init => RoutesInv
BY DEF Routes!Init, RoutesInv, RoutesType, Own

(* A registration adds one entry, of a route that was free, or none.       *)
LEMMA Registered ==
    ASSUME NEW t \in SUBSET [route : Routes!Routes, by : Managers \cup {App}],
           \A e, f \in t : e.route = f.route => e = f,
           NEW route \in Routes!Routes, NEW who \in Managers \cup {App}
    PROVE  LET new == Routes!Registering(t, route, who)
           IN  /\ new \in SUBSET [route : Routes!Routes, by : Managers \cup {App}]
               /\ t \subseteq new /\ new \subseteq t \cup {Entry(route, who)}
               /\ \A e, f \in new : e.route = f.route => e = f
BY DEF Routes!Registering, Routes!Accepts, Routes!Taken, Entry

LEMMA RoutesBegin == ASSUME RoutesInv, NEW m \in Managers, Routes!begin(m) PROVE RoutesInv'
<1> DEFINE page == Routes!Registering(table, "page", m)
<1>1. {"page", "upload"} \subseteq Routes!Routes /\ Routes!Own = {"page", "upload"}
  BY DEF Routes!Routes, Routes!Own
<1>2. /\ page \in SUBSET [route : Routes!Routes, by : Managers \cup {App}]
      /\ table \subseteq page /\ page \subseteq table \cup {Entry("page", m)}
      /\ \A e, f \in page : e.route = f.route => e = f
  BY <1>1, Registered DEF RoutesInv, RoutesType
<1>3. /\ table' \in SUBSET [route : Routes!Routes, by : Managers \cup {App}]
      /\ page \subseteq table' /\ table' \subseteq page \cup {Entry("upload", m)}
      /\ \A e, f \in table' : e.route = f.route => e = f
  <2> HIDE DEF page
  <2>1. table' = Routes!Registering(page, "upload", m)
    BY DEF Routes!begin, page
  <2> QED BY <1>1, <1>2, <2>1, Registered
<1> HIDE DEF page
<1>4. table \subseteq table' /\ table' \subseteq table \cup {Entry("page", m), Entry("upload", m)}
  BY <1>2, <1>3
<1>5. m # App /\ m \in managers /\ m \notin initialized /\ initialized' = initialized \cup {m} /\ managers' = managers
  BY RoutesAssumption DEF Routes!begin, Routes!RoutesAssumption, RoutesInv, RoutesType
<1>6. registered' = [registered EXCEPT ![m] = Own(table', m)]
  <2>1. \A r \in Routes!Own : Entry(r, m) \notin table
    BY <1>5 DEF RoutesInv, Entry
  <2> QED BY <2>1 DEF Routes!begin, Routes!Accepted, Own, Entry
<1>7. RoutesType'
  BY <1>3, <1>5, <1>6 DEF RoutesInv, RoutesType, Own
<1>8. \A e \in table' : e.by # App => e.by \in initialized' /\ e.route \in Routes!Own
  BY <1>1, <1>4, <1>5 DEF RoutesInv, Entry
<1>9. ASSUME NEW n \in Managers PROVE registered'[n] = Own(table', n)
  BY <1>4, <1>6 DEF RoutesInv, RoutesType, Own, Entry
<1> QED BY <1>3, <1>7, <1>8, <1>9 DEF RoutesInv

(* By route, whoever registered it: its own routes, as no other has them.  *)
LEMMA RoutesDestroy == ASSUME RoutesInv, NEW m \in Managers, Routes!Destroy(m) PROVE RoutesInv'
<1>1. m # App
  BY RoutesAssumption DEF Routes!RoutesAssumption
<1>2. table' = {e \in table : e.by # m}
  <2>1. ASSUME NEW e \in table PROVE e.route \in registered[m] <=> e.by = m
    <3>1. e = Entry(e.route, e.by)
      BY DEF RoutesInv, RoutesType, Entry
    <3>2. e.route \in registered[m] => e = Entry(e.route, m)
      BY DEF RoutesInv, Own, Entry
    <3>3. e.by = m => e.route \in registered[m]
      BY <1>1, <3>1 DEF RoutesInv, Own
    <3> QED BY <3>2, <3>3 DEF Entry
  <2> QED BY <2>1 DEF Routes!Destroy, Routes!Unregistering
<1>3. /\ managers' = managers \ {m} /\ initialized' = initialized \ {m}
      /\ registered' = [registered EXCEPT ![m] = {}]
  BY DEF Routes!Destroy
<1>4. \A n \in Managers : registered'[n] = Own(table', n)
  BY <1>2, <1>3 DEF RoutesInv, RoutesType, Own, Entry
<1> QED BY <1>2, <1>3, <1>4 DEF RoutesInv, RoutesType

LEMMA RoutesNext == ASSUME RoutesInv, Routes!Next PROVE RoutesInv'
<1>1. CASE Routes!AppRegisters
  <2>1. PICK route \in Routes!Routes : table' = Routes!Registering(table, route, App)
    BY <1>1 DEF Routes!AppRegisters
  <2>2. UNCHANGED <<managers, initialized, registered>>
    BY <1>1 DEF Routes!AppRegisters
  <2>3. /\ table' \in SUBSET [route : Routes!Routes, by : Managers \cup {App}]
        /\ table \subseteq table' /\ table' \subseteq table \cup {Entry(route, App)}
        /\ \A e, f \in table' : e.route = f.route => e = f
    BY <2>1, Registered DEF RoutesInv, RoutesType
  <2>4. \A m \in Managers : Own(table', m) = Own(table, m)
    BY <2>3, RoutesAssumption DEF Own, Entry, Routes!RoutesAssumption
  <2> QED BY <2>2, <2>3, <2>4 DEF RoutesInv, RoutesType, Entry
<1>2. CASE Routes!AppUnregisters
  <2>1. PICK entry \in table : entry.by = App /\ table' = table \ {entry}
    BY <1>2 DEF Routes!AppUnregisters
  <2>2. UNCHANGED <<managers, initialized, registered>>
    BY <1>2 DEF Routes!AppUnregisters
  <2>3. \A m \in Managers : Own(table', m) = Own(table, m)
    BY <2>1, RoutesAssumption DEF Own, Entry, Routes!RoutesAssumption
  <2> QED BY <2>1, <2>2, <2>3 DEF RoutesInv, RoutesType
<1>3. ASSUME NEW m \in Managers, Routes!Construct(m) PROVE RoutesInv'
  <2>1. m # App /\ m \notin managers
    BY <1>3, RoutesAssumption DEF Routes!Construct, Routes!RoutesAssumption
  <2>2. Own(table, m) = {}
    BY <2>1 DEF RoutesInv, RoutesType, Own, Entry
  <2>3. registered' = registered
    BY <1>3, <2>2 DEF RoutesInv, RoutesType, Routes!Construct
  <2> QED BY <1>3, <2>3 DEF RoutesInv, RoutesType, Own, Routes!Construct
<1> QED BY <1>1, <1>2, <1>3, RoutesBegin, RoutesDestroy DEF Routes!Next

(* Whoever fills the table and in whatever order managers come and go: a   *)
(* manager's flags name exactly the routes it has in the server's table,   *)
(* and its destructor takes those with it and no other's.                  *)
THEOREM RoutesOfManagers == Spec => []RoutesMatchManagers
<1>1. Init => RoutesInv
  BY RoutesInit DEF Init
<1>2. RoutesInv /\ [Next]_vars => RoutesInv'
  <2> SUFFICES ASSUME RoutesInv, [Next]_vars PROVE RoutesInv'
    OBVIOUS
  <2>1. CASE RoutesRun
    BY <2>1, RoutesNext DEF RoutesRun
  <2>2. CASE UNCHANGED routesVars
    BY <2>2 DEF routesVars, RoutesInv, RoutesType, Own
  <2> QED BY <2>1, <2>2, OnePartRuns
<1>3. RoutesInv => RoutesMatchManagers
  BY RoutesMatch
<1> QED BY <1>1, <1>2, <1>3, PTL DEF Spec

-----------------------------------------------------------------------------
(* The boot screen's widgets. *)

Pointers == [Screen!Members -> Widgets \cup {None}]

ScreenType(s) ==
    /\ s = [member |-> s.member, callback |-> s.callback]
    /\ s.member \in Pointers
    /\ DOMAIN s.callback \subseteq Widgets

(* The members of these objects and the screen agree: the property, of any *)
(* set of objects and any screen.                                          *)
Agree(objects, s) ==
    /\ ScreenType(s)
    /\ \A m \in Screen!Members : s.member[m] # None =>
          m[1] \in objects /\ s.member[m] \in DOMAIN s.callback /\ s.callback[s.member[m]] = {m}
    /\ \A w \in DOMAIN s.callback : \E m \in Screen!Members : s.member[m] = w

Empty(s, u) == \A m \in Screen!Members : m[1] = u => s.member[m] = None

(* An object that is not initialized holds nothing, or creating would      *)
(* leave a widget behind.                                                  *)
ScreenInv ==
    /\ uis \subseteq UIs /\ ready \in [UIs -> BOOLEAN]
    /\ Agree(uis, lvgl)
    /\ \A u \in UIs : ~ready[u] => Empty(lvgl, u)

(* Deleting widgets nulls the members that held them, and no other.        *)
LEMMA DeletedAgrees ==
    ASSUME NEW objects, NEW s, Agree(objects, s), NEW ws
    PROVE  /\ \A m \in Screen!Members :
                 Screen!Deleted(s, ws).member[m] = IF s.member[m] \in ws /\ s.member[m] # None THEN None ELSE s.member[m]
           /\ Agree(objects, Screen!Deleted(s, ws))
<1> DEFINE d == Screen!Deleted(s, ws)
<1>1. /\ d.member = [m \in Screen!Members |-> IF \E w \in ws \cap DOMAIN s.callback : m \in s.callback[w] THEN None ELSE s.member[m]]
      /\ d.callback = [w \in (DOMAIN s.callback) \ ws |-> s.callback[w]]
      /\ d = [member |-> d.member, callback |-> d.callback]
  BY DEF Screen!Deleted, Screen!OnScreen, Screen!Restrict
<1> HIDE DEF d
<1>2. ASSUME NEW m \in Screen!Members, NEW w \in DOMAIN s.callback
      PROVE  m \in s.callback[w] <=> s.member[m] = w
  <2>1. PICK n \in Screen!Members : s.member[n] = w
    BY DEF Agree
  <2>2. w # None
    BY ScreenAssumption DEF Screen!WidgetsAssumption, Agree, ScreenType
  <2> QED BY <2>1, <2>2 DEF Agree
<1>3. ASSUME NEW m \in Screen!Members
      PROVE  d.member[m] = IF s.member[m] \in ws /\ s.member[m] # None THEN None ELSE s.member[m]
  BY <1>1, <1>2 DEF Agree
<1>4. ScreenType(d)
  BY <1>1 DEF Agree, ScreenType, Pointers
<1>5. Agree(objects, d)
  <2>1. ASSUME NEW m \in Screen!Members, d.member[m] # None
        PROVE  m[1] \in objects /\ d.member[m] \in DOMAIN d.callback /\ d.callback[d.member[m]] = {m}
    BY <1>1, <1>3, <2>1 DEF Agree
  <2>2. ASSUME NEW w \in DOMAIN d.callback PROVE \E m \in Screen!Members : d.member[m] = w
    BY <1>1, <1>3 DEF Agree
  <2> QED BY <1>4, <2>1, <2>2 DEF Agree
<1> QED BY <1>3, <1>5 DEF d

(* After cleanup() the object holds nothing, and nothing of it is left.    *)
LEMMA CleanedUpAgrees ==
    ASSUME NEW objects, NEW s, Agree(objects, s), NEW u \in UIs
    PROVE  /\ Agree(objects, Screen!CleanedUp(s, u)) /\ Empty(Screen!CleanedUp(s, u), u)
           /\ \A v \in UIs : Empty(s, v) => Empty(Screen!CleanedUp(s, u), v)
<1> DEFINE d == Screen!Deleted(s, Screen!Held(s, u))
<1>1. /\ \A m \in Screen!Members : d.member[m] = IF s.member[m] \in Screen!Held(s, u) /\ s.member[m] # None THEN None ELSE s.member[m]
      /\ Agree(objects, d)
  BY DeletedAgrees
<1> HIDE DEF d
<1>2. \A m \in Screen!Members : m[1] = u => d.member[m] = None
  <2>1. \A m \in Screen!Members : m[1] = u /\ s.member[m] # None => s.member[m] \in Screen!Held(s, u)
    BY DEF Screen!Members, Screen!Held, Screen!Kinds
  <2> QED BY <1>1, <2>1
<1>3. Screen!CleanedUp(s, u) = d
  <2>1. [m \in Screen!Members |-> IF m[1] = u THEN None ELSE d.member[m]] = d.member
    BY <1>1, <1>2 DEF Agree, ScreenType, Pointers
  <2>2. Screen!CleanedUp(s, u) = [d EXCEPT !.member = [m \in Screen!Members |-> IF m[1] = u THEN None ELSE d.member[m]]]
    BY DEF Screen!CleanedUp, Screen!Emptied, d
  <2> QED BY <1>1, <2>1, <2>2 DEF Agree, ScreenType
<1> QED BY <1>1, <1>2, <1>3 DEF Empty

(* New widgets are of memory that is free, and call back the members they  *)
(* are put into.                                                           *)
LEMMA CreatedAgrees ==
    ASSUME NEW objects, NEW s, Agree(objects, s), NEW u \in UIs, u \in objects, Empty(s, u),
           NEW kinds \in SUBSET Screen!Kinds,
           NEW fresh \in [kinds -> Widgets \ DOMAIN s.callback],
           \A k, l \in kinds : fresh[k] = fresh[l] => k = l
    PROVE  /\ Agree(objects, Screen!Created(s, u, fresh))
           /\ \A v \in UIs \ {u} : Empty(s, v) => Empty(Screen!Created(s, u, fresh), v)
<1> DEFINE c == Screen!Created(s, u, fresh)
<1> USE ScreenAssumption DEF Screen!WidgetsAssumption
<1>1. /\ c.member = [m \in Screen!Members |->
                      IF m[1] # u THEN s.member[m]
                      ELSE IF m[2] \in DOMAIN fresh THEN fresh[m[2]] ELSE None]
      /\ c.callback = [w \in (DOMAIN s.callback) \cup {fresh[k] : k \in DOMAIN fresh} |->
                      IF w \in {fresh[k] : k \in DOMAIN fresh} THEN {<<u, k>> : k \in {k \in DOMAIN fresh : fresh[k] = w}}
                      ELSE s.callback[w]]
      /\ c = [member |-> c.member, callback |-> c.callback]
  BY DEF Screen!Created, Screen!OnScreen, Screen!Range
<1> HIDE DEF c
<1>2. DOMAIN fresh = kinds /\ \A k \in kinds : fresh[k] \in Widgets /\ fresh[k] \notin DOMAIN s.callback /\ fresh[k] # None
  OBVIOUS
<1>3. ScreenType(c)
  BY <1>1, <1>2 DEF Agree, ScreenType, Pointers
<1>4. ASSUME NEW k \in kinds
      PROVE  /\ <<u, k>> \in Screen!Members /\ c.member[<<u, k>>] = fresh[k]
             /\ fresh[k] \in DOMAIN c.callback /\ c.callback[fresh[k]] = {<<u, k>>}
  <2>1. <<u, k>> \in Screen!Members
    BY DEF Screen!Members
  <2>2. {l \in kinds : fresh[l] = fresh[k]} = {k}
    OBVIOUS
  <2>3. {<<u, l>> : l \in {l \in kinds : fresh[l] = fresh[k]}} = {<<u, k>>}
    BY <2>2
  <2> QED BY <1>1, <1>2, <2>1, <2>3
<1>5. ASSUME NEW m \in Screen!Members, c.member[m] # None
      PROVE  m[1] \in objects /\ c.member[m] \in DOMAIN c.callback /\ c.callback[c.member[m]] = {m}
  <2>1. CASE m[1] # u
    BY <1>1, <1>2, <1>5, <2>1 DEF Agree
  <2>2. CASE m[1] = u
    <3>1. m[2] \in kinds /\ m = <<u, m[2]>>
      BY <1>1, <1>2, <1>5, <2>2 DEF Screen!Members
    <3> QED BY <1>4, <3>1
  <2> QED BY <2>1, <2>2
<1>6. ASSUME NEW w \in DOMAIN c.callback PROVE \E m \in Screen!Members : c.member[m] = w
  <2>1. CASE \E k \in kinds : w = fresh[k]
    BY <1>4, <2>1
  <2>2. CASE w \in DOMAIN s.callback
    <3>1. PICK m \in Screen!Members : s.member[m] = w
      BY <2>2 DEF Agree
    <3>2. m[1] # u
      BY <2>2, <3>1 DEF Agree, ScreenType, Empty
    <3> QED BY <1>1, <3>1, <3>2
  <2> QED BY <1>1, <1>2, <2>1, <2>2
<1>7. \A v \in UIs \ {u} : Empty(s, v) => Empty(c, v)
  BY <1>1 DEF Empty
<1> QED BY <1>3, <1>5, <1>6, <1>7 DEF Agree, c

(* The widgets follow the object: they null the members they are now in,   *)
(* and the old object's hold nothing.                                      *)
LEMMA MovedAgrees ==
    ASSUME NEW objects, NEW s, Agree(objects, s), NEW u \in UIs, NEW v \in UIs, u # v, v \in objects, Empty(s, v)
    PROVE  /\ Agree(objects, Screen!Moved(s, u, v)) /\ Empty(Screen!Moved(s, u, v), u)
           /\ Empty(s, u) => Empty(Screen!Moved(s, u, v), v)
           /\ \A x \in UIs \ {u, v} : Empty(s, x) => Empty(Screen!Moved(s, u, v), x)
<1> DEFINE d == Screen!Moved(s, u, v)
<1> USE ScreenAssumption DEF Screen!WidgetsAssumption
<1>1. /\ d.member = [m \in Screen!Members |-> IF m[1] = u THEN None
                                              ELSE IF m[1] = v THEN s.member[<<u, m[2]>>] ELSE s.member[m]]
      /\ d.callback = [w \in DOMAIN s.callback |-> IF w \in Screen!Held(s, u) THEN Screen!Rebound(s.callback[w], u, v)
                                                   ELSE s.callback[w]]
      /\ d = [member |-> d.member, callback |-> d.callback]
  <2> DEFINE moved == [m \in Screen!Members |-> IF m[1] = v THEN s.member[<<u, m[2]>>] ELSE s.member[m]]
             rebound == [w \in DOMAIN s.callback |-> IF w \in Screen!Held(s, u) THEN Screen!Rebound(s.callback[w], u, v)
                                                     ELSE s.callback[w]]
  <2>1. d = Screen!Emptied([member |-> moved, callback |-> rebound], u)
    BY DEF Screen!Moved, Screen!OnScreen
  <2>2. d = [member   |-> [m \in Screen!Members |-> IF m[1] = u THEN None ELSE moved[m]],
             callback |-> rebound]
    <3> HIDE DEF moved, rebound, d
    <3> QED BY <2>1 DEF Screen!Emptied
  <2> HIDE DEF d, rebound
  <2>3. d.member = [m \in Screen!Members |-> IF m[1] = u THEN None ELSE moved[m]] /\ d.callback = rebound
    BY <2>2
  <2> QED BY <2>2, <2>3 DEF rebound
<1> HIDE DEF d
<1>2. ScreenType(d)
  BY <1>1 DEF Agree, ScreenType, Pointers, Screen!Members
<1>3. ASSUME NEW k \in Screen!Kinds, s.member[<<u, k>>] # None
      PROVE  /\ s.member[<<u, k>>] \in DOMAIN d.callback
             /\ d.callback[s.member[<<u, k>>]] = {<<v, k>>}
  <2>1. <<u, k>> \in Screen!Members /\ s.member[<<u, k>>] \in Screen!Held(s, u)
    BY <1>3 DEF Screen!Members, Screen!Held
  <2>2. s.member[<<u, k>>] \in DOMAIN s.callback /\ s.callback[s.member[<<u, k>>]] = {<<u, k>>}
    BY <1>3, <2>1 DEF Agree
  <2>3. Screen!Rebound({<<u, k>>}, u, v) = {<<v, k>>}
    <3>1. {m \in {<<u, k>>} : m[1] # u} = {} /\ {m \in {<<u, k>>} : m[1] = u} = {<<u, k>>}
      OBVIOUS
    <3>2. {<<v, m[2]>> : m \in {<<u, k>>}} = {<<v, k>>}
      OBVIOUS
    <3> QED BY <3>1, <3>2 DEF Screen!Rebound
  <2> QED BY <1>1, <2>1, <2>2, <2>3
<1>4. ASSUME NEW m \in Screen!Members, d.member[m] # None
      PROVE  m[1] \in objects /\ d.member[m] \in DOMAIN d.callback /\ d.callback[d.member[m]] = {m}
  <2>1. CASE m[1] = v
    <3>1. m[2] \in Screen!Kinds /\ m = <<v, m[2]>>
      BY <2>1 DEF Screen!Members
    <3> QED BY <1>1, <1>3, <1>4, <2>1, <3>1
  <2>2. CASE m[1] # v
    <3>1. m[1] # u /\ d.member[m] = s.member[m]
      BY <1>1, <1>4, <2>2
    <3>2. s.member[m] \in DOMAIN s.callback /\ s.callback[s.member[m]] = {m}
      BY <1>4, <3>1 DEF Agree
    <3>3. s.member[m] \notin Screen!Held(s, u)
      <4> SUFFICES ASSUME NEW k \in Screen!Kinds, s.member[m] = s.member[<<u, k>>] PROVE FALSE
        BY DEF Screen!Held
      <4>1. <<u, k>> \in Screen!Members
        BY DEF Screen!Members
      <4>2. s.callback[s.member[m]] = {<<u, k>>}
        BY <1>4, <3>1, <4>1 DEF Agree
      <4> QED BY <3>1, <3>2, <4>2
    <3> QED BY <1>1, <1>4, <3>1, <3>2, <3>3 DEF Agree
  <2> QED BY <2>1, <2>2
<1>5. ASSUME NEW w \in DOMAIN d.callback PROVE \E m \in Screen!Members : d.member[m] = w
  <2>1. PICK m \in Screen!Members : s.member[m] = w
    BY <1>1 DEF Agree
  <2>2. CASE m[1] = u
    <3>1. m[2] \in Screen!Kinds /\ m = <<u, m[2]>> /\ <<v, m[2]>> \in Screen!Members
      BY <2>2 DEF Screen!Members
    <3>2. d.member[<<v, m[2]>>] = s.member[<<u, m[2]>>]
      BY <1>1, <3>1
    <3> QED BY <2>1, <3>1, <3>2
  <2>3. CASE m[1] # u
    <3>1. m[1] # v
      BY <1>1, <2>1 DEF Agree, ScreenType, Empty
    <3> QED BY <1>1, <2>1, <2>3, <3>1
  <2> QED BY <2>2, <2>3
<1>6. Empty(d, u) /\ (Empty(s, u) => Empty(d, v)) /\ \A x \in UIs \ {u, v} : Empty(s, x) => Empty(d, x)
  BY <1>1 DEF Empty, Screen!Members
<1> QED BY <1>2, <1>4, <1>5, <1>6 DEF Agree, d

LEMMA AgreeWidens == ASSUME NEW objects, NEW more, NEW s, Agree(objects, s), objects \subseteq more PROVE Agree(more, s)
BY DEF Agree

(* An object that holds nothing may go.                                    *)
LEMMA AgreeNarrows ==
    ASSUME NEW objects, NEW s, NEW u, Agree(objects, s), Empty(s, u)
    PROVE  Agree(objects \ {u}, s)
BY DEF Agree, Empty

LEMMA ScreenInit == Screen!Init => ScreenInv
BY DEF Screen!Init, ScreenInv, Agree, ScreenType, Pointers, Empty

(* initialize(): both widgets, or none of them stays.                      *)
LEMMA ScreenInitialize == ASSUME ScreenInv, NEW u \in UIs, Screen!initialize(u) PROVE ScreenInv'
<1>1. u \in uis /\ ~ready[u] /\ uis' = uis /\ Agree(uis, lvgl) /\ Empty(lvgl, u)
  BY DEF Screen!initialize, ScreenInv
<1>2. PICK kinds \in SUBSET Screen!Kinds :
        \E fresh \in Screen!Injection(kinds, Widgets \ DOMAIN lvgl.callback) :
          /\ ready' = [ready EXCEPT ![u] = (kinds = Screen!Kinds)]
          /\ lvgl' = IF kinds = Screen!Kinds THEN Screen!Created(lvgl, u, fresh)
                     ELSE Screen!CleanedUp(Screen!Created(lvgl, u, fresh), u)
  BY DEF Screen!initialize, Screen!OnScreen
<1>3. PICK fresh \in [kinds -> Widgets \ DOMAIN lvgl.callback] :
          /\ \A k, l \in kinds : fresh[k] = fresh[l] => k = l
          /\ lvgl' = IF kinds = Screen!Kinds THEN Screen!Created(lvgl, u, fresh)
                     ELSE Screen!CleanedUp(Screen!Created(lvgl, u, fresh), u)
  BY <1>2 DEF Screen!Injection, Screen!IsInjective
<1>4. /\ Agree(uis, Screen!Created(lvgl, u, fresh))
      /\ \A v \in UIs \ {u} : Empty(lvgl, v) => Empty(Screen!Created(lvgl, u, fresh), v)
  BY <1>1, <1>3, CreatedAgrees
<1>5. ready' \in [UIs -> BOOLEAN] /\ ready'[u] = (kinds = Screen!Kinds) /\ \A v \in UIs \ {u} : ready'[v] = ready[v]
  BY <1>2 DEF ScreenInv
<1>6. CASE kinds = Screen!Kinds
  BY <1>1, <1>3, <1>4, <1>5, <1>6 DEF ScreenInv
<1>7. CASE kinds # Screen!Kinds
  <2>1. /\ Agree(uis, lvgl') /\ Empty(lvgl', u)
        /\ \A v \in UIs \ {u} : Empty(lvgl, v) => Empty(lvgl', v)
    BY <1>3, <1>4, <1>7, CleanedUpAgrees
  <2> QED BY <1>1, <1>5, <2>1 DEF ScreenInv
<1> QED BY <1>6, <1>7

LEMMA ScreenCleanup == ASSUME ScreenInv, NEW u \in UIs, Screen!cleanup(u) \/ Screen!Destroy(u) PROVE ScreenInv'
<1>1. ready' = [ready EXCEPT ![u] = FALSE] /\ lvgl' = Screen!CleanedUp(lvgl, u) /\ uis' \in {uis, uis \ {u}}
  BY DEF Screen!cleanup, Screen!Destroy
<1>2. /\ Agree(uis, lvgl') /\ Empty(lvgl', u)
      /\ \A v \in UIs : Empty(lvgl, v) => Empty(lvgl', v)
  BY <1>1, CleanedUpAgrees DEF ScreenInv
<1>3. Agree(uis', lvgl')
  BY <1>1, <1>2, AgreeNarrows
<1> QED BY <1>1, <1>2, <1>3 DEF ScreenInv

(* A new object's members are null; nothing is where nothing was.          *)
LEMMA ScreenConstruct == ASSUME ScreenInv, NEW u \in UIs, Screen!Construct(u) PROVE ScreenInv'
<1>1. u \notin uis /\ uis' = uis \cup {u} /\ ready' = [ready EXCEPT ![u] = FALSE] /\ lvgl' = Screen!Emptied(lvgl, u)
  BY DEF Screen!Construct
<1>2. Empty(lvgl, u) /\ Agree(uis, lvgl)
  BY <1>1 DEF ScreenInv, Agree, Empty
<1>3. lvgl' = lvgl
  <2>1. [m \in Screen!Members |-> IF m[1] = u THEN None ELSE lvgl.member[m]] = lvgl.member
    BY <1>2 DEF Empty, Agree, ScreenType, Pointers
  <2> QED BY <1>1, <1>2, <2>1 DEF Agree, ScreenType, Screen!Emptied
<1>4. Agree(uis', lvgl')
  BY <1>1, <1>2, <1>3, AgreeWidens
<1> QED BY <1>1, <1>2, <1>3, <1>4 DEF ScreenInv

LEMMA ScreenMove ==
    ASSUME ScreenInv, NEW u \in UIs, NEW v \in UIs, Screen!MoveConstruct(u, v) \/ Screen!MoveAssign(u, v)
    PROVE  ScreenInv'
<1>1. /\ u # v /\ uis' = uis \cup {v} /\ u \in uis
      /\ ready' = [ready EXCEPT ![v] = ready[u], ![u] = FALSE]
  BY DEF Screen!MoveConstruct, Screen!MoveAssign
<1>2. PICK s : /\ lvgl' = Screen!Moved(s, u, v) /\ Agree(uis, s) /\ Empty(s, v)
               /\ \A x \in UIs : Empty(lvgl, x) => Empty(s, x)
  <2>1. CASE Screen!MoveConstruct(u, v)
    <3>1. v \notin uis /\ lvgl' = Screen!Moved(lvgl, u, v)
      BY <2>1 DEF Screen!MoveConstruct
    <3> QED BY <3>1 DEF ScreenInv, Agree, Empty
  <2>2. CASE Screen!MoveAssign(u, v)
    <3>1. lvgl' = Screen!Moved(Screen!CleanedUp(lvgl, v), u, v)
      BY <2>2 DEF Screen!MoveAssign
    <3> QED BY <3>1, CleanedUpAgrees DEF ScreenInv
  <2> QED BY <2>1, <2>2
<1>3. Agree(uis', s)
  BY <1>1, <1>2, AgreeWidens
<1>4. /\ Agree(uis', lvgl') /\ Empty(lvgl', u)
      /\ Empty(s, u) => Empty(lvgl', v)
      /\ \A x \in UIs \ {u, v} : Empty(s, x) => Empty(lvgl', x)
  BY <1>1, <1>2, <1>3, MovedAgrees
<1> QED BY <1>1, <1>2, <1>4 DEF ScreenInv

LEMMA ScreenNext == ASSUME ScreenInv, Screen!Next PROVE ScreenInv'
<1>1. CASE Screen!ConsumerDeletes
  <2>1. PICK ws : lvgl' = Screen!Deleted(lvgl, ws)
    BY <1>1 DEF Screen!ConsumerDeletes
  <2>2. /\ \A m \in Screen!Members : lvgl.member[m] = None => lvgl'.member[m] = None
        /\ Agree(uis, lvgl')
    BY <2>1, DeletedAgrees DEF ScreenInv
  <2> QED BY <1>1, <2>2 DEF ScreenInv, Empty, Screen!ConsumerDeletes
<1> QED BY <1>1, ScreenInitialize, ScreenCleanup, ScreenConstruct, ScreenMove DEF Screen!Next

(* However many boot screens are made, moved and destroyed, and whoever    *)
(* deletes their widgets: a member that is set points to a live widget     *)
(* that nulls exactly this member, and no widget is left on the screen.    *)
THEOREM MembersAgree == Spec => []MembersMatchScreen
<1>1. Init => ScreenInv
  BY ScreenInit DEF Init
<1>2. ScreenInv /\ [Next]_vars => ScreenInv'
  <2> SUFFICES ASSUME ScreenInv, [Next]_vars PROVE ScreenInv'
    OBVIOUS
  <2>1. CASE ScreenRuns
    BY <2>1, ScreenNext DEF ScreenRuns
  <2>2. CASE UNCHANGED screenVars
    BY <2>2 DEF screenVars, ScreenInv, Agree, ScreenType, Empty
  <2> QED BY <2>1, <2>2, OnePartRuns
<1>3. ScreenInv => MembersMatchScreen
  BY DEF ScreenInv, Agree, MembersMatchScreen, Screen!MembersMatchScreen, Screen!OnScreen
<1> QED BY <1>1, <1>2, <1>3, PTL DEF Spec

-----------------------------------------------------------------------------
(* The log's callback. *)

Places == {"swap", "unlock", "drop", "copy", "loaded", "run", "destroy", "catch"}
Frame == [op : {"log", "set", "unwind"}, at : Places, callback : Callbacks \cup {None}]

(* Where a frame holds its callback's shared_ptr.                          *)
Holds(f, c) == f.callback = c /\ f.at \in {"swap", "unlock", "drop", "run"}

Shape(f) ==
    /\ f.at \in {"copy", "loaded", "run"} => f.op = "log"
    /\ f.at \in {"swap", "unlock"} => f.op = "set"
    /\ f.at \in {"loaded", "run", "destroy"} => f.callback # None
    /\ f.at = "drop" /\ f.op # "set" => f.callback # None
    /\ f.op = "unwind" => f.at \in {"drop", "destroy", "catch"}
    /\ f.at = "catch" => f.op = "unwind"

(* The application's code runs in every frame but the last.                *)
StackType(s) ==
    /\ s \in Seq(Frame)
    /\ \A i \in 1..Len(s) : Shape(s[i]) /\ (i < Len(s) => s[i].at \in {"run", "destroy"})

StacksType ==
    /\ stack \in [Tasks -> Seq(Frame)]
    /\ \A t \in Tasks : StackType(stack[t])
    /\ inOutputCallback \in [Tasks -> BOOLEAN] /\ begun \in BOOLEAN
    /\ outputCallback \in Callbacks \cup {None}

(* What the three kinds of step make of a stack.                           *)
Pushed(t, f) == /\ stack' = [stack EXCEPT ![t] = Append(@, f)]
                /\ stack[t] # <<>> => Callback!Last(stack[t]).at \in {"run", "destroy"}
Replaced(t, f) == stack[t] # <<>> /\ stack' = [stack EXCEPT ![t] = Callback!Front(@) \o <<f>>]
Popped(t) == stack[t] # <<>> /\ stack' = [stack EXCEPT ![t] = Callback!Front(@)]

LEMMA FrontOfStack ==
    ASSUME NEW s \in Seq(Frame), s # <<>>
    PROVE  /\ Callback!Front(s) \in Seq(Frame) /\ Len(s) \in Nat \ {0}
           /\ Len(Callback!Front(s)) = Len(s) - 1
           /\ \A i \in 1..(Len(s) - 1) : Callback!Front(s)[i] = s[i]
           /\ Callback!Last(s) = s[Len(s)]
<1>1. Len(s) \in Nat \ {0} /\ \A i \in 1..Len(s) : s[i] \in Frame
  BY EmptySeq, LenProperties, ElementOfSeq
<1>2. \A i \in 1..(Len(s) - 1) : s[i] \in Frame
  BY <1>1
<1> DEFINE n == Len(s) - 1
<1>3. n \in Nat /\ \A i \in 1..n : s[i] \in Frame
  BY <1>1, <1>2
<1> HIDE DEF n
<1>4. /\ SubSeq(s, 1, n) \in Seq(Frame)
      /\ Len(SubSeq(s, 1, n)) = IF 1 <= n THEN n - 1 + 1 ELSE 0
      /\ \A i \in 1..(n - 1 + 1) : SubSeq(s, 1, n)[i] = s[1 + i - 1]
  BY <1>3, SubSeqProperties
<1>5. Len(SubSeq(s, 1, n)) = n /\ \A i \in 1..n : SubSeq(s, 1, n)[i] = s[i]
  BY <1>3, <1>4
<1> QED BY <1>1, <1>4, <1>5 DEF Callback!Front, Callback!Last, n

LEMMA Push ==
    ASSUME StacksType, NEW t \in Tasks, NEW f \in Frame, Shape(f), Pushed(t, f)
    PROVE  /\ stack' \in [Tasks -> Seq(Frame)] /\ \A u \in Tasks : StackType(stack'[u])
           /\ \A u \in Tasks \ {t} : stack'[u] = stack[u]
           /\ Len(stack[t]) \in Nat /\ Len(stack'[t]) = Len(stack[t]) + 1
           /\ stack'[t][Len(stack[t]) + 1] = f
           /\ \A i \in 1..Len(stack[t]) : stack'[t][i] = stack[t][i]
<1> DEFINE s == stack[t]
<1>1. s \in Seq(Frame) /\ StackType(s)
  BY DEF StacksType
<1>2. stack'[t] = Append(s, f) /\ \A u \in Tasks \ {t} : stack'[u] = stack[u]
  BY DEF Pushed, StacksType
<1>3. s # <<>> => Callback!Last(s).at \in {"run", "destroy"}
  BY DEF Pushed
<1> HIDE DEF s
<1>4. /\ Append(s, f) \in Seq(Frame) /\ Len(s) \in Nat /\ Len(Append(s, f)) = Len(s) + 1
      /\ Append(s, f)[Len(s) + 1] = f
      /\ \A i \in 1..Len(s) : Append(s, f)[i] = s[i]
  BY <1>1, AppendProperties, LenProperties
<1>5. StackType(Append(s, f))
  BY <1>1, <1>3, <1>4, FrontOfStack DEF StackType
<1>6. stack' \in [Tasks -> Seq(Frame)]
  BY <1>4 DEF StacksType, Pushed, s
<1> QED BY <1>2, <1>4, <1>5, <1>6 DEF StacksType, s

LEMMA Replace ==
    ASSUME StacksType, NEW t \in Tasks, NEW f \in Frame, Shape(f), Replaced(t, f)
    PROVE  /\ stack' \in [Tasks -> Seq(Frame)] /\ \A u \in Tasks : StackType(stack'[u])
           /\ \A u \in Tasks \ {t} : stack'[u] = stack[u]
           /\ Len(stack[t]) \in Nat \ {0} /\ Len(stack'[t]) = Len(stack[t])
           /\ stack'[t][Len(stack[t])] = f
           /\ \A i \in 1..(Len(stack[t]) - 1) : stack'[t][i] = stack[t][i]
<1> DEFINE s == stack[t]
           r == Callback!Front(s) \o <<f>>
<1>1. s \in Seq(Frame) /\ StackType(s) /\ s # <<>>
  BY DEF StacksType, Replaced
<1>2. stack'[t] = r /\ \A u \in Tasks \ {t} : stack'[u] = stack[u]
  BY DEF Replaced, StacksType
<1> HIDE DEF s
<1>3. <<f>> \in Seq(Frame) /\ Len(<<f>>) = 1 /\ <<f>>[1] = f
  OBVIOUS
<1>4. /\ r \in Seq(Frame) /\ Len(s) \in Nat \ {0} /\ Len(r) = Len(s) /\ r[Len(s)] = f
      /\ \A i \in 1..(Len(s) - 1) : r[i] = s[i]
  BY <1>1, <1>3, FrontOfStack, ConcatProperties
<1> HIDE DEF r
<1>5. StackType(r)
  BY <1>1, <1>4 DEF StackType
<1>6. stack' \in [Tasks -> Seq(Frame)]
  BY <1>4 DEF StacksType, Replaced, s, r
<1> QED BY <1>2, <1>4, <1>5, <1>6 DEF StacksType, s

LEMMA Pop ==
    ASSUME StacksType, NEW t \in Tasks, Popped(t)
    PROVE  /\ stack' \in [Tasks -> Seq(Frame)] /\ \A u \in Tasks : StackType(stack'[u])
           /\ \A u \in Tasks \ {t} : stack'[u] = stack[u]
           /\ Len(stack[t]) \in Nat \ {0} /\ Len(stack'[t]) = Len(stack[t]) - 1
           /\ \A i \in 1..(Len(stack[t]) - 1) : stack'[t][i] = stack[t][i]
<1> DEFINE s == stack[t]
<1>1. s \in Seq(Frame) /\ StackType(s) /\ s # <<>>
  BY DEF StacksType, Popped
<1>2. stack'[t] = Callback!Front(s) /\ \A u \in Tasks \ {t} : stack'[u] = stack[u]
  BY DEF Popped, StacksType
<1> HIDE DEF s
<1>3. StackType(Callback!Front(s))
  BY <1>1, FrontOfStack DEF StackType
<1>4. stack' \in [Tasks -> Seq(Frame)]
  BY <1>1, FrontOfStack DEF StacksType, Popped, s
<1> QED BY <1>1, <1>2, <1>3, <1>4, FrontOfStack DEF StacksType, s

(* The frames that hold a callback, and what its count should be.          *)
Refs(c) == {p \in Tasks \X Nat : p[2] \in 1..Len(stack[p[1]]) /\ Holds(stack[p[1]][p[2]], c)}
One(b) == IF b THEN 1 ELSE 0

(* Only the last frame of one task changes: the count of references        *)
(* changes by what the old one held and what the new one holds.            *)
LEMMA TopRefs ==
    ASSUME NEW t \in Tasks, NEW n \in Nat, NEW c,
           \A u \in Tasks \ {t} : stack'[u] = stack[u],
           \A i \in Nat \ {n} : /\ i \in 1..Len(stack'[t]) <=> i \in 1..Len(stack[t])
                                /\ i \in 1..Len(stack[t]) => stack'[t][i] = stack[t][i],
           IsFiniteSet(Refs(c))
    PROVE  /\ IsFiniteSet(Refs(c)')
           /\ Cardinality(Refs(c)) \in Nat /\ Cardinality(Refs(c)') \in Nat
           /\ Cardinality(Refs(c)') + One(<<t, n>> \in Refs(c)) = Cardinality(Refs(c)) + One(<<t, n>> \in Refs(c)')
<1> DEFINE p == <<t, n>>
<1>1. p \in Tasks \X Nat
  OBVIOUS
<1>2. ASSUME NEW q \in Tasks \X Nat, q # p PROVE q \in Refs(c)' <=> q \in Refs(c)
  <2>1. CASE q[1] = t
    <3>1. q[2] \in Nat \ {n}
      BY <1>2, <2>1
    <3> QED BY <2>1, <3>1 DEF Refs
  <2>2. CASE q[1] # t
    BY <2>2 DEF Refs
  <2> QED BY <2>1, <2>2
<1>3. Refs(c) \subseteq Tasks \X Nat /\ Refs(c)' \subseteq Tasks \X Nat
  BY DEF Refs
<1> DEFINE others == Refs(c) \ {p}
           Refs2 == Refs(c)'
<1>4. Refs2 \ {p} = others
  BY <1>2, <1>3
<1>5. IsFiniteSet(others) /\ Cardinality(others) \in Nat
  BY FS_Difference, FS_CardinalityType
<1>6. p \notin others
  OBVIOUS
<1>7. ASSUME NEW S, S \ {p} = others
      PROVE  IsFiniteSet(S) /\ Cardinality(S) = Cardinality(others) + One(p \in S)
  <2> HIDE DEF others, p
  <2>1. CASE p \in S
    <3>1. S = others \cup {p}
      BY <1>7, <2>1
    <3> QED BY <1>5, <1>6, <2>1, <3>1, FS_AddElement DEF One
  <2>2. CASE p \notin S
    <3>1. S = others
      BY <1>7, <2>2
    <3> QED BY <1>5, <2>2, <3>1 DEF One
  <2> QED BY <2>1, <2>2
<1>8. IsFiniteSet(Refs2) /\ Cardinality(Refs2) = Cardinality(others) + One(p \in Refs2)
  BY <1>4, <1>7
<1>9. Cardinality(Refs(c)) = Cardinality(others) + One(p \in Refs(c))
  BY <1>7
<1>10. One(p \in Refs(c)) \in Nat /\ One(p \in Refs2) \in Nat
  BY DEF One
<1> QED
  <2> HIDE DEF others, Refs2, p
  <2>1. Cardinality(Refs2) + One(p \in Refs(c)) = Cardinality(Refs(c)) + One(p \in Refs2)
    BY <1>5, <1>8, <1>9, <1>10
  <2> QED BY <1>5, <1>8, <1>9, <1>10, <2>1 DEF Refs2, p

LEMMA PushRefs ==
    ASSUME StacksType, NEW t \in Tasks, NEW f \in Frame, Shape(f), Pushed(t, f), NEW c, IsFiniteSet(Refs(c))
    PROVE  /\ IsFiniteSet(Refs(c)')
           /\ Cardinality(Refs(c)) \in Nat
           /\ Cardinality(Refs(c)') = Cardinality(Refs(c)) + One(Holds(f, c))
<1> DEFINE n == Len(stack[t]) + 1
<1>1. /\ \A u \in Tasks \ {t} : stack'[u] = stack[u]
      /\ n \in Nat /\ n - 1 \in Nat /\ Len(stack[t]) = n - 1 /\ Len(stack'[t]) = n /\ stack'[t][n] = f
      /\ \A i \in 1..(n - 1) : stack'[t][i] = stack[t][i]
  BY Push
<1> HIDE DEF n
<1>2. \A i \in Nat \ {n} : /\ i \in 1..Len(stack'[t]) <=> i \in 1..Len(stack[t])
                           /\ i \in 1..Len(stack[t]) => stack'[t][i] = stack[t][i]
  BY <1>1
<1>3. <<t, n>> \notin Refs(c) /\ (<<t, n>> \in Refs(c)' <=> Holds(f, c))
  BY <1>1 DEF Refs
<1> QED BY <1>1, <1>2, <1>3, TopRefs DEF One

LEMMA ReplaceRefs ==
    ASSUME StacksType, NEW t \in Tasks, NEW f \in Frame, Shape(f), Replaced(t, f), NEW c, IsFiniteSet(Refs(c))
    PROVE  /\ IsFiniteSet(Refs(c)')
           /\ Cardinality(Refs(c)) \in Nat /\ Cardinality(Refs(c)') \in Nat
           /\ Cardinality(Refs(c)') + One(Holds(Callback!Top(t), c)) = Cardinality(Refs(c)) + One(Holds(f, c))
<1> DEFINE n == Len(stack[t])
<1>1. /\ \A u \in Tasks \ {t} : stack'[u] = stack[u]
      /\ n \in Nat \ {0} /\ Len(stack[t]) = n /\ Len(stack'[t]) = n /\ stack'[t][n] = f
      /\ \A i \in 1..(n - 1) : stack'[t][i] = stack[t][i]
  BY Replace
<1>2. Callback!Top(t) = stack[t][n]
  BY FrontOfStack DEF Callback!Top, Replaced, StacksType
<1> HIDE DEF n
<1>3. \A i \in Nat \ {n} : /\ i \in 1..Len(stack'[t]) <=> i \in 1..Len(stack[t])
                           /\ i \in 1..Len(stack[t]) => stack'[t][i] = stack[t][i]
  BY <1>1
<1>4. (<<t, n>> \in Refs(c) <=> Holds(Callback!Top(t), c)) /\ (<<t, n>> \in Refs(c)' <=> Holds(f, c))
  BY <1>1, <1>2 DEF Refs
<1> QED BY <1>1, <1>3, <1>4, TopRefs DEF One

LEMMA PopRefs ==
    ASSUME StacksType, NEW t \in Tasks, Popped(t), NEW c, IsFiniteSet(Refs(c))
    PROVE  /\ IsFiniteSet(Refs(c)')
           /\ Cardinality(Refs(c)) \in Nat /\ Cardinality(Refs(c)') \in Nat
           /\ Cardinality(Refs(c)') + One(Holds(Callback!Top(t), c)) = Cardinality(Refs(c))
<1> DEFINE n == Len(stack[t])
<1>1. /\ \A u \in Tasks \ {t} : stack'[u] = stack[u]
      /\ n \in Nat \ {0} /\ Len(stack[t]) = n /\ Len(stack'[t]) = n - 1
      /\ \A i \in 1..(n - 1) : stack'[t][i] = stack[t][i]
  BY Pop
<1>2. Callback!Top(t) = stack[t][n]
  BY FrontOfStack DEF Callback!Top, Popped, StacksType
<1> HIDE DEF n
<1>3. \A i \in Nat \ {n} : /\ i \in 1..Len(stack'[t]) <=> i \in 1..Len(stack[t])
                           /\ i \in 1..Len(stack[t]) => stack'[t][i] = stack[t][i]
  BY <1>1
<1>4. (<<t, n>> \in Refs(c) <=> Holds(Callback!Top(t), c)) /\ <<t, n>> \notin Refs(c)'
  BY <1>1, <1>2 DEF Refs
<1> QED BY <1>1, <1>3, <1>4, TopRefs DEF One

-----------------------------------------------------------------------------
(* What each step of the log's callback does to the stack of its task.     *)
F(op, at, c) == [op |-> op, at |-> at, callback |-> c]

LEMMA TopOfStack ==
    ASSUME StacksType, NEW t \in Tasks, stack[t] # <<>>
    PROVE  /\ Len(stack[t]) \in Nat \ {0} /\ Callback!Top(t) = stack[t][Len(stack[t])]
           /\ Callback!Top(t) \in Frame /\ Shape(Callback!Top(t))
<1>1. stack[t] \in Seq(Frame) /\ StackType(stack[t])
  BY DEF StacksType
<1>2. Len(stack[t]) \in Nat \ {0} /\ Callback!Top(t) = stack[t][Len(stack[t])]
  BY <1>1, FrontOfStack DEF Callback!Top
<1>3. Len(stack[t]) \in 1..Len(stack[t])
  BY <1>2
<1> QED BY <1>1, <1>2, <1>3, ElementOfSeq DEF StackType

LEMMA PushSteps ==
    ASSUME NEW t \in Tasks, NEW c \in Callbacks \cup {None}
    PROVE  /\ Callback!Log(t) => Pushed(t, F("log", "copy", None))
           /\ Callback!setOutputCallback(t, c) => Pushed(t, F("set", "swap", c))
BY DEF Callback!Log, Callback!setOutputCallback, Callback!Call, Callback!Outside, Callback!Top, Pushed, F

LEMMA GoReplaces ==
    ASSUME NEW t \in Tasks, NEW at, NEW c, stack[t] # <<>>, Callback!Go(t, at, c)
    PROVE  Replaced(t, F(Callback!Top(t).op, at, c))
BY DEF Callback!Go, Replaced, F

LEMMA ReplaceSteps ==
    ASSUME NEW t \in Tasks
    PROVE  /\ Callback!Swap(t) => Replaced(t, F("set", "unlock", outputCallback))
           /\ Callback!Unlock(t) => Replaced(t, F("set", "drop", Callback!Top(t).callback))
           /\ Callback!CopyCallback(t) => Replaced(t, F("log", "run", outputCallback))
           /\ Callback!LoadCallback(t) => Replaced(t, F("log", "loaded", outputCallback))
           /\ Callback!HoldCallback(t) => Replaced(t, F("log", "run", Callback!Top(t).callback))
           /\ Callback!CallbackReturns(t) => Replaced(t, F("log", "drop", Callback!Top(t).callback))
           /\ Callback!CallbackThrows(t) => Replaced(t, F("unwind", "drop", Callback!Top(t).callback))
<1>1. Callback!LeaveOrder[1] = "unlock" /\ Callback!After("set", "unlock") = "drop"
  BY DEF Callback!LeaveOrder, Callback!After
<1>2. ASSUME Callback!Swap(t) PROVE Replaced(t, F("set", "unlock", outputCallback))
  BY <1>1, <1>2, GoReplaces DEF Callback!Swap, Callback!At
<1>3. ASSUME Callback!Unlock(t) PROVE Replaced(t, F("set", "drop", Callback!Top(t).callback))
  BY <1>1, <1>3, GoReplaces DEF Callback!Unlock, Callback!Leave, Callback!At
<1>4. ASSUME Callback!CopyCallback(t) PROVE Replaced(t, F("log", "run", outputCallback))
  BY <1>4, GoReplaces DEF Callback!CopyCallback, Callback!Enter, Callback!At
<1>5. ASSUME Callback!LoadCallback(t) PROVE Replaced(t, F("log", "loaded", outputCallback))
  BY <1>5, GoReplaces DEF Callback!LoadCallback, Callback!At
<1>6. ASSUME Callback!HoldCallback(t) PROVE Replaced(t, F("log", "run", Callback!Top(t).callback))
  BY <1>6, GoReplaces DEF Callback!HoldCallback, Callback!Enter, Callback!At
<1>7. ASSUME Callback!CallbackReturns(t) PROVE Replaced(t, F("log", "drop", Callback!Top(t).callback))
  BY <1>7, GoReplaces DEF Callback!CallbackReturns, Callback!At
<1>8. ASSUME Callback!CallbackThrows(t) PROVE Replaced(t, F("unwind", "drop", Callback!Top(t).callback))
  BY <1>8 DEF Callback!CallbackThrows, Callback!At, Replaced, F
<1> QED BY <1>2, <1>3, <1>4, <1>5, <1>6, <1>7, <1>8

(* The copy is gone: the call ends, or the exception comes to the catch.   *)
Caught == F("unwind", "catch", None)
Ended(t) == IF Callback!Top(t).op = "unwind" THEN Replaced(t, Caught) ELSE Popped(t)

LEMMA PopSteps ==
    ASSUME NEW t \in Tasks
    PROVE  /\ Callback!DropNothing(t) => Popped(t)
           /\ Callback!NoCallback(t) => Popped(t)
           /\ Callback!Catch(t) => Popped(t)
           /\ Callback!Destroyed(t) => Ended(t)
           /\ Callback!Drop(t) => IF count'[Callback!Top(t).callback] = 0
                                  THEN Replaced(t, F(Callback!Top(t).op, "destroy", Callback!Top(t).callback))
                                  ELSE Ended(t)
<1>1. /\ Callback!After("unwind", "drop") = "catch"
      /\ \A op : op # "unwind" => Callback!After(op, "drop") = "end"
  BY DEF Callback!LeaveOrder, Callback!After
<1>2. Callback!DropNothing(t) => Popped(t)
  BY <1>1 DEF Callback!DropNothing, Callback!Leave, Callback!Return, Callback!At, Popped
<1>3. Callback!NoCallback(t) => Popped(t)
  BY DEF Callback!NoCallback, Callback!Return, Callback!At, Popped
<1>c. Callback!Catch(t) => Popped(t)
  BY DEF Callback!Catch, Callback!Return, Callback!At, Popped
<1>l. ASSUME stack[t] # <<>>, Callback!Leave(t, "drop", None) PROVE Ended(t)
  <2>1. CASE Callback!Top(t).op = "unwind"
    BY <1>1, <1>l, <2>1, GoReplaces DEF Callback!Leave, Ended, Caught
  <2>2. CASE Callback!Top(t).op # "unwind"
    BY <1>1, <1>l, <2>2 DEF Callback!Leave, Callback!Return, Ended, Popped
  <2> QED BY <2>1, <2>2
<1>4. Callback!Destroyed(t) => Ended(t)
  BY <1>l DEF Callback!Destroyed
<1>5. ASSUME Callback!Drop(t), count'[Callback!Top(t).callback] = 0
      PROVE  Replaced(t, F(Callback!Top(t).op, "destroy", Callback!Top(t).callback))
  BY <1>5, GoReplaces DEF Callback!Drop
<1>6. ASSUME Callback!Drop(t), count'[Callback!Top(t).callback] # 0 PROVE Ended(t)
  BY <1>l, <1>6 DEF Callback!Drop
<1> QED BY <1>2, <1>3, <1>c, <1>4, <1>5, <1>6

-----------------------------------------------------------------------------
(* The stacks keep their type. *)

LEMMA NewFrames ==
    ASSUME StacksType, NEW t \in Tasks, NEW c \in Callbacks \cup {None}
    PROVE  /\ F("log", "copy", None) \in Frame /\ Shape(F("log", "copy", None))
           /\ F("set", "swap", c) \in Frame /\ Shape(F("set", "swap", c))
           /\ F("set", "unlock", c) \in Frame /\ Shape(F("set", "unlock", c))
           /\ F("set", "drop", c) \in Frame /\ Shape(F("set", "drop", c))
           /\ Caught \in Frame /\ Shape(Caught)
           /\ c # None => /\ F("log", "run", c) \in Frame /\ Shape(F("log", "run", c))
                          /\ F("log", "loaded", c) \in Frame /\ Shape(F("log", "loaded", c))
                          /\ F("log", "drop", c) \in Frame /\ Shape(F("log", "drop", c))
                          /\ F("unwind", "drop", c) \in Frame /\ Shape(F("unwind", "drop", c))
                          /\ \A op \in {"log", "set", "unwind"} :
                                 F(op, "destroy", c) \in Frame /\ Shape(F(op, "destroy", c))
BY DEF Caught, F, Frame, Places, Shape

CallbackSteps(t) ==
    \/ Callback!begin(t)
    \/ Callback!Log(t) \/ \E c \in Callbacks \cup {None} : Callback!setOutputCallback(t, c)
    \/ /\ \/ Callback!NoCallback(t) \/ Callback!CopyCallback(t) \/ Callback!LoadCallback(t)
          \/ Callback!HoldCallback(t) \/ Callback!CallbackReturns(t) \/ Callback!CallbackThrows(t) \/ Callback!Catch(t)
          \/ Callback!Swap(t) \/ Callback!Unlock(t) \/ Callback!DropNothing(t)
          \/ Callback!Drop(t) \/ Callback!Destroyed(t)
       /\ UNCHANGED begun

LEMMA OneTaskSteps ==
    ASSUME Callback!Next
    PROVE  \E t \in Tasks : CallbackSteps(t)
BY DEF Callback!Next, Callback!addEntry, CallbackSteps

LEMMA CallbackFrames ==
    ASSUME StacksType, NEW t \in Tasks
    PROVE  /\ Callback!Swap(t) => outputCallback \in Callbacks \cup {None}
           /\ Callback!Unlock(t) => /\ Callback!Top(t).callback \in Callbacks \cup {None}
                                    /\ stack[t] # <<>> /\ Callback!Top(t).at = "unlock"
           /\ Callback!CopyCallback(t) => outputCallback \in Callbacks /\ outputCallback # None
           /\ Callback!LoadCallback(t) => outputCallback \in Callbacks /\ outputCallback # None
           /\ Callback!HoldCallback(t) => /\ Callback!Top(t).callback \in Callbacks /\ Callback!Top(t).callback # None
                                          /\ stack[t] # <<>> /\ Callback!Top(t).at = "loaded"
           /\ Callback!CallbackReturns(t) \/ Callback!CallbackThrows(t) =>
                  /\ Callback!Top(t).callback \in Callbacks /\ Callback!Top(t).callback # None
                  /\ stack[t] # <<>> /\ Callback!Top(t).at = "run" /\ Callback!Top(t).op = "log"
           /\ Callback!Catch(t) => stack[t] # <<>> /\ Callback!Top(t).op = "unwind" /\ Callback!Top(t).at = "catch"
           /\ Callback!Drop(t) => /\ Callback!Top(t).callback \in Callbacks /\ Callback!Top(t).callback # None
                                  /\ Callback!Top(t).op \in {"log", "set", "unwind"}
                                  /\ stack[t] # <<>> /\ Callback!Top(t).at = "drop"
           /\ Callback!Destroyed(t) => /\ Callback!Top(t).callback \in Callbacks /\ Callback!Top(t).callback # None
                                       /\ stack[t] # <<>> /\ Callback!Top(t).at = "destroy"
<1>1. stack[t] # <<>> => Callback!Top(t) \in Frame /\ Shape(Callback!Top(t))
  BY TopOfStack
<1>2. outputCallback \in Callbacks \cup {None}
  BY DEF StacksType
<1> QED BY <1>1, <1>2 DEF Callback!Swap, Callback!Unlock, Callback!CopyCallback, Callback!CopyLocked,
           Callback!LoadCallback, Callback!HoldCallback, Callback!CallbackReturns, Callback!CallbackThrows, Callback!Catch,
           Callback!Drop, Callback!Destroyed, Callback!At, Frame, Shape

(* Every step pushes, replaces or pops one well-formed frame, begin() none.*)
LEMMA StepKinds ==
    ASSUME StacksType, NEW t \in Tasks, CallbackSteps(t)
    PROVE  \/ UNCHANGED stack
           \/ \E f \in Frame : Shape(f) /\ (Pushed(t, f) \/ Replaced(t, f))
           \/ Popped(t)
<1>1. CASE Callback!begin(t)
  BY <1>1 DEF Callback!begin
<1>2. CASE Callback!Log(t) \/ \E c \in Callbacks \cup {None} : Callback!setOutputCallback(t, c)
  BY <1>2, PushSteps, NewFrames
<1>3. CASE Callback!NoCallback(t) \/ Callback!DropNothing(t) \/ Callback!Catch(t)
  BY <1>3, PopSteps
<1>e. ASSUME Ended(t)
      PROVE  (\E f \in Frame : Shape(f) /\ Replaced(t, f)) \/ Popped(t)
  BY <1>e, NewFrames DEF Ended
<1>d. CASE Callback!Destroyed(t)
  BY <1>d, <1>e, PopSteps
<1>4. CASE Callback!CopyCallback(t) \/ Callback!LoadCallback(t)
  BY <1>4, ReplaceSteps, CallbackFrames, NewFrames
<1>5. CASE Callback!HoldCallback(t) \/ Callback!CallbackReturns(t) \/ Callback!CallbackThrows(t)
  BY <1>5, ReplaceSteps, CallbackFrames, NewFrames
<1>6. CASE Callback!Swap(t) \/ Callback!Unlock(t)
  BY <1>6, ReplaceSteps, CallbackFrames, NewFrames
<1>7. CASE Callback!Drop(t)
  <2>1. CASE count'[Callback!Top(t).callback] = 0
    BY <1>7, <2>1, PopSteps, CallbackFrames, NewFrames
  <2>2. CASE count'[Callback!Top(t).callback] # 0
    BY <1>7, <2>2, <1>e, PopSteps
  <2> QED BY <2>1, <2>2
<1> QED BY <1>1, <1>2, <1>3, <1>d, <1>4, <1>5, <1>6, <1>7 DEF CallbackSteps

LEMMA StacksKeepType ==
    ASSUME StacksType, NEW t \in Tasks, CallbackSteps(t)
    PROVE  StacksType'
<1>1. stack' \in [Tasks -> Seq(Frame)] /\ \A u \in Tasks : StackType(stack'[u])
  BY StepKinds, Push, Replace, Pop DEF StacksType
<1>2. begun' \in BOOLEAN
  BY DEF StacksType, CallbackSteps, Callback!begin, Callback!Log, Callback!setOutputCallback, Callback!Call
<1>3. inOutputCallback' \in [Tasks -> BOOLEAN]
  BY DEF StacksType, CallbackSteps, Callback!begin, Callback!Log, Callback!setOutputCallback, Callback!NoCallback,
         Callback!CopyCallback, Callback!LoadCallback, Callback!HoldCallback, Callback!CallbackReturns, Callback!CallbackThrows, Callback!Catch,
         Callback!Enter, Callback!Cleared, Callback!Swap, Callback!Unlock, Callback!DropNothing, Callback!Drop, Callback!Destroyed
<1>4. outputCallback' \in Callbacks \cup {None}
  <2>1. CASE Callback!Swap(t)
    BY <2>1, TopOfStack DEF Callback!Swap, Callback!At, Frame
  <2>2. CASE ~Callback!Swap(t)
    BY <2>2 DEF StacksType, CallbackSteps, Callback!begin, Callback!Log, Callback!setOutputCallback, Callback!NoCallback,
           Callback!CopyCallback, Callback!LoadCallback, Callback!HoldCallback, Callback!CallbackReturns, Callback!CallbackThrows, Callback!Catch,
           Callback!Unlock, Callback!DropNothing, Callback!Drop, Callback!Destroyed
  <2> QED BY <2>1, <2>2
<1> QED BY <1>1, <1>2, <1>3, <1>4 DEF StacksType

-----------------------------------------------------------------------------
(* No task runs two callbacks, or waits for a mutex that it holds. *)

(* Before begin() there is one task, and a pointer it loaded is current.   *)
EarlyInv == \A t \in Tasks :
    /\ stack[t] # <<>> /\ ~begun => t \in EarlyTasks
    /\ \A i \in 1..Len(stack[t]) : stack[t][i].at = "loaded" => ~begun /\ stack[t][i].callback = outputCallback

(* inOutputCallback is TRUE while a callback runs, or is left by an        *)
(* exception, and one is at most.                                          *)
Inside(t) == Callback!Running(t) \cup Callback!Unwinding(t)
Within(f) == f.at = "run" \/ f.op = "unwind"

RunInv == \A t \in Tasks :
    /\ \A i, j \in Inside(t) : i = j
    /\ inOutputCallback[t] <=> Inside(t) # {}
    /\ \A i \in 1..Len(stack[t]) : stack[t][i].at = "loaded" => ~inOutputCallback[t]

(* Who holds the mutex is about to give it back.                           *)
MutexInv == holder # None => begun /\ holder \in Tasks /\ Callback!At(holder, "set", "unlock")

LEMMA InsideAfter ==
    ASSUME StacksType, NEW t \in Tasks
    PROVE  /\ \A f \in Frame : Pushed(t, f) /\ Shape(f) /\ ~Within(f) => Inside(t)' = Inside(t)
           /\ \A f \in Frame : Replaced(t, f) /\ Shape(f) /\ ~Within(f) => Inside(t)' = Inside(t) \ {Len(stack[t])}
           /\ \A f \in Frame : Replaced(t, f) /\ Shape(f) /\ Within(f) => Inside(t)' = Inside(t) \cup {Len(stack[t])}
           /\ Popped(t) => Inside(t)' = Inside(t) \ {Len(stack[t])}
<1>0. /\ StackType(stack[t]) /\ \A i \in 1..Len(stack[t]) : Shape(stack[t][i])
      /\ DOMAIN stack[t] = 1..Len(stack[t]) /\ Len(stack[t]) \in Nat
  BY LenProperties DEF StacksType, StackType
<1>1. Inside(t) = {i \in 1..Len(stack[t]) : Within(stack[t][i])}
  BY <1>0 DEF Inside, Within, Shape, Callback!Running, Callback!Unwinding
<1>n. ASSUME stack'[t] \in Seq(Frame), StackType(stack'[t])
      PROVE  Inside(t)' = {i \in 1..Len(stack'[t]) : Within(stack'[t][i])}
  <2>1. DOMAIN stack'[t] = 1..Len(stack'[t]) /\ \A i \in 1..Len(stack'[t]) : Shape(stack'[t][i])
    BY <1>n, LenProperties DEF StackType
  <2> QED BY <2>1 DEF Inside, Within, Shape, Callback!Running, Callback!Unwinding
<1>2. ASSUME NEW f \in Frame, Pushed(t, f), Shape(f), ~Within(f)
      PROVE  Inside(t)' = Inside(t)
  <2>1. /\ Len(stack'[t]) = Len(stack[t]) + 1 /\ stack'[t][Len(stack[t]) + 1] = f
        /\ \A i \in 1..Len(stack[t]) : stack'[t][i] = stack[t][i]
        /\ Inside(t)' = {i \in 1..Len(stack'[t]) : Within(stack'[t][i])}
    BY <1>2, <1>n, Push
  <2> QED BY <1>0, <1>1, <1>2, <2>1
<1>3. ASSUME NEW f \in Frame, Replaced(t, f), Shape(f)
      PROVE  /\ Len(stack'[t]) = Len(stack[t]) /\ stack'[t][Len(stack[t])] = f
             /\ \A i \in 1..(Len(stack[t]) - 1) : stack'[t][i] = stack[t][i]
             /\ Len(stack[t]) \in Nat \ {0}
             /\ Inside(t)' = {i \in 1..Len(stack'[t]) : Within(stack'[t][i])}
  BY <1>3, <1>n, Replace
<1>4. ASSUME NEW f \in Frame, Replaced(t, f), Shape(f), ~Within(f)
      PROVE  Inside(t)' = Inside(t) \ {Len(stack[t])}
  BY <1>1, <1>3, <1>4
<1>5. ASSUME NEW f \in Frame, Replaced(t, f), Shape(f), Within(f)
      PROVE  Inside(t)' = Inside(t) \cup {Len(stack[t])}
  BY <1>1, <1>3, <1>5
<1>6. ASSUME Popped(t) PROVE Inside(t)' = Inside(t) \ {Len(stack[t])}
  <2>1. /\ Len(stack'[t]) = Len(stack[t]) - 1 /\ Len(stack[t]) \in Nat \ {0}
        /\ \A i \in 1..(Len(stack[t]) - 1) : stack'[t][i] = stack[t][i]
        /\ Inside(t)' = {i \in 1..Len(stack'[t]) : Within(stack'[t][i])}
    BY <1>6, <1>n, Pop
  <2> QED BY <1>1, <2>1
<1> QED BY <1>2, <1>4, <1>5, <1>6

(* A step leaves the other tasks alone.                                    *)
LEMMA OthersUnchanged ==
    ASSUME StacksType, NEW t \in Tasks, CallbackSteps(t), NEW u \in Tasks \ {t}
    PROVE  stack'[u] = stack[u] /\ inOutputCallback'[u] = inOutputCallback[u]
<1>1. stack'[u] = stack[u]
  BY StepKinds, Push, Replace, Pop DEF StacksType
<1>2. inOutputCallback'[u] = inOutputCallback[u]
  BY DEF StacksType, CallbackSteps, Callback!begin, Callback!Log, Callback!setOutputCallback, Callback!NoCallback,
         Callback!CopyCallback, Callback!LoadCallback, Callback!HoldCallback, Callback!CallbackReturns, Callback!CallbackThrows, Callback!Catch,
         Callback!Enter, Callback!Cleared, Callback!Swap, Callback!Unlock, Callback!DropNothing, Callback!Drop, Callback!Destroyed
<1> QED BY <1>1, <1>2

(* A step that makes no frame "loaded" keeps those there are, of which the *)
(* last frame alone can be one.                                            *)
LEMMA LoadedAfter ==
    ASSUME StacksType, NEW t \in Tasks, CallbackSteps(t), ~Callback!LoadCallback(t),
           NEW i \in 1..Len(stack'[t]), stack'[t][i].at = "loaded"
    PROVE  UNCHANGED stack /\ Callback!begin(t)
<1>1. CASE Callback!begin(t)
  BY <1>1 DEF Callback!begin
<1>2. ASSUME ~Callback!begin(t) PROVE FALSE
  <2>1. StackType(stack'[t]) /\ StackType(stack[t]) /\ Len(stack[t]) \in Nat /\ Len(stack'[t]) \in Nat
    BY StacksKeepType, LenProperties DEF StacksType
  <2>2. i = Len(stack'[t])
    BY <2>1 DEF StackType
  <2>3. ASSUME NEW f \in Frame, Shape(f), Pushed(t, f) \/ Replaced(t, f), f.at # "loaded" PROVE FALSE
    BY <2>2, <2>3, Push, Replace
  <2>4. ASSUME Popped(t) PROVE FALSE
    <3>1. Len(stack'[t]) = Len(stack[t]) - 1 /\ stack'[t][i] = stack[t][i]
      BY <2>2, <2>4, Pop, <2>1
    <3>2. i \in 1..Len(stack[t]) /\ i < Len(stack[t])
      BY <2>1, <2>2, <3>1
    <3>3. stack[t][i].at \in {"run", "destroy"}
      BY <2>1, <3>2 DEF StackType
    <3> QED BY <3>1, <3>3
  <2>5. CASE Callback!Log(t) \/ \E c \in Callbacks \cup {None} : Callback!setOutputCallback(t, c)
    BY <2>3, <2>5, PushSteps, NewFrames DEF F
  <2>6. CASE Callback!NoCallback(t) \/ Callback!DropNothing(t) \/ Callback!Catch(t)
    BY <2>4, <2>6, PopSteps
  <2>e. ASSUME Ended(t) PROVE FALSE
    BY <2>e, <2>3, <2>4, NewFrames DEF Ended, Caught, F
  <2>d. CASE Callback!Destroyed(t)
    BY <2>d, <2>e, PopSteps
  <2>7. CASE \/ Callback!CopyCallback(t) \/ Callback!HoldCallback(t)
             \/ Callback!CallbackReturns(t) \/ Callback!CallbackThrows(t)
    BY <2>3, <2>7, ReplaceSteps, CallbackFrames, NewFrames DEF F
  <2>8. CASE Callback!Swap(t) \/ Callback!Unlock(t)
    BY <2>3, <2>8, ReplaceSteps, CallbackFrames, NewFrames DEF F
  <2>9. CASE Callback!Drop(t)
    <3>1. CASE count'[Callback!Top(t).callback] = 0
      BY <2>3, <2>9, <3>1, PopSteps, CallbackFrames, NewFrames DEF F
    <3>2. CASE count'[Callback!Top(t).callback] # 0
      BY <2>9, <2>e, <3>2, PopSteps
    <3> QED BY <3>1, <3>2
  <2> QED BY <1>2, <2>5, <2>6, <2>d, <2>7, <2>8, <2>9 DEF CallbackSteps
<1> QED BY <1>1, <1>2

LEMMA BegunStays ==
    ASSUME NEW t \in Tasks, CallbackSteps(t)
    PROVE  begun' = begun \/ (begun' = TRUE /\ Callback!begin(t))
<1>1. CASE Callback!begin(t)
  BY <1>1 DEF Callback!begin
<1>2. CASE Callback!Log(t) \/ \E c \in Callbacks \cup {None} : Callback!setOutputCallback(t, c)
  BY <1>2 DEF Callback!Log, Callback!setOutputCallback, Callback!Call
<1> QED BY <1>1, <1>2 DEF CallbackSteps

LEMMA EarlyStep ==
    ASSUME \A s, u \in EarlyTasks : s = u,
           StacksType, EarlyInv, NEW t \in Tasks, CallbackSteps(t)
    PROVE  EarlyInv'
<1>1. StacksType'
  BY StacksKeepType
<1>2. ASSUME NEW u \in Tasks, stack'[u] # <<>>, ~begun' PROVE u \in EarlyTasks
  <2>1. ~begun
    BY <1>2, BegunStays
  <2>2. CASE u # t
    BY <1>2, <2>1, <2>2, OthersUnchanged DEF EarlyInv
  <2>3. CASE u = t /\ stack[t] # <<>>
    BY <2>1, <2>3 DEF EarlyInv
  <2>4. CASE u = t /\ stack[t] = <<>>
    <3>2. Callback!begin(t) \/ Callback!Log(t) \/ \E c \in Callbacks \cup {None} : Callback!setOutputCallback(t, c)
      BY <2>4 DEF CallbackSteps, Callback!NoCallback, Callback!CopyCallback, Callback!LoadCallback,
             Callback!HoldCallback, Callback!CallbackReturns, Callback!CallbackThrows, Callback!Catch, Callback!Swap, Callback!Unlock, Callback!DropNothing,
             Callback!Drop, Callback!Destroyed, Callback!At
    <3> QED BY <1>2, <2>1, <2>4, <3>2 DEF Callback!begin, Callback!Log, Callback!setOutputCallback, Callback!Call
  <2> QED BY <2>2, <2>3, <2>4
<1>3. ASSUME NEW u \in Tasks, NEW i \in 1..Len(stack'[u]), stack'[u][i].at = "loaded"
      PROVE  ~begun' /\ stack'[u][i].callback = outputCallback'
  <2>1. CASE u = t /\ Callback!LoadCallback(t)
    <3>1. Replaced(t, F("log", "loaded", outputCallback)) /\ outputCallback \in Callbacks /\ outputCallback # None
      BY <2>1, ReplaceSteps, CallbackFrames
    <3>2. Len(stack[t]) \in Nat \ {0} /\ Len(stack'[t]) = Len(stack[t])
          /\ stack'[t][Len(stack[t])] = F("log", "loaded", outputCallback)
      BY <3>1, NewFrames, Replace
    <3>3. i = Len(stack'[t])
      <4>1. StackType(stack'[t]) /\ Len(stack'[t]) \in Nat /\ i \in 1..Len(stack'[t])
        BY <1>1, <1>3, <2>1, <3>2 DEF StacksType
      <4> QED BY <1>3, <2>1, <4>1 DEF StackType
    <3>4. ~begun /\ ~Callback!begin(t) /\ UNCHANGED outputCallback
      BY <2>1 DEF Callback!LoadCallback, Callback!begin, Callback!Outside, Callback!At
    <3>5. ~begun'
      BY <3>4, BegunStays
    <3> QED BY <2>1, <3>2, <3>3, <3>4, <3>5 DEF F
  <2>2. CASE u = t /\ ~Callback!LoadCallback(t)
    <3>1. UNCHANGED stack /\ Callback!begin(t)
      BY <1>3, <2>2, LoadedAfter
    <3>2. StackType(stack[t]) /\ Len(stack[t]) \in Nat
      BY LenProperties DEF StacksType
    <3>3. i = Len(stack[t]) /\ stack[t][i].at = "loaded"
      BY <1>3, <2>2, <3>1, <3>2 DEF StackType
    <3>4. stack[t] # <<>> /\ Callback!Top(t).at = "loaded"
      BY <1>3, <3>2, <3>3, TopOfStack, EmptySeq
    <3> QED BY <3>1, <3>4 DEF Callback!begin, Callback!Outside
  <2>3. CASE u # t
    <3>1. stack'[u] = stack[u]
      BY <2>3, OthersUnchanged
    <3>2. ~begun /\ stack[u][i].callback = outputCallback /\ stack[u] # <<>>
      BY <1>3, <3>1, EmptySeq DEF EarlyInv
    <3>3. u \in EarlyTasks /\ t \notin EarlyTasks
      BY <2>3, <3>2 DEF EarlyInv
    <3>4. stack[t] = <<>>
      BY <3>2, <3>3 DEF EarlyInv
    <3>5. FALSE
      BY <3>2, <3>3, <3>4 DEF CallbackSteps, Callback!NoCallback, Callback!CopyCallback, Callback!LoadCallback,
             Callback!HoldCallback, Callback!CallbackReturns, Callback!CallbackThrows, Callback!Catch, Callback!Swap, Callback!Unlock, Callback!DropNothing,
             Callback!Drop, Callback!Destroyed, Callback!At, Callback!begin, Callback!Log, Callback!setOutputCallback, Callback!Call
    <3> QED BY <3>5
  <2> QED BY <2>1, <2>2, <2>3
<1> QED BY <1>2, <1>3 DEF EarlyInv

LEMMA RunStep ==
    ASSUME StacksType, RunInv, NEW t \in Tasks, CallbackSteps(t)
    PROVE  RunInv'
<1>1. ASSUME NEW u \in Tasks \ {t}
      PROVE  /\ \A i, j \in Inside(u)' : i = j
             /\ inOutputCallback'[u] <=> Inside(u)' # {}
             /\ \A i \in 1..Len(stack'[u]) : stack'[u][i].at = "loaded" => ~inOutputCallback'[u]
  <2>1. stack'[u] = stack[u] /\ inOutputCallback'[u] = inOutputCallback[u]
    BY OthersUnchanged
  <2>2. Inside(u)' = Inside(u)
    BY <2>1 DEF Inside, Callback!Running, Callback!Unwinding
  <2> QED BY <2>1, <2>2 DEF RunInv
<1> DEFINE R == Inside(t)
           R2 == Inside(t)'
           n == Len(stack[t])
           Good == /\ \A i, j \in R2 : i = j
                   /\ inOutputCallback'[t] => R2 # {}
                   /\ ~inOutputCallback'[t] => R2 = {}
<1>2. (\A i, j \in R : i = j) /\ (inOutputCallback[t] => R # {}) /\ (~inOutputCallback[t] => R = {})
  BY DEF RunInv
<1>3. stack[t] # <<>> => /\ Callback!Top(t) = stack[t][n] /\ n \in 1..Len(stack[t])
                         /\ (n \in R <=> Within(Callback!Top(t)))
  <2>1. ASSUME stack[t] # <<>>
        PROVE  /\ Callback!Top(t) = stack[t][n] /\ n \in 1..Len(stack[t]) /\ n \in DOMAIN stack[t]
               /\ Shape(Callback!Top(t))
    BY <2>1, TopOfStack, LenProperties DEF StacksType
  <2> QED BY <2>1 DEF Inside, Within, Callback!Running, Callback!Unwinding, Shape
<1>11. ASSUME NEW i \in 1..Len(stack'[t]), stack'[t][i].at = "loaded" PROVE ~inOutputCallback'[t]
  <2>1. CASE Callback!LoadCallback(t)
    BY <2>1 DEF Callback!LoadCallback, Callback!Barred
  <2>2. CASE ~Callback!LoadCallback(t)
    BY <1>11, <2>2, LoadedAfter DEF RunInv, Callback!begin
  <2> QED BY <2>1, <2>2
<1> SUFFICES Good
  BY <1>1, <1>11 DEF RunInv
<1>4. CASE Callback!begin(t)
  <2>1. R2 = R /\ inOutputCallback' = inOutputCallback
    BY <1>4 DEF Callback!begin, Inside, Callback!Running, Callback!Unwinding
  <2> QED BY <1>2, <2>1
<1>5. CASE Callback!Log(t) \/ \E c \in Callbacks \cup {None} : Callback!setOutputCallback(t, c)
  <2>1. R2 = R
    BY <1>5, PushSteps, NewFrames, InsideAfter DEF F, Within
  <2>2. inOutputCallback' = inOutputCallback
    BY <1>5 DEF Callback!Log, Callback!setOutputCallback
  <2> QED BY <1>2, <2>1, <2>2
<1>6. CASE Callback!NoCallback(t) \/ Callback!DropNothing(t)
  <2>1. R2 = R \ {n}
    BY <1>6, PopSteps, InsideAfter
  <2>2. n \notin R /\ inOutputCallback' = inOutputCallback
    BY <1>3, <1>6 DEF Callback!NoCallback, Callback!DropNothing, Callback!At, Within
  <2> QED BY <1>2, <2>1, <2>2
<1>7. CASE Callback!CopyCallback(t) \/ Callback!HoldCallback(t)
  <2>1. R2 = R \cup {n} /\ stack[t] # <<>>
    <3>1. PICK d \in Callbacks : d # None /\ Replaced(t, F("log", "run", d))
      BY <1>7, ReplaceSteps, CallbackFrames
    <3>2. F("log", "run", d) \in Frame /\ Shape(F("log", "run", d)) /\ Within(F("log", "run", d))
      BY <3>1, NewFrames DEF F, Within
    <3> QED BY <3>1, <3>2, InsideAfter DEF Replaced
  <2>2. inOutputCallback'[t] = TRUE
    BY <1>7 DEF Callback!CopyCallback, Callback!HoldCallback, Callback!Enter, StacksType
  <2>3. ~inOutputCallback[t]
    BY <1>3, <1>7 DEF Callback!CopyCallback, Callback!HoldCallback, Callback!Barred, Callback!At, RunInv
  <2>4. R = {}
    BY <1>2, <2>3
  <2> QED BY <2>1, <2>2, <2>4
<1>8. CASE Callback!CallbackReturns(t) \/ Callback!Catch(t)
  <2>1. R2 = R \ {n}
    <3>1. CASE Callback!CallbackReturns(t)
      BY <3>1, ReplaceSteps, CallbackFrames, NewFrames, InsideAfter DEF F, Within
    <3>2. CASE Callback!Catch(t)
      BY <3>2, PopSteps, InsideAfter
    <3> QED BY <1>8, <3>1, <3>2
  <2>2. n \in R
    BY <1>3, <1>8, CallbackFrames DEF Within
  <2>3. inOutputCallback'[t] = FALSE
    BY <1>8 DEF Callback!CallbackReturns, Callback!Catch, Callback!Cleared, StacksType
  <2>4. R2 = {}
    BY <1>2, <2>1, <2>2
  <2> QED BY <2>3, <2>4
<1>u. ASSUME UNCHANGED inOutputCallback, R2 = R \cup {n}, n \in R PROVE Good
  BY <1>2, <1>u
<1>v. ASSUME UNCHANGED inOutputCallback, R2 = R \ {n}, n \notin R PROVE Good
  BY <1>2, <1>v
<1>12. CASE Callback!CallbackThrows(t)
  <2>1. R2 = R \cup {n}
    BY <1>12, ReplaceSteps, CallbackFrames, NewFrames, InsideAfter DEF F, Within
  <2>2. n \in R /\ UNCHANGED inOutputCallback
    BY <1>3, <1>12, CallbackFrames DEF Within, Callback!CallbackThrows
  <2> QED BY <1>u, <2>1, <2>2
<1>9. CASE Callback!Swap(t) \/ Callback!Unlock(t) \/ Callback!LoadCallback(t)
  <2>1. R2 = R \ {n}
    BY <1>9, ReplaceSteps, CallbackFrames, NewFrames, InsideAfter DEF F, Within
  <2>2. n \notin R /\ inOutputCallback' = inOutputCallback
    BY <1>3, <1>9 DEF Callback!Swap, Callback!Unlock, Callback!LoadCallback, Callback!At, Within
  <2> QED BY <1>v, <2>1, <2>2
<1>e. ASSUME Ended(t), UNCHANGED inOutputCallback, stack[t] # <<>>, Callback!Top(t).at # "run" PROVE Good
  <2>1. CASE Callback!Top(t).op = "unwind"
    <3>1. R2 = R \cup {n}
      BY <1>e, <2>1, NewFrames, InsideAfter DEF Ended, Caught, F, Within
    <3>2. n \in R
      BY <1>3, <1>e, <2>1 DEF Within
    <3> QED BY <1>e, <1>u, <3>1, <3>2
  <2>2. CASE Callback!Top(t).op # "unwind"
    <3>1. R2 = R \ {n}
      BY <1>e, <2>2, InsideAfter DEF Ended
    <3>2. n \notin R
      BY <1>3, <1>e, <2>2 DEF Within
    <3> QED BY <1>e, <1>v, <3>1, <3>2
  <2> QED BY <2>1, <2>2
<1>13. CASE Callback!Destroyed(t)
  <2>1. Ended(t) /\ UNCHANGED inOutputCallback /\ stack[t] # <<>> /\ Callback!Top(t).at # "run"
    BY <1>13, PopSteps DEF Callback!Destroyed
  <2> QED BY <1>e, <2>1
<1>10. CASE Callback!Drop(t)
  <2>1. UNCHANGED inOutputCallback /\ stack[t] # <<>> /\ Callback!Top(t).at # "run"
    BY <1>10 DEF Callback!Drop
  <2>2. CASE count'[Callback!Top(t).callback] = 0
    <3> DEFINE f == F(Callback!Top(t).op, "destroy", Callback!Top(t).callback)
    <3>1. /\ Replaced(t, f) /\ f \in Frame /\ Shape(f)
          /\ (Within(f) <=> Within(Callback!Top(t)))
      BY <1>10, <2>1, <2>2, PopSteps, CallbackFrames, NewFrames DEF F, Within
    <3> HIDE DEF f
    <3>2. CASE Within(f)
      <4>1. R2 = R \cup {n} /\ n \in R
        BY <1>3, <2>1, <3>1, <3>2, InsideAfter
      <4> QED BY <1>u, <2>1, <4>1
    <3>3. CASE ~Within(f)
      <4>1. R2 = R \ {n} /\ n \notin R
        BY <1>3, <2>1, <3>1, <3>3, InsideAfter
      <4> QED BY <1>v, <2>1, <4>1
    <3> QED BY <3>2, <3>3
  <2>3. CASE count'[Callback!Top(t).callback] # 0
    <3>1. Ended(t)
      BY <1>10, <2>3, PopSteps
    <3> QED BY <1>e, <2>1, <3>1
  <2> QED BY <2>2, <2>3
<1> QED BY <1>4, <1>5, <1>6, <1>7, <1>8, <1>9, <1>10, <1>12, <1>13 DEF CallbackSteps

LEMMA MutexStep ==
    ASSUME StacksType, MutexInv, NEW t \in Tasks, CallbackSteps(t)
    PROVE  MutexInv'
<1> SUFFICES ASSUME holder' # None
             PROVE  begun' /\ holder' \in Tasks /\ Callback!At(holder, "set", "unlock")'
  BY DEF MutexInv
<1>1. CASE Callback!Swap(t)
  <2>1. begun /\ begun' /\ holder' = t
    BY <1>1, BegunStays DEF Callback!Swap
  <2>2. StacksType' /\ Replaced(t, F("set", "unlock", outputCallback)) /\ outputCallback \in Callbacks \cup {None}
    BY <1>1, StacksKeepType, ReplaceSteps, CallbackFrames
  <2>3. Len(stack[t]) \in Nat \ {0} /\ Len(stack'[t]) = Len(stack[t])
        /\ stack'[t][Len(stack[t])] = F("set", "unlock", outputCallback)
    BY <2>2, NewFrames, Replace
  <2>4. stack'[t] \in Seq(Frame) /\ stack'[t] # <<>>
    BY <2>2, <2>3, EmptySeq DEF StacksType
  <2>5. Callback!Last(stack'[t]) = F("set", "unlock", outputCallback)
    BY <2>3, <2>4, FrontOfStack
  <2>6. Callback!Top(t)' = F("set", "unlock", outputCallback)
    BY <2>5 DEF Callback!Top
  <2> QED BY <2>1, <2>4, <2>6 DEF Callback!At, Callback!Top, F
<1>2. CASE ~Callback!Swap(t)
  <2>1. ~Callback!Unlock(t)
    BY DEF Callback!Unlock
  <2>2. UNCHANGED holder
    BY <1>2, <2>1 DEF CallbackSteps, Callback!begin, Callback!Log, Callback!setOutputCallback, Callback!NoCallback,
         Callback!CopyCallback, Callback!LoadCallback, Callback!HoldCallback, Callback!CallbackReturns, Callback!CallbackThrows, Callback!Catch,
         Callback!DropNothing, Callback!Drop, Callback!Destroyed
  <2>3. begun /\ holder \in Tasks /\ Callback!At(holder, "set", "unlock")
    BY <2>2 DEF MutexInv
  <2>4. stack'[holder] = stack[holder]
    <3>1. CASE holder # t
      BY <2>3, <3>1, OthersUnchanged
    <3>2. CASE holder = t
      BY <1>2, <2>1, <2>3, <3>2 DEF CallbackSteps, Callback!begin, Callback!Log, Callback!setOutputCallback, Callback!Call,
         Callback!Outside, Callback!NoCallback, Callback!CopyCallback, Callback!LoadCallback, Callback!HoldCallback,
         Callback!CallbackReturns, Callback!CallbackThrows, Callback!Catch, Callback!DropNothing, Callback!Drop, Callback!Destroyed, Callback!At
    <3> QED BY <3>1, <3>2
  <2>5. begun'
    BY <2>3, BegunStays
  <2> QED BY <2>2, <2>3, <2>4, <2>5 DEF Callback!At, Callback!Top
<1> QED BY <1>1, <1>2

-----------------------------------------------------------------------------
(* A callback lives as long as somebody holds it. *)

(* The shared_ptr count: the frames that hold it, and outputCallback.      *)
CountInv ==
    /\ count \in [Callbacks -> Nat]
    /\ \A c \in Callbacks : /\ IsFiniteSet(Refs(c))
                            /\ count[c] = Cardinality(Refs(c)) + One(outputCallback = c)

Destroying(c) == \E u \in Tasks : \E i \in 1..Len(stack[u]) : stack[u][i].at = "destroy" /\ stack[u][i].callback = c

LifeInv ==
    /\ made \subseteq Callbacks /\ destroyed \subseteq made
    /\ \A c \in Callbacks : /\ count[c] > 0 => c \in made \ destroyed
                            /\ Destroying(c) => c \in made /\ count[c] = 0
                            /\ c \in made /\ count[c] = 0 => c \in destroyed \/ Destroying(c)

LEMMA HeldCounts ==
    ASSUME CountInv, NEW c \in Callbacks
    PROVE  /\ outputCallback = c => count[c] > 0
           /\ \A u \in Tasks : \A i \in Nat \ {0} : i \in 1..Len(stack[u]) /\ Holds(stack[u][i], c) => count[c] > 0
<1>1. /\ IsFiniteSet(Refs(c)) /\ Cardinality(Refs(c)) \in Nat
      /\ count[c] = Cardinality(Refs(c)) + One(outputCallback = c)
  BY FS_CardinalityType DEF CountInv
<1>2. outputCallback = c => count[c] > 0
  BY <1>1 DEF One
<1>3. ASSUME NEW u \in Tasks, NEW i \in Nat \ {0}, i \in 1..Len(stack[u]), Holds(stack[u][i], c)
      PROVE  count[c] > 0
  <2>1. <<u, i>> \in Refs(c)
    BY <1>3 DEF Refs
  <2>2. Cardinality(Refs(c)) # 0
    BY <1>1, <2>1, FS_EmptySet
  <2> QED BY <1>1, <2>2 DEF One
<1> QED BY <1>2, <1>3

LEMMA TopCounts ==
    ASSUME StacksType, CountInv, NEW c \in Callbacks, NEW t \in Tasks, stack[t] # <<>>, Holds(Callback!Top(t), c)
    PROVE  count[c] > 0
BY TopOfStack, HeldCounts

LEMMA CountKept ==
    ASSUME StacksType, CountInv, NEW t \in Tasks, NEW c \in Callbacks, UNCHANGED <<count, outputCallback>>,
           \/ \E f \in Frame : Shape(f) /\ Pushed(t, f) /\ ~Holds(f, c)
           \/ \E f \in Frame : Shape(f) /\ Replaced(t, f) /\ (Holds(f, c) <=> Holds(Callback!Top(t), c))
           \/ Popped(t) /\ ~Holds(Callback!Top(t), c)
    PROVE  IsFiniteSet(Refs(c)') /\ count'[c] = Cardinality(Refs(c)') + One(outputCallback' = c)
<1>1. IsFiniteSet(Refs(c)) /\ count[c] = Cardinality(Refs(c)) + One(outputCallback = c)
  BY DEF CountInv
<1>2. IsFiniteSet(Refs(c)') /\ Cardinality(Refs(c)') = Cardinality(Refs(c))
  <2>1. CASE \E f \in Frame : Shape(f) /\ Pushed(t, f) /\ ~Holds(f, c)
    BY <1>1, <2>1, PushRefs DEF One
  <2>2. CASE \E f \in Frame : Shape(f) /\ Replaced(t, f) /\ (Holds(f, c) <=> Holds(Callback!Top(t), c))
    BY <1>1, <2>2, ReplaceRefs DEF One
  <2>3. CASE Popped(t) /\ ~Holds(Callback!Top(t), c)
    BY <1>1, <2>3, PopRefs DEF One
  <2> QED BY <2>1, <2>2, <2>3
<1> QED BY <1>1, <1>2

LEMMA CountStep ==
    ASSUME StacksType, CountInv, LifeInv, NEW t \in Tasks, CallbackSteps(t)
    PROVE  CountInv'
<1> DEFINE Good(c) == IsFiniteSet(Refs(c)') /\ count'[c] = Cardinality(Refs(c)') + One(outputCallback' = c)
<1>1. \A c \in Callbacks : /\ IsFiniteSet(Refs(c)) /\ Cardinality(Refs(c)) \in Nat
                           /\ count[c] = Cardinality(Refs(c)) + One(outputCallback = c)
                           /\ count[c] \in Nat
  BY FS_CardinalityType DEF CountInv
<1> SUFFICES count' \in [Callbacks -> Nat] /\ \A c \in Callbacks : Good(c)
  BY DEF CountInv
<1> HIDE DEF Good
<1>2. None \notin Callbacks
  BY CallbackAssumption DEF Callback!CallbackAssumption
<1>3. CASE Callback!begin(t)
  <2>1. UNCHANGED <<count, outputCallback, stack>>
    BY <1>3 DEF Callback!begin
  <2>2. \A c : Refs(c)' = Refs(c)
    BY <2>1 DEF Refs
  <2> QED BY <1>1, <2>1, <2>2 DEF Good, CountInv
<1>4. CASE Callback!Log(t)
  <2>1. UNCHANGED <<count, outputCallback>> /\ Pushed(t, F("log", "copy", None))
    BY <1>4, PushSteps DEF Callback!Log
  <2> QED BY <2>1, <1>2, CountKept, NewFrames DEF Good, CountInv, Holds, F
<1>5. ASSUME NEW d \in Callbacks \cup {None}, Callback!setOutputCallback(t, d)
      PROVE  count' \in [Callbacks -> Nat] /\ \A c \in Callbacks : Good(c)
  <2>1. /\ UNCHANGED outputCallback /\ Pushed(t, F("set", "swap", d)) /\ d \notin made
        /\ count' = IF d = None THEN count ELSE [count EXCEPT ![d] = 1]
    BY <1>5, PushSteps DEF Callback!setOutputCallback
  <2>2. count' \in [Callbacks -> Nat]
    BY <2>1 DEF CountInv
  <2>3. ASSUME NEW c \in Callbacks PROVE Good(c)
    <3>1. /\ IsFiniteSet(Refs(c)')
          /\ Cardinality(Refs(c)') = Cardinality(Refs(c)) + One(Holds(F("set", "swap", d), c))
      BY <1>1, <2>1, NewFrames, PushRefs
    <3>2. CASE c = d
      <4>1. count[c] = 0
        BY <1>1, <2>1, <3>2 DEF LifeInv
      <4>2. count'[c] = 1
        BY <1>2, <2>1, <3>2 DEF CountInv
      <4>3. Holds(F("set", "swap", d), c)
        BY <3>2 DEF Holds, F
      <4>4. Cardinality(Refs(c)) = 0 /\ outputCallback # c
        BY <1>1, <4>1 DEF One
      <4> QED BY <2>1, <3>1, <4>2, <4>3, <4>4 DEF Good, One
    <3>3. CASE c # d
      <4>1. count'[c] = count[c] /\ ~Holds(F("set", "swap", d), c)
        BY <2>1, <3>3 DEF CountInv, Holds, F
      <4> QED BY <1>1, <2>1, <3>1, <4>1 DEF Good, One
    <3> QED BY <3>2, <3>3
  <2> QED BY <2>2, <2>3
<1>6. CASE Callback!NoCallback(t) \/ Callback!DropNothing(t) \/ Callback!Catch(t)
  <2>1. UNCHANGED <<count, outputCallback>> /\ Popped(t)
    BY <1>6, PopSteps DEF Callback!NoCallback, Callback!DropNothing, Callback!Catch
  <2>2. \A c \in Callbacks : ~Holds(Callback!Top(t), c)
    BY <1>2, <1>6 DEF Callback!NoCallback, Callback!DropNothing, Callback!Catch, Callback!At, Holds
  <2> QED BY <2>1, <2>2, CountKept DEF Good, CountInv
<1>12. CASE Callback!Destroyed(t)
  <2>1. UNCHANGED <<count, outputCallback>> /\ Ended(t)
    BY <1>12, PopSteps DEF Callback!Destroyed
  <2>2. \A c \in Callbacks : ~Holds(Callback!Top(t), c) /\ ~Holds(Caught, c)
    BY <1>12 DEF Callback!Destroyed, Holds, Caught, F
  <2>3. Caught \in Frame /\ Shape(Caught)
    BY NewFrames
  <2> QED BY <2>1, <2>2, <2>3, CountKept DEF Good, CountInv, Ended
<1>7. CASE Callback!LoadCallback(t)
  <2>1. UNCHANGED <<count, outputCallback>> /\ Replaced(t, F("log", "loaded", outputCallback))
    BY <1>7, ReplaceSteps DEF Callback!LoadCallback
  <2>2. F("log", "loaded", outputCallback) \in Frame /\ Shape(F("log", "loaded", outputCallback))
    BY <1>7, CallbackFrames, NewFrames
  <2>3. \A c \in Callbacks : ~Holds(Callback!Top(t), c) /\ ~Holds(F("log", "loaded", outputCallback), c)
    BY <1>7 DEF Callback!LoadCallback, Callback!At, Holds, F
  <2> QED BY <2>1, <2>2, <2>3, CountKept DEF Good, CountInv
<1>8. CASE Callback!Unlock(t) \/ Callback!CallbackReturns(t) \/ Callback!CallbackThrows(t)
  <2> DEFINE op == IF Callback!CallbackThrows(t) THEN "unwind" ELSE Callback!Top(t).op
             f == F(op, "drop", Callback!Top(t).callback)
  <2>1. UNCHANGED <<count, outputCallback>> /\ Replaced(t, f) /\ Callback!Top(t).at \in {"unlock", "run"}
    BY <1>8, ReplaceSteps DEF Callback!Unlock, Callback!CallbackReturns, Callback!CallbackThrows, Callback!At
  <2>2. f \in Frame /\ Shape(f)
    BY <1>8, CallbackFrames, NewFrames DEF Callback!Unlock, Callback!CallbackReturns, Callback!At
  <2>3. \A c \in Callbacks : Holds(Callback!Top(t), c) <=> Holds(f, c)
    BY <2>1 DEF Holds, F
  <2> QED BY <2>1, <2>2, <2>3, CountKept DEF Good, CountInv
<1>9. CASE Callback!Swap(t)
  <2> DEFINE f == F("set", "unlock", outputCallback)
  <2>1. /\ UNCHANGED count /\ Replaced(t, f) /\ f \in Frame /\ Shape(f)
        /\ outputCallback' = Callback!Top(t).callback /\ Callback!Top(t).at = "swap"
    BY <1>9, ReplaceSteps, CallbackFrames, NewFrames DEF Callback!Swap, Callback!At
  <2>2. ASSUME NEW c \in Callbacks PROVE Good(c)
    <3>1. /\ IsFiniteSet(Refs(c)') /\ Cardinality(Refs(c)') \in Nat
          /\ Cardinality(Refs(c)') + One(Holds(Callback!Top(t), c)) = Cardinality(Refs(c)) + One(Holds(f, c))
      BY <1>1, <2>1, ReplaceRefs
    <3>2. (Holds(Callback!Top(t), c) <=> outputCallback' = c) /\ (Holds(f, c) <=> outputCallback = c)
      BY <2>1 DEF Holds, F
    <3> QED BY <1>1, <2>1, <3>1, <3>2 DEF Good, One
  <2> QED BY <2>1, <2>2 DEF CountInv
<1>10. CASE Callback!CopyCallback(t) \/ Callback!HoldCallback(t)
  <2>1. PICK d \in Callbacks : Replaced(t, F("log", "run", d)) /\ count' = [count EXCEPT ![d] = @ + 1]
    BY <1>10, CallbackFrames, ReplaceSteps DEF Callback!CopyCallback, Callback!HoldCallback, Callback!Enter
  <2>2. UNCHANGED outputCallback /\ Callback!Top(t).at \in {"copy", "loaded"}
    BY <1>10 DEF Callback!CopyCallback, Callback!HoldCallback, Callback!At
  <2>3. ASSUME NEW c \in Callbacks PROVE Good(c)
    <3>1. /\ IsFiniteSet(Refs(c)') /\ Cardinality(Refs(c)') \in Nat
          /\ Cardinality(Refs(c)') + One(Holds(Callback!Top(t), c))
                = Cardinality(Refs(c)) + One(Holds(F("log", "run", d), c))
      BY <1>1, <1>2, <2>1, NewFrames, ReplaceRefs
    <3>2. ~Holds(Callback!Top(t), c) /\ (Holds(F("log", "run", d), c) <=> c = d)
      BY <2>2 DEF Holds, F
    <3>3. count'[c] = IF c = d THEN count[c] + 1 ELSE count[c]
      BY <2>1 DEF CountInv
    <3> QED BY <1>1, <2>2, <3>1, <3>2, <3>3 DEF Good, One
  <2>4. count' \in [Callbacks -> Nat]
    BY <1>1, <2>1 DEF CountInv
  <2> QED BY <2>3, <2>4
<1>11. CASE Callback!Drop(t)
  <2> DEFINE d == Callback!Top(t).callback
             f == F(Callback!Top(t).op, "destroy", d)
  <2>1. /\ UNCHANGED outputCallback /\ count' = [count EXCEPT ![d] = @ - 1]
        /\ d \in Callbacks /\ Callback!Top(t).at = "drop" /\ stack[t] # <<>>
        /\ IF count'[d] = 0 THEN Replaced(t, f) ELSE Ended(t)
    BY <1>11, CallbackFrames, PopSteps DEF Callback!Drop
  <2>2. f \in Frame /\ Shape(f) /\ Caught \in Frame /\ Shape(Caught)
    BY <1>11, CallbackFrames, NewFrames
  <2>3. ASSUME NEW c \in Callbacks PROVE Good(c)
    <3>1. (Holds(Callback!Top(t), c) <=> c = d) /\ ~Holds(f, c) /\ ~Holds(Caught, c)
      BY <2>1 DEF Holds, Caught, F
    <3>2. /\ IsFiniteSet(Refs(c)') /\ Cardinality(Refs(c)') \in Nat
          /\ Cardinality(Refs(c)') + One(Holds(Callback!Top(t), c)) = Cardinality(Refs(c))
      <4>1. CASE Replaced(t, f)
        BY <1>1, <2>2, <3>1, <4>1, ReplaceRefs DEF One
      <4>2. CASE Popped(t)
        BY <1>1, <4>2, PopRefs
      <4>3. CASE Replaced(t, Caught)
        BY <1>1, <2>2, <3>1, <4>3, ReplaceRefs DEF One
      <4> QED BY <2>1, <4>1, <4>2, <4>3 DEF Ended
    <3>3. count'[c] = IF c = d THEN count[c] - 1 ELSE count[c]
      BY <2>1 DEF CountInv
    <3> QED BY <1>1, <2>1, <3>1, <3>2, <3>3 DEF Good, One
  <2>4. count[d] > 0
    BY <2>1, TopCounts DEF Holds
  <2>5. count' \in [Callbacks -> Nat]
    BY <1>1, <2>1, <2>4 DEF CountInv
  <2> QED BY <2>3, <2>5
<1> QED BY <1>3, <1>4, <1>5, <1>6, <1>7, <1>8, <1>9, <1>10, <1>11, <1>12 DEF CallbackSteps

(* A frame that is about to end a callback comes with the last reference,  *)
(* and goes when the destructor has returned.                              *)
LEMMA DestroyingAfter ==
    ASSUME StacksType, NEW t \in Tasks, NEW c \in Callbacks
    PROVE  /\ \A f \in Frame : Shape(f) /\ Pushed(t, f) /\ f.at # "destroy" => (Destroying(c)' <=> Destroying(c))
           /\ \A f \in Frame : Shape(f) /\ Replaced(t, f) /\ Callback!Top(t).at # "destroy" =>
                  (Destroying(c)' <=> Destroying(c) \/ (f.at = "destroy" /\ f.callback = c))
           /\ Ended(t) => (Destroying(c)' => Destroying(c))
           /\ Popped(t) => (Destroying(c)' => Destroying(c))
           /\ Ended(t) /\ ~(Callback!Top(t).at = "destroy" /\ Callback!Top(t).callback = c) =>
                  (Destroying(c) => Destroying(c)')
           /\ Popped(t) /\ ~(Callback!Top(t).at = "destroy" /\ Callback!Top(t).callback = c) =>
                  (Destroying(c) => Destroying(c)')
<1> DEFINE D(f) == f.at = "destroy" /\ f.callback = c
           In(u) == \E i \in 1..Len(stack[u]) : D(stack[u][i])
<1>1. ASSUME \A u \in Tasks \ {t} : stack'[u] = stack[u]
      PROVE  (Destroying(c)' <=> In(t)' \/ \E u \in Tasks \ {t} : In(u)) /\ (Destroying(c) <=> In(t) \/ \E u \in Tasks \ {t} : In(u))
  <2>1. \A u \in Tasks \ {t} : In(u)' <=> In(u)
    BY <1>1
  <2>2. (Destroying(c)' <=> \E u \in Tasks : In(u)') /\ (Destroying(c) <=> \E u \in Tasks : In(u))
    BY DEF Destroying
  <2> HIDE DEF In
  <2> QED BY <2>1, <2>2
<1>2. ASSUME NEW f \in Frame, Shape(f), Pushed(t, f), f.at # "destroy" PROVE Destroying(c)' <=> Destroying(c)
  <2>1. /\ \A u \in Tasks \ {t} : stack'[u] = stack[u]
        /\ Len(stack[t]) \in Nat /\ Len(stack'[t]) = Len(stack[t]) + 1 /\ stack'[t][Len(stack[t]) + 1] = f
        /\ \A i \in 1..Len(stack[t]) : stack'[t][i] = stack[t][i]
    BY <1>2, Push
  <2>2. In(t)' <=> In(t)
    BY <1>2, <2>1
  <2> HIDE DEF In
  <2> QED BY <1>1, <2>1, <2>2
<1>3. ASSUME NEW f \in Frame, Shape(f), Replaced(t, f), Callback!Top(t).at # "destroy"
      PROVE  Destroying(c)' <=> Destroying(c) \/ D(f)
  <2>1. /\ \A u \in Tasks \ {t} : stack'[u] = stack[u]
        /\ Len(stack[t]) \in Nat \ {0} /\ Len(stack'[t]) = Len(stack[t]) /\ stack'[t][Len(stack[t])] = f
        /\ \A i \in 1..(Len(stack[t]) - 1) : stack'[t][i] = stack[t][i]
    BY <1>3, Replace
  <2>2. Callback!Top(t) = stack[t][Len(stack[t])]
    BY <1>3, TopOfStack DEF Replaced
  <2>3. In(t)' <=> In(t) \/ D(f)
    BY <1>3, <2>1, <2>2
  <2> HIDE DEF In
  <2> QED BY <1>1, <2>1, <2>3
<1>4. ASSUME Popped(t)
      PROVE  /\ Destroying(c)' => Destroying(c)
             /\ ~D(Callback!Top(t)) => (Destroying(c) => Destroying(c)')
  <2>1. /\ \A u \in Tasks \ {t} : stack'[u] = stack[u]
        /\ Len(stack[t]) \in Nat \ {0} /\ Len(stack'[t]) = Len(stack[t]) - 1
        /\ \A i \in 1..(Len(stack[t]) - 1) : stack'[t][i] = stack[t][i]
    BY <1>4, Pop
  <2>2. Callback!Top(t) = stack[t][Len(stack[t])]
    BY <1>4, TopOfStack DEF Popped
  <2>3. (In(t)' => In(t)) /\ (~D(Callback!Top(t)) => (In(t) => In(t)'))
    BY <2>1, <2>2
  <2> HIDE DEF In
  <2> QED BY <1>1, <2>1, <2>3
<1>5. ASSUME Replaced(t, Caught)
      PROVE  /\ Destroying(c)' => Destroying(c)
             /\ ~D(Callback!Top(t)) => (Destroying(c) => Destroying(c)')
  <2>1. /\ \A u \in Tasks \ {t} : stack'[u] = stack[u]
        /\ Len(stack[t]) \in Nat \ {0} /\ Len(stack'[t]) = Len(stack[t]) /\ stack'[t][Len(stack[t])] = Caught
        /\ \A i \in 1..(Len(stack[t]) - 1) : stack'[t][i] = stack[t][i]
    BY <1>5, NewFrames, Replace
  <2>2. Callback!Top(t) = stack[t][Len(stack[t])] /\ ~D(Caught)
    BY <1>5, TopOfStack DEF Replaced, Caught, F
  <2>3. (In(t)' => In(t)) /\ (~D(Callback!Top(t)) => (In(t) => In(t)'))
    BY <2>1, <2>2
  <2> HIDE DEF In
  <2> QED BY <1>1, <2>1, <2>3
<1>6. ASSUME Ended(t)
      PROVE  /\ Destroying(c)' => Destroying(c)
             /\ ~D(Callback!Top(t)) => (Destroying(c) => Destroying(c)')
  BY <1>4, <1>5, <1>6 DEF Ended
<1> QED BY <1>2, <1>3, <1>4, <1>6

(* A step that leaves the counts and the callbacks there are.              *)
LEMMA LifeKept ==
    ASSUME LifeInv, UNCHANGED <<count, made, destroyed>>,
           \A c \in Callbacks : Destroying(c)' <=> Destroying(c)
    PROVE  LifeInv'
BY DEF LifeInv

LEMMA LifeStep ==
    ASSUME StacksType, CountInv, EarlyInv, LifeInv, NEW t \in Tasks, CallbackSteps(t)
    PROVE  LifeInv'
<1>1. \A c \in Callbacks : count[c] \in Nat /\ count'[c] \in Nat
  BY CountStep DEF CountInv
<1>2. None \notin Callbacks
  BY CallbackAssumption DEF Callback!CallbackAssumption
<1>3. CASE Callback!begin(t)
  <2>1. UNCHANGED <<count, made, destroyed, stack>>
    BY <1>3 DEF Callback!begin
  <2>2. \A c \in Callbacks : Destroying(c)' <=> Destroying(c)
    BY <2>1 DEF Destroying
  <2> QED BY <2>1, <2>2, LifeKept
<1>4. CASE Callback!Log(t)
  <2>1. UNCHANGED <<count, made, destroyed>> /\ Pushed(t, F("log", "copy", None))
    BY <1>4, PushSteps DEF Callback!Log
  <2>2. \A c \in Callbacks : Destroying(c)' <=> Destroying(c)
    BY <2>1, NewFrames, DestroyingAfter DEF F
  <2> QED BY <2>1, <2>2, LifeKept
<1>5. ASSUME NEW d \in Callbacks \cup {None}, Callback!setOutputCallback(t, d) PROVE LifeInv'
  <2>1. /\ UNCHANGED destroyed /\ Pushed(t, F("set", "swap", d)) /\ d \notin made
        /\ count' = (IF d = None THEN count ELSE [count EXCEPT ![d] = 1]) /\ made' = made \cup ({d} \ {None})
    BY <1>5, PushSteps DEF Callback!setOutputCallback
  <2>2. \A c \in Callbacks : Destroying(c)' <=> Destroying(c)
    BY <2>1, NewFrames, DestroyingAfter DEF F
  <2>3. CASE d = None
    BY <2>1, <2>2, <2>3 DEF LifeInv
  <2>4. CASE d # None
    <3>1. /\ d \in Callbacks /\ made' = made \cup {d} /\ count' = [count EXCEPT ![d] = 1]
          /\ ~Destroying(d) /\ d \notin destroyed
      BY <2>1, <2>4 DEF LifeInv
    <3>2. \A c \in Callbacks : count'[c] = IF c = d THEN 1 ELSE count[c]
      BY <3>1 DEF CountInv
    <3> QED BY <2>1, <2>2, <3>1, <3>2 DEF LifeInv
  <2> QED BY <2>3, <2>4
<1>6. CASE Callback!NoCallback(t) \/ Callback!DropNothing(t) \/ Callback!Catch(t)
  <2>1. UNCHANGED <<count, made, destroyed>> /\ Popped(t) /\ Callback!Top(t).at # "destroy"
    BY <1>6, PopSteps DEF Callback!NoCallback, Callback!DropNothing, Callback!Catch, Callback!At
  <2>2. \A c \in Callbacks : Destroying(c)' <=> Destroying(c)
    BY <2>1, DestroyingAfter
  <2> QED BY <2>1, <2>2, LifeKept
<1>7. CASE \/ Callback!LoadCallback(t) \/ Callback!Swap(t) \/ Callback!Unlock(t)
           \/ Callback!CallbackReturns(t) \/ Callback!CallbackThrows(t)
  <2>1. PICK f \in Frame : Shape(f) /\ Replaced(t, f) /\ f.at # "destroy"
    <3>1. CASE Callback!LoadCallback(t)
      <4> DEFINE f == F("log", "loaded", outputCallback)
      <4>1. f \in Frame /\ Shape(f) /\ Replaced(t, f)
        BY <3>1, ReplaceSteps, CallbackFrames, NewFrames
      <4>2. f.at # "destroy"
        BY DEF F
      <4> HIDE DEF f
      <4> QED BY <4>1, <4>2
    <3>2. CASE Callback!Swap(t) \/ Callback!Unlock(t)
      BY <3>2, ReplaceSteps, CallbackFrames, NewFrames DEF F
    <3>3. CASE Callback!CallbackReturns(t) \/ Callback!CallbackThrows(t)
      BY <3>3, ReplaceSteps, CallbackFrames, NewFrames DEF F
    <3> QED BY <1>7, <3>1, <3>2, <3>3
  <2>2. UNCHANGED <<count, made, destroyed>> /\ Callback!Top(t).at # "destroy"
    BY <1>7 DEF Callback!LoadCallback, Callback!Swap, Callback!Unlock, Callback!CallbackReturns, Callback!CallbackThrows, Callback!At
  <2>3. \A c \in Callbacks : Destroying(c)' <=> Destroying(c)
    BY <2>1, <2>2, DestroyingAfter
  <2> QED BY <2>2, <2>3, LifeKept
<1>8. CASE Callback!CopyCallback(t) \/ Callback!HoldCallback(t)
  <2>1. PICK d \in Callbacks : /\ Replaced(t, F("log", "run", d)) /\ count' = [count EXCEPT ![d] = @ + 1]
                               /\ d = outputCallback
    <3>1. CASE Callback!CopyCallback(t)
      BY <3>1, CallbackFrames, ReplaceSteps DEF Callback!CopyCallback, Callback!Enter
    <3>2. CASE Callback!HoldCallback(t)
      <4>1. Callback!Top(t).callback = outputCallback
        BY <3>2, CallbackFrames, TopOfStack DEF EarlyInv
      <4> QED BY <3>2, <4>1, CallbackFrames, ReplaceSteps DEF Callback!HoldCallback, Callback!Enter
    <3> QED BY <1>8, <3>1, <3>2
  <2>2. UNCHANGED <<made, destroyed>> /\ Callback!Top(t).at # "destroy"
    BY <1>8 DEF Callback!CopyCallback, Callback!HoldCallback, Callback!At
  <2>3. \A c \in Callbacks : Destroying(c)' <=> Destroying(c)
    BY <1>2, <2>1, <2>2, NewFrames, DestroyingAfter DEF F
  <2>4. count[d] > 0
    BY <2>1, HeldCounts
  <2>5. \A c \in Callbacks : count'[c] = IF c = d THEN count[c] + 1 ELSE count[c]
    BY <2>1 DEF CountInv
  <2> QED BY <1>1, <2>2, <2>3, <2>4, <2>5 DEF LifeInv
<1>9. CASE Callback!Drop(t)
  <2> DEFINE d == Callback!Top(t).callback
             f == F(Callback!Top(t).op, "destroy", d)
  <2>1. /\ UNCHANGED <<made, destroyed>> /\ count' = [count EXCEPT ![d] = @ - 1]
        /\ d \in Callbacks /\ Callback!Top(t).at = "drop" /\ stack[t] # <<>>
        /\ IF count'[d] = 0 THEN Replaced(t, f) ELSE Ended(t)
    BY <1>9, CallbackFrames, PopSteps DEF Callback!Drop
  <2>2. f \in Frame /\ Shape(f) /\ f.at = "destroy" /\ f.callback = d
    BY <1>9, CallbackFrames, NewFrames DEF F
  <2>3. count[d] > 0
    BY <2>1, TopCounts DEF Holds
  <2>4. \A c \in Callbacks : count'[c] = IF c = d THEN count[c] - 1 ELSE count[c]
    BY <2>1 DEF CountInv
  <2>5. d \in made \ destroyed /\ ~Destroying(d)
    BY <2>1, <2>3 DEF LifeInv
  <2> HIDE DEF d, f
  <2>6. CASE count'[d] = 0
    <3>1. \A c \in Callbacks : Destroying(c)' <=> Destroying(c) \/ c = d
      BY <2>1, <2>2, <2>6, DestroyingAfter
    <3> QED BY <1>1, <2>1, <2>3, <2>4, <2>5, <2>6, <3>1 DEF LifeInv
  <2>7. CASE count'[d] # 0
    <3>1. \A c \in Callbacks : Destroying(c)' <=> Destroying(c)
      BY <2>1, <2>7, DestroyingAfter
    <3> QED BY <1>1, <2>1, <2>3, <2>4, <2>5, <2>7, <3>1 DEF LifeInv
  <2> QED BY <2>6, <2>7
<1>10. CASE Callback!Destroyed(t)
  <2> DEFINE d == Callback!Top(t).callback
  <2>1. /\ UNCHANGED <<made, count>> /\ destroyed' = destroyed \cup {d}
        /\ d \in Callbacks /\ Callback!Top(t).at = "destroy" /\ stack[t] # <<>> /\ Ended(t)
    BY <1>10, CallbackFrames, PopSteps DEF Callback!Destroyed
  <2>2. Destroying(d)
    BY <2>1, TopOfStack DEF Destroying
  <2>3. \A c \in Callbacks : (Destroying(c)' => Destroying(c)) /\ (c # d => (Destroying(c) => Destroying(c)'))
    BY <2>1, DestroyingAfter
  <2> HIDE DEF d
  <2> QED BY <1>1, <2>1, <2>2, <2>3 DEF LifeInv
<1> QED BY <1>3, <1>4, <1>5, <1>6, <1>7, <1>8, <1>9, <1>10 DEF CallbackSteps

CallbackInv == StacksType /\ EarlyInv /\ RunInv /\ MutexInv /\ CountInv /\ LifeInv

(* The code has one task until begin() has made the mutex.                 *)
OneEarlyTask == \A s, t \in EarlyTasks : s = t

LEMMA CallbackInit == ASSUME Init PROVE CallbackInv
<1>1. /\ outputCallback = None /\ count = [c \in Callbacks |-> 0] /\ inOutputCallback = [t \in Tasks |-> FALSE]
      /\ begun = FALSE /\ holder = None /\ stack = [t \in Tasks |-> <<>>] /\ made = {} /\ destroyed = {}
  BY DEF Init, Callback!Init
<1>2. None \notin Callbacks
  BY CallbackAssumption DEF Callback!CallbackAssumption
<1>3. \A t \in Tasks : stack[t] = <<>> /\ Len(stack[t]) = 0 /\ Inside(t) = {}
  BY <1>1 DEF Inside, Callback!Running, Callback!Unwinding
<1>4. <<>> \in Seq(Frame) /\ Len(<<>>) = 0
  BY EmptySeq
<1>5. \A t \in Tasks : StackType(stack[t])
  <2>1. StackType(<<>>)
    BY <1>4 DEF StackType
  <2> QED BY <1>3, <2>1
<1>6. StacksType
  BY <1>1, <1>4, <1>5 DEF StacksType
<1>7. EarlyInv /\ RunInv /\ MutexInv
  BY <1>1, <1>3 DEF EarlyInv, RunInv, MutexInv
<1>8. ASSUME NEW c \in Callbacks
      PROVE  IsFiniteSet(Refs(c)) /\ count[c] = Cardinality(Refs(c)) + One(outputCallback = c) /\ count[c] = 0
  <2>1. Refs(c) = {}
    BY <1>3 DEF Refs
  <2> QED BY <1>1, <1>2, <2>1, FS_EmptySet DEF One
<1>9. CountInv
  BY <1>1, <1>8 DEF CountInv
<1>10. LifeInv
  BY <1>1, <1>3, <1>8 DEF LifeInv, Destroying
<1> QED BY <1>6, <1>7, <1>9, <1>10 DEF CallbackInv

LEMMA CallbackNext == ASSUME OneEarlyTask, CallbackInv, [Next]_vars PROVE CallbackInv'
<1>1. CASE CallbackRuns
  <2>1. PICK t \in Tasks : CallbackSteps(t)
    BY <1>1, OneTaskSteps DEF CallbackRuns
  <2> QED BY <2>1, StacksKeepType, EarlyStep, RunStep, MutexStep, CountStep, LifeStep DEF CallbackInv, OneEarlyTask
<1>2. CASE UNCHANGED callbackVars
  <2>1. UNCHANGED <<outputCallback, count, inOutputCallback, begun, holder, stack, made, destroyed>>
    BY <1>2 DEF callbackVars
  <2>2. StacksType' /\ EarlyInv' /\ MutexInv'
    BY <2>1 DEF CallbackInv, StacksType, EarlyInv, MutexInv, Callback!At, Callback!Top
  <2>3. \A c : Refs(c)' = Refs(c) /\ (Destroying(c)' <=> Destroying(c))
    BY <2>1 DEF Refs, Destroying
  <2>4. \A t : Inside(t)' = Inside(t)
    BY <2>1 DEF Inside, Callback!Running, Callback!Unwinding
  <2>5. RunInv'
    BY <2>1, <2>4 DEF CallbackInv, RunInv
  <2>6. CountInv' /\ LifeInv'
    BY <2>1, <2>3 DEF CallbackInv, CountInv, LifeInv
  <2> QED BY <2>2, <2>5, <2>6 DEF CallbackInv
<1> QED BY <1>1, <1>2, OnePartRuns

LEMMA CallbackStays == ASSUME OneEarlyTask PROVE Spec => []CallbackInv
<1>1. Init => CallbackInv
  BY CallbackInit
<1>2. CallbackInv /\ [Next]_vars => CallbackInv'
  BY CallbackNext
<1> QED BY <1>1, <1>2, PTL DEF Spec

(* A callback that runs is not destroyed, and one that was replaced is as  *)
(* soon as nobody holds it (addEntry and setOutputCallback of the logger). *)
THEOREM CallbacksLive == ASSUME OneEarlyTask PROVE Spec => []CallbackLifetime
<1>1. ASSUME CallbackInv PROVE CallbackLifetime
  <2>1. StacksType /\ CountInv /\ LifeInv
    BY <1>1 DEF CallbackInv
  <2>2. ASSUME NEW t \in Tasks, NEW i \in Callback!Running(t) PROVE stack[t][i].callback \notin destroyed
    <3>1. StackType(stack[t]) /\ DOMAIN stack[t] = 1..Len(stack[t]) /\ Len(stack[t]) \in Nat /\ stack[t] \in Seq(Frame)
      BY <2>1, LenProperties DEF StacksType
    <3>2. i \in 1..Len(stack[t]) /\ i \in Nat \ {0} /\ stack[t][i].at = "run"
      BY <2>2, <3>1 DEF Callback!Running
    <3>3. stack[t][i] \in Frame /\ Shape(stack[t][i])
      BY <3>1, <3>2, ElementOfSeq DEF StackType
    <3>4. stack[t][i].callback \in Callbacks
      BY <3>2, <3>3 DEF Frame, Shape
    <3>5. count[stack[t][i].callback] > 0
      BY <2>1, <3>2, <3>4, HeldCounts DEF Holds
    <3> QED BY <2>1, <3>4, <3>5 DEF LifeInv
  <2>3. ASSUME \A t \in Tasks : stack[t] = <<>> PROVE destroyed = made \ {outputCallback}
    <3>1. \A t \in Tasks : Len(stack[t]) = 0
      BY <2>3
    <3>2. ASSUME NEW c \in Callbacks PROVE count[c] = One(outputCallback = c) /\ ~Destroying(c)
      <4>1. Refs(c) = {}
        BY <3>1 DEF Refs
      <4>2. Cardinality(Refs(c)) = 0
        BY <4>1, FS_EmptySet
      <4>3. count[c] = 0 + One(outputCallback = c)
        BY <2>1, <4>2 DEF CountInv
      <4> QED BY <3>1, <4>3 DEF Destroying, One
    <3> QED BY <2>1, <3>2 DEF LifeInv, One
  <2> QED BY <2>2, <2>3 DEF CallbackLifetime, Callback!CallbackLifetime
<1> QED BY <1>1, CallbackStays, PTL

(* No task is in two callbacks, is barred without being in one, that runs  *)
(* or is left by an exception whose catch has still to come, or waits for  *)
(* the mutex while it holds it.                                            *)
THEOREM CallbacksNotReentered == ASSUME OneEarlyTask PROVE Spec => []NotReentered
<1>1. ASSUME CallbackInv PROVE NotReentered
  <2> SUFFICES ASSUME NEW t \in Tasks
               PROVE  /\ Callback!Cardinality(Inside(t)) <= 1
                      /\ inOutputCallback[t] <=> Inside(t) # {}
                      /\ holder = t => /\ ~Callback!At(t, "set", "swap")
                                       /\ ~(Callback!At(t, "log", "copy") /\ ~Callback!Barred(t))
    BY DEF NotReentered, Callback!NotReentered, Inside
  <2>1. inOutputCallback[t] <=> Inside(t) # {}
    BY <1>1 DEF CallbackInv, RunInv
  <2>2. Callback!Cardinality(Inside(t)) <= 1
    <3> DEFINE R == Inside(t)
    <3>1. \A i, j \in R : i = j
      BY <1>1 DEF CallbackInv, RunInv
    <3> HIDE DEF R
    <3>2. R = {} \/ \E i : R = {i}
      BY <3>1
    <3>3. Cardinality(R) = 0 \/ Cardinality(R) = 1
      BY <3>2, FS_EmptySet, FS_Singleton
    <3>4. Callback!Cardinality(R) = Cardinality(R)
      BY Zenon DEF Callback!Cardinality, Cardinality
    <3> QED BY <3>3, <3>4 DEF R
  <2>3. holder = t => /\ ~Callback!At(t, "set", "swap")
                      /\ ~(Callback!At(t, "log", "copy") /\ ~Callback!Barred(t))
    BY <1>1, CallbackAssumption DEF CallbackInv, MutexInv, Callback!At, Callback!CallbackAssumption
  <2> QED BY <2>1, <2>2, <2>3
<1> QED BY <1>1, CallbackStays, PTL

-----------------------------------------------------------------------------
(* The life of the setup manager. *)

BeforeDns == {"built", "register wifi", "register ip", "join", "serve", "start dns"}
Serving == BeforeDns \cup {"serve portal", "idle"}
ServersGone == {"unregister wifi", "unregister ip", "delete events", "delete mutex", "gone"}
AfterClose == {"stop redirect", "stop main"} \cup ServersGone
Stopping == {"stop dns", "look", "wait", "force", "delete task", "clear task", "close", "deleted"}

DnsEarly == {"socket", "bind", "loop", "recvfrom", "answer", "bind failed", "closed", "leave"}
DnsPlaces == DnsEarly \cup {"none", "task cleared", "last", "ended", "deleted"}

ManagerType ==
    /\ owner \in Serving \cup Stopping \cup AfterClose /\ dns \in DnsPlaces
    /\ handlers \subseteq {"wifi", "ip"} /\ event \in handlers \cup {"none"}
    /\ servers \subseteq {"main", "redirect"} /\ requests \subseteq servers
    /\ turns \in Nat /\ still \in Nat

(* What is gone at which step of the destructor.                           *)
LiveInv ==
    /\ owner # "gone" => {"object", "mutex"} \subseteq live
    /\ handlers # {} \/ owner \in {"register wifi", "register ip"} => "events" \in live
    /\ owner \in {"unregister ip", "delete events", "delete mutex", "gone"} => "wifi" \notin handlers
    /\ owner \in {"delete events", "delete mutex", "gone"} => "ip" \notin handlers
    /\ owner \in {"stop main"} \cup ServersGone => "redirect" \notin servers
    /\ owner \in ServersGone => "main" \notin servers
    /\ owner \in Serving \ {"idle"} => servers = {}

(* The fields of the DNS task against where it is.                         *)
DnsInv ==
    /\ dnsTaskAlive <=> dns \in DnsEarly \cup {"task cleared", "last"}
    /\ owner \in BeforeDns => dns = "none"
    /\ dns \in DnsEarly => dnsTask
    /\ dns = "task cleared" => ~dnsTask
    /\ owner = "clear task" => ~dnsTaskAlive
    /\ owner \in {"close"} \cup AfterClose => dns \notin DnsEarly
    /\ open => dnsSocket
    /\ dns \in {"bind", "loop", "recvfrom", "answer"} => open
    /\ dns \in {"none", "socket", "closed"} => ~open
    /\ owner \in AfterClose => ~open

(* The turns the DNS task has left at most, behind the place where it is,  *)
(* until it clears its handle or ends.                                     *)
Left == IF dns = "socket" THEN 4
        ELSE IF dns \in {"bind", "recvfrom"} THEN 3
        ELSE IF dns \in {"bind failed", "answer"} THEN 2
        ELSE IF dns \in {"loop", "closed"} THEN 1 ELSE 0

(* The wait of stopDnsServer() is long enough.                             *)
WaitInv ==
    /\ owner \in Serving \cup {"stop dns", "look"} => turns = 0 /\ still = 0
    /\ owner \in {"look", "wait"} => ~dnsRunning
    /\ ~stalls => /\ dns # "deleted"
                  /\ owner = "force" /\ dnsTaskAlive => ~dnsTask
                  /\ owner = "delete task" => ~dnsTask
                  /\ owner = "wait" /\ dnsTaskAlive /\ dnsTask =>
                        still <= Manager!Patience /\ turns + Left + Manager!Patience - still < STOP_TURNS

ManagerInv == ManagerType /\ LiveInv /\ DnsInv /\ WaitInv

LEMMA DestructorSteps ==
    /\ Manager!DestructorOrder[1] = "stop dns"
    /\ Manager!Following("stop dns") = "stop redirect"
    /\ Manager!Following("stop redirect") = "stop main"
    /\ Manager!Following("stop main") = "unregister wifi"
    /\ Manager!Following("unregister wifi") = "unregister ip"
    /\ Manager!Following("unregister ip") = "delete events"
    /\ Manager!Following("delete events") = "delete mutex"
    /\ Manager!Following("delete mutex") = "gone"
<1> DEFINE o == Manager!DestructorOrder
<1>1. /\ o[1] = "stop dns" /\ o[2] = "stop redirect" /\ o[3] = "stop main" /\ o[4] = "unregister wifi"
      /\ o[5] = "unregister ip" /\ o[6] = "delete events" /\ o[7] = "delete mutex"
      /\ Len(o) = 7 /\ DOMAIN o = 1..7
  BY DEF Manager!DestructorOrder
<1> HIDE DEF o
<1>2. ASSUME NEW n \in 1..7, \A i \in 1..7 : o[i] = o[n] => i = n
      PROVE  Manager!Following(o[n]) = IF n = 7 THEN "gone" ELSE o[n + 1]
  <2>1. (CHOOSE i \in DOMAIN o : o[i] = o[n]) = n
    BY <1>1, <1>2
  <2> QED BY <1>1, <2>1 DEF Manager!Following, o
<1>3. ASSUME NEW n \in 1..7, NEW i \in 1..7, o[i] = o[n] PROVE i = n
  <2>1. \A j \in 1..7 : j = 1 \/ j = 2 \/ j = 3 \/ j = 4 \/ j = 5 \/ j = 6 \/ j = 7
    OBVIOUS
  <2> QED BY <1>1, <1>3, <2>1
<1>4. \A n \in 1..7 : Manager!Following(o[n]) = IF n = 7 THEN "gone" ELSE o[n + 1]
  BY <1>2, <1>3
<1>5. /\ Manager!Following(o[1]) = o[2] /\ Manager!Following(o[2]) = o[3] /\ Manager!Following(o[3]) = o[4]
      /\ Manager!Following(o[4]) = o[5] /\ Manager!Following(o[5]) = o[6] /\ Manager!Following(o[6]) = o[7]
      /\ Manager!Following(o[7]) = "gone"
  BY <1>4
<1> QED BY <1>1, <1>5 DEF o

(* The destructor's last steps, each with what comes behind it.            *)
LEMMA TakingDown ==
    /\ \A s \in {"main", "redirect"} : Manager!StopServer(s) =>
           \/ s = "redirect" /\ owner = "stop redirect" /\ owner' = "stop main"
           \/ s = "main" /\ owner = "stop main" /\ owner' = "unregister wifi"
    /\ \A h \in {"wifi", "ip"} : Manager!Unregister(h) =>
           \/ h = "wifi" /\ owner = "unregister wifi" /\ owner' = "unregister ip"
           \/ h = "ip" /\ owner = "unregister ip" /\ owner' = "delete events"
    /\ \A r \in {"events", "mutex"} : Manager!Delete(r) =>
           \/ r = "events" /\ owner = "delete events" /\ owner' = "delete mutex" /\ live' = live \ {"events"}
           \/ r = "mutex" /\ owner = "delete mutex" /\ owner' = "gone" /\ live' = {}
<1> DEFINE S == Manager!StopStep
           U == Manager!UnregisterStep
           D == Manager!DeleteStep
<1>0. /\ S["main"] = "stop main" /\ S["redirect"] = "stop redirect"
      /\ U["wifi"] = "unregister wifi" /\ U["ip"] = "unregister ip"
      /\ D["events"] = "delete events" /\ D["mutex"] = "delete mutex"
  BY DEF Manager!StopStep, Manager!UnregisterStep, Manager!DeleteStep
<1>1. ASSUME NEW s \in {"main", "redirect"}, Manager!StopServer(s)
      PROVE  \/ s = "redirect" /\ owner = "stop redirect" /\ owner' = "stop main"
             \/ s = "main" /\ owner = "stop main" /\ owner' = "unregister wifi"
  BY <1>0, <1>1, DestructorSteps DEF Manager!StopServer
<1>2. ASSUME NEW h \in {"wifi", "ip"}, Manager!Unregister(h)
      PROVE  \/ h = "wifi" /\ owner = "unregister wifi" /\ owner' = "unregister ip"
             \/ h = "ip" /\ owner = "unregister ip" /\ owner' = "delete events"
  BY <1>0, <1>2, DestructorSteps DEF Manager!Unregister
<1>3. ASSUME NEW r \in {"events", "mutex"}, Manager!Delete(r)
      PROVE  \/ r = "events" /\ owner = "delete events" /\ owner' = "delete mutex" /\ live' = live \ {"events"}
             \/ r = "mutex" /\ owner = "delete mutex" /\ owner' = "gone" /\ live' = {}
  BY <1>0, <1>3, DestructorSteps DEF Manager!Delete
<1> QED BY <1>1, <1>2, <1>3

LEMMA Stretches ==
    /\ Left \in 0..4 /\ Left' \in 0..4
    /\ Manager!Patience \in Nat /\ Manager!Patience' \in Nat
    /\ STOP_TURNS \in Nat /\ Left + Manager!Patience < STOP_TURNS
<1>1. RECV_TURNS \in Nat /\ STOP_TURNS \in Nat /\ RECV_TURNS + 3 < STOP_TURNS /\ 5 < STOP_TURNS
  BY ManagerAssumption DEF Manager!TurnsAssumption
<1>2. Left \in 0..4 /\ Left' \in 0..4 /\ (dns = "recvfrom" => Left = 3)
  BY DEF Left
<1>3. Manager!Patience = (IF dns = "recvfrom" THEN RECV_TURNS ELSE 1)
      /\ Manager!Patience' = (IF dns' = "recvfrom" THEN RECV_TURNS ELSE 1)
  BY DEF Manager!Patience
<1> HIDE DEF Left
<1> QED BY <1>1, <1>2, <1>3

LEMMA LeftAt ==
    /\ Left = (IF dns = "socket" THEN 4 ELSE IF dns \in {"bind", "recvfrom"} THEN 3
               ELSE IF dns \in {"bind failed", "answer"} THEN 2 ELSE IF dns \in {"loop", "closed"} THEN 1 ELSE 0)
    /\ Left' = (IF dns' = "socket" THEN 4 ELSE IF dns' \in {"bind", "recvfrom"} THEN 3
                ELSE IF dns' \in {"bind failed", "answer"} THEN 2 ELSE IF dns' \in {"loop", "closed"} THEN 1 ELSE 0)
    /\ dns' # "recvfrom" => Manager!Patience' = 1
BY DEF Left, Manager!Patience

(* Where the DNS task goes on, it has no more left than it had behind it.  *)
LEMMA OneStretchLess ==
    ASSUME ManagerType, WaitInv, UNCHANGED <<owner, turns, stalls>>, still' = 0, dns' # "deleted",
           dnsTask' => dnsTask, dnsTaskAlive' => dnsTaskAlive, dnsRunning' => dnsRunning,
           dnsTaskAlive' /\ dnsTask' /\ ~dnsRunning => Left' + Manager!Patience' <= Left
    PROVE  WaitInv'
<1>1. turns \in Nat /\ still \in Nat
  BY DEF ManagerType
<1>2. ASSUME ~stalls, owner = "wait", dnsTaskAlive', dnsTask'
      PROVE  still' <= Manager!Patience' /\ turns' + Left' + Manager!Patience' - still' < STOP_TURNS
  <2>1. ~dnsRunning /\ still <= Manager!Patience /\ turns + Left + Manager!Patience - still < STOP_TURNS
    BY <1>2 DEF WaitInv
  <2>2. Left' + Manager!Patience' <= Left
    BY <1>2, <2>1
  <2>3. turns' = turns /\ still' = 0 /\ Manager!Patience' \in Nat /\ Manager!Patience \in Nat
        /\ Left \in Nat /\ Left' \in Nat /\ STOP_TURNS \in Nat
    BY Stretches
  <2>4. \A n, t, l, p, i, m, q \in Nat : i <= p /\ t + l + p - i < n /\ m + q <= l => t + m + q - 0 < n
    BY SMT
  <2>5. turns + Left' + Manager!Patience' - 0 < STOP_TURNS
    BY <1>1, <2>1, <2>2, <2>3, <2>4
  <2> QED BY <2>3, <2>5
<1> QED BY <1>2 DEF WaitInv

LEMMA ManagerKeepsType ==
    ASSUME ManagerType, LiveInv, Manager!Next
    PROVE  ManagerType'
<1>1. CASE Manager!begin
  BY <1>1 DEF ManagerType, Manager!begin, Manager!users, Serving, BeforeDns
<1>2. CASE Manager!initWifi
  BY <1>2 DEF ManagerType, Manager!initWifi, Manager!users, Serving, BeforeDns
<1>3. CASE Manager!connectOrPortal
  BY <1>3 DEF ManagerType, Manager!connectOrPortal, Manager!users, Serving, BeforeDns
<1>4. CASE Manager!startDnsServer
  BY <1>4 DEF ManagerType, Manager!startDnsServer, Manager!users, Serving, DnsEarly, DnsPlaces
<1>5. CASE Manager!startWebServer
  <2>1. /\ owner \in {"serve", "serve portal"} /\ owner' = "idle" /\ UNCHANGED <<handlers, event, requests, dns, turns, still>>
        /\ servers' \subseteq {"main", "redirect"}
    BY <1>5 DEF Manager!startWebServer, Manager!users
  <2>2. requests = {}
    BY <2>1 DEF ManagerType, LiveInv, Serving, BeforeDns
  <2> QED BY <2>1, <2>2 DEF ManagerType, Serving
<1>6. CASE Manager!destroy
  BY <1>6, DestructorSteps DEF ManagerType, Manager!destroy, Manager!users, Stopping
<1>7. CASE Manager!stopDnsServer
  BY <1>7 DEF ManagerType, Manager!stopDnsServer, Manager!users, Stopping
<1>8. CASE Manager!LookForTask
  BY <1>8 DEF ManagerType, Manager!LookForTask, Manager!users, Stopping
<1>9. CASE Manager!Wait
  <2>1. UNCHANGED <<live, handlers, servers, event, requests, dns>> /\ owner = "wait" /\ owner' \in {"wait", "force"}
    BY <1>9 DEF Manager!Wait, Manager!users
  <2>2. turns' = turns \/ turns' = turns + 1
    BY <1>9 DEF Manager!Wait
  <2>3. still' = still \/ still' = still + 1 \/ still' = 0
    BY <1>9 DEF Manager!Wait, Manager!TurnPasses
  <2>4. turns' \in Nat /\ still' \in Nat
    BY <2>2, <2>3 DEF ManagerType
  <2> QED BY <2>1, <2>4 DEF ManagerType, Stopping
<1>10. CASE Manager!SeeAlive
  BY <1>10 DEF ManagerType, Manager!SeeAlive, Manager!users, Stopping
<1>11. CASE Manager!DeleteTask
  BY <1>11 DEF ManagerType, Manager!DeleteTask, Manager!users, Stopping, DnsPlaces
<1>12. CASE Manager!ClearTask
  BY <1>12 DEF ManagerType, Manager!ClearTask, Manager!users, Stopping
<1>13. CASE Manager!CloseSocket
  BY <1>13, DestructorSteps DEF ManagerType, Manager!CloseSocket, Manager!users, AfterClose
<1>14. ASSUME NEW s \in {"main", "redirect"}, Manager!StopServer(s) PROVE ManagerType'
  BY <1>14, TakingDown DEF ManagerType, Manager!StopServer, Manager!users, ServersGone, AfterClose
<1>15. ASSUME NEW h \in {"wifi", "ip"}, Manager!Unregister(h) PROVE ManagerType'
  BY <1>15, TakingDown DEF ManagerType, Manager!Unregister, Manager!users, ServersGone, AfterClose
<1>16. ASSUME NEW r \in {"events", "mutex"}, Manager!Delete(r) PROVE ManagerType'
  BY <1>16, TakingDown DEF ManagerType, Manager!Delete, Manager!users, ServersGone, AfterClose
<1>17. CASE Manager!EventArrives
  BY <1>17 DEF ManagerType, Manager!EventArrives
<1>18. CASE Manager!EventHandled
  BY <1>18 DEF ManagerType, Manager!EventHandled
<1>19. CASE Manager!RequestArrives
  BY <1>19 DEF ManagerType, Manager!RequestArrives
<1>20. ASSUME NEW s \in {"main", "redirect"}, Manager!RequestAnswered(s) PROVE ManagerType'
  BY <1>20 DEF ManagerType, Manager!RequestAnswered
<1>21. CASE Manager!dnsServerTask
  <2>0. still' = 0 /\ UNCHANGED <<owner, live, handlers, servers, event, requests, turns, stalls>>
    BY <1>21 DEF Manager!dnsServerTask, Manager!users
  <2>1. CASE Manager!CreateSocket
    BY <2>0, <2>1 DEF ManagerType, Manager!CreateSocket, Manager!Goes, DnsEarly, DnsPlaces
  <2>2. CASE Manager!Bind
    BY <2>0, <2>2 DEF ManagerType, Manager!Bind, Manager!Goes, DnsEarly, DnsPlaces
  <2>3. CASE Manager!GiveSocketBack
    BY <2>0, <2>3 DEF ManagerType, Manager!GiveSocketBack, Manager!Goes, DnsEarly, DnsPlaces
  <2>4. CASE Manager!Leave
    BY <2>0, <2>4 DEF ManagerType, Manager!Leave, Manager!Goes, DnsPlaces
  <2>5. CASE Manager!TestRunning
    BY <2>0, <2>5 DEF ManagerType, Manager!TestRunning, Manager!Goes, DnsEarly, DnsPlaces
  <2>6. CASE Manager!Received
    BY <2>0, <2>6 DEF ManagerType, Manager!Received, Manager!Goes, DnsEarly, DnsPlaces
  <2>7. CASE Manager!Answered
    BY <2>0, <2>7 DEF ManagerType, Manager!Answered, Manager!Goes, DnsEarly, DnsPlaces
  <2>8. CASE Manager!End
    BY <2>0, <2>8 DEF ManagerType, Manager!End, Manager!Goes, DnsPlaces
  <2> QED BY <1>21, <2>1, <2>2, <2>3, <2>4, <2>5, <2>6, <2>7, <2>8 DEF Manager!dnsServerTask
<1> QED BY <1>1, <1>2, <1>3, <1>4, <1>5, <1>6, <1>7, <1>8, <1>9, <1>10, <1>11, <1>12, <1>13, <1>14, <1>15, <1>16,
   <1>17, <1>18, <1>19, <1>20, <1>21 DEF Manager!Next, Manager!Begin, Manager!Destructor

LEMMA LiveStep ==
    ASSUME ManagerType, LiveInv, Manager!Next
    PROVE  LiveInv'
<1>1. CASE Manager!begin
  BY <1>1 DEF LiveInv, Manager!begin, Serving, BeforeDns
<1>2. CASE Manager!initWifi
  BY <1>2 DEF LiveInv, Manager!initWifi, Serving, BeforeDns
<1>3. CASE Manager!connectOrPortal
  BY <1>3 DEF LiveInv, Manager!connectOrPortal, Serving, BeforeDns
<1>4. CASE Manager!startDnsServer
  BY <1>4 DEF LiveInv, Manager!startDnsServer, Serving, BeforeDns
<1>5. CASE Manager!startWebServer
  BY <1>5 DEF LiveInv, Manager!startWebServer, ServersGone
<1>6. CASE Manager!destroy
  BY <1>6, DestructorSteps DEF LiveInv, Manager!destroy, Serving, BeforeDns, ServersGone
<1>7. CASE Manager!stopDnsServer
  BY <1>7 DEF LiveInv, Manager!stopDnsServer, Serving, BeforeDns, ServersGone
<1>8. CASE Manager!LookForTask
  BY <1>8 DEF LiveInv, Manager!LookForTask, Serving, BeforeDns, ServersGone
<1>9. CASE Manager!Wait
  BY <1>9 DEF LiveInv, Manager!Wait, Serving, BeforeDns, ServersGone
<1>10. CASE Manager!SeeAlive
  BY <1>10 DEF LiveInv, Manager!SeeAlive, Serving, BeforeDns, ServersGone
<1>11. CASE Manager!DeleteTask
  BY <1>11 DEF LiveInv, Manager!DeleteTask, Serving, BeforeDns, ServersGone
<1>12. CASE Manager!ClearTask
  BY <1>12 DEF LiveInv, Manager!ClearTask, Serving, BeforeDns, ServersGone
<1>13. CASE Manager!CloseSocket
  BY <1>13, DestructorSteps DEF LiveInv, Manager!CloseSocket, Serving, BeforeDns, ServersGone
<1>14. ASSUME NEW s \in {"main", "redirect"}, Manager!StopServer(s) PROVE LiveInv'
  BY <1>14, TakingDown DEF LiveInv, Manager!StopServer, Serving, BeforeDns, ServersGone
<1>15. ASSUME NEW h \in {"wifi", "ip"}, Manager!Unregister(h) PROVE LiveInv'
  BY <1>15, TakingDown DEF ManagerType, LiveInv, Manager!Unregister, ServersGone
<1>16. ASSUME NEW r \in {"events", "mutex"}, Manager!Delete(r) PROVE LiveInv'
  BY <1>16, TakingDown DEF ManagerType, LiveInv, Manager!Delete, ServersGone
<1>17. CASE Manager!EventArrives
  BY <1>17 DEF LiveInv, Manager!EventArrives
<1>18. CASE Manager!EventHandled
  BY <1>18 DEF LiveInv, Manager!EventHandled
<1>19. CASE Manager!RequestArrives
  BY <1>19 DEF LiveInv, Manager!RequestArrives
<1>20. ASSUME NEW s \in {"main", "redirect"}, Manager!RequestAnswered(s) PROVE LiveInv'
  BY <1>20 DEF LiveInv, Manager!RequestAnswered
<1>21. CASE Manager!dnsServerTask
  <2>0. still' = 0 /\ UNCHANGED <<owner, live, handlers, servers, event, requests, turns, stalls>>
    BY <1>21 DEF Manager!dnsServerTask, Manager!users
  <2>1. CASE Manager!CreateSocket
    BY <2>0, <2>1 DEF ManagerType, LiveInv
  <2>2. CASE Manager!Bind
    BY <2>0, <2>2 DEF ManagerType, LiveInv
  <2>3. CASE Manager!GiveSocketBack
    BY <2>0, <2>3 DEF ManagerType, LiveInv
  <2>4. CASE Manager!Leave
    BY <2>0, <2>4 DEF ManagerType, LiveInv
  <2>5. CASE Manager!TestRunning
    BY <2>0, <2>5 DEF ManagerType, LiveInv
  <2>6. CASE Manager!Received
    BY <2>0, <2>6 DEF ManagerType, LiveInv
  <2>7. CASE Manager!Answered
    BY <2>0, <2>7 DEF ManagerType, LiveInv
  <2>8. CASE Manager!End
    BY <2>0, <2>8 DEF ManagerType, LiveInv
  <2> QED BY <1>21, <2>1, <2>2, <2>3, <2>4, <2>5, <2>6, <2>7, <2>8 DEF Manager!dnsServerTask
<1> QED BY <1>1, <1>2, <1>3, <1>4, <1>5, <1>6, <1>7, <1>8, <1>9, <1>10, <1>11, <1>12, <1>13, <1>14, <1>15, <1>16,
   <1>17, <1>18, <1>19, <1>20, <1>21 DEF Manager!Next, Manager!Begin, Manager!Destructor

LEMMA DnsStep ==
    ASSUME DnsInv, Manager!Next
    PROVE  DnsInv'
<1>1. CASE Manager!begin
  BY <1>1 DEF DnsInv, Manager!begin, Manager!fields, BeforeDns, ServersGone, AfterClose
<1>2. CASE Manager!initWifi
  BY <1>2 DEF DnsInv, Manager!initWifi, Manager!fields, BeforeDns, ServersGone, AfterClose
<1>3. CASE Manager!connectOrPortal
  BY <1>3 DEF DnsInv, Manager!connectOrPortal, Manager!fields, BeforeDns, ServersGone, AfterClose
<1>4. CASE Manager!startDnsServer
  <2>1. owner = "start dns" /\ owner' = "serve portal" /\ UNCHANGED <<dnsSocket, open>>
    BY <1>4 DEF Manager!startDnsServer
  <2>2. CASE dnsTaskAlive' = TRUE /\ dnsTask' = TRUE /\ dns' = "socket"
    BY <2>1, <2>2 DEF DnsInv, BeforeDns, ServersGone, AfterClose, DnsEarly
  <2>3. CASE UNCHANGED <<dnsTaskAlive, dnsTask, dns>>
    BY <2>1, <2>3 DEF DnsInv, BeforeDns, ServersGone, AfterClose
  <2> QED BY <1>4, <2>2, <2>3 DEF Manager!startDnsServer
<1>5. CASE Manager!startWebServer
  BY <1>5 DEF DnsInv, Manager!startWebServer, Manager!fields, BeforeDns, ServersGone, AfterClose
<1>6. CASE Manager!destroy
  BY <1>6, DestructorSteps DEF DnsInv, Manager!destroy, Manager!fields, BeforeDns, ServersGone, AfterClose
<1>7. CASE Manager!stopDnsServer
  BY <1>7 DEF DnsInv, Manager!stopDnsServer, BeforeDns, ServersGone, AfterClose
<1>8. CASE Manager!LookForTask
  BY <1>8 DEF DnsInv, Manager!LookForTask, Manager!fields, BeforeDns, ServersGone, AfterClose
<1>9. CASE Manager!Wait
  BY <1>9 DEF DnsInv, Manager!Wait, Manager!fields, BeforeDns, ServersGone, AfterClose
<1>10. CASE Manager!SeeAlive
  BY <1>10 DEF DnsInv, Manager!SeeAlive, Manager!fields, BeforeDns, ServersGone, AfterClose
<1>11. CASE Manager!DeleteTask
  BY <1>11 DEF DnsInv, Manager!DeleteTask, BeforeDns, ServersGone, AfterClose, DnsEarly
<1>12. CASE Manager!ClearTask
  BY <1>12 DEF DnsInv, Manager!ClearTask, BeforeDns, ServersGone, AfterClose
<1>13. CASE Manager!CloseSocket
  BY <1>13, DestructorSteps DEF DnsInv, Manager!CloseSocket, BeforeDns, DnsEarly
<1>14. ASSUME NEW s \in {"main", "redirect"}, Manager!StopServer(s) PROVE DnsInv'
  BY <1>14, TakingDown DEF DnsInv, Manager!StopServer, Manager!fields, BeforeDns, AfterClose
<1>15. ASSUME NEW h \in {"wifi", "ip"}, Manager!Unregister(h) PROVE DnsInv'
  BY <1>15, TakingDown DEF DnsInv, Manager!Unregister, Manager!fields, BeforeDns, ServersGone, AfterClose
<1>16. ASSUME NEW r \in {"events", "mutex"}, Manager!Delete(r) PROVE DnsInv'
  BY <1>16, TakingDown DEF DnsInv, Manager!Delete, Manager!fields, BeforeDns, ServersGone, AfterClose
<1>17. CASE Manager!EventArrives
  BY <1>17 DEF DnsInv, Manager!EventArrives, Manager!fields
<1>18. CASE Manager!EventHandled
  BY <1>18 DEF DnsInv, Manager!EventHandled, Manager!fields
<1>19. CASE Manager!RequestArrives
  BY <1>19 DEF DnsInv, Manager!RequestArrives, Manager!fields
<1>20. ASSUME NEW s \in {"main", "redirect"}, Manager!RequestAnswered(s) PROVE DnsInv'
  BY <1>20 DEF DnsInv, Manager!RequestAnswered, Manager!fields
<1>21. CASE Manager!dnsServerTask
  <2>0. still' = 0 /\ UNCHANGED <<owner, live, handlers, servers, event, requests, turns, stalls>>
    BY <1>21 DEF Manager!dnsServerTask, Manager!users
  <2>1. CASE Manager!CreateSocket
    <3>1. UNCHANGED <<dnsTask, dnsTaskAlive>> /\ dns = "socket"
      BY <2>1 DEF Manager!CreateSocket, Manager!Goes
    <3>2. CASE dns' = "bind" /\ dnsSocket' = TRUE /\ open' = TRUE
      BY <2>0, <3>1, <3>2 DEF DnsInv, DnsEarly
    <3>3. CASE dns' = "leave" /\ dnsSocket' = FALSE /\ UNCHANGED open
      BY <2>0, <3>1, <3>3 DEF DnsInv, DnsEarly
    <3> QED BY <2>1, <3>2, <3>3 DEF Manager!CreateSocket, Manager!Goes
  <2>2. CASE Manager!Bind
    BY <2>0, <2>2 DEF DnsInv, Manager!Bind, Manager!Goes, Manager!fields, DnsEarly
  <2>3. CASE Manager!GiveSocketBack
    <3>1. UNCHANGED <<dnsTask, dnsTaskAlive>>
      BY <2>3 DEF Manager!GiveSocketBack
    <3>2. CASE dns = "bind failed" /\ dns' = "closed" /\ open' = FALSE /\ UNCHANGED dnsSocket
      BY <2>0, <3>1, <3>2 DEF DnsInv, DnsEarly
    <3>3. CASE dns = "closed" /\ dns' = "leave" /\ dnsSocket' = FALSE /\ UNCHANGED open
      BY <2>0, <3>1, <3>3 DEF DnsInv, DnsEarly
    <3> QED BY <2>3, <3>2, <3>3 DEF Manager!GiveSocketBack, Manager!Goes
  <2>4. CASE Manager!Leave
    BY <2>0, <2>4 DEF DnsInv, Manager!Leave, Manager!Goes, DnsEarly
  <2>5. CASE Manager!TestRunning
    BY <2>0, <2>5 DEF DnsInv, Manager!TestRunning, Manager!Goes, Manager!fields, DnsEarly
  <2>6. CASE Manager!Received
    BY <2>0, <2>6 DEF DnsInv, Manager!Received, Manager!Goes, Manager!fields, DnsEarly
  <2>7. CASE Manager!Answered
    BY <2>0, <2>7 DEF DnsInv, Manager!Answered, Manager!Goes, Manager!fields, DnsEarly
  <2>8. CASE Manager!End
    BY <2>0, <2>8 DEF DnsInv, Manager!End, Manager!Goes, DnsEarly
  <2> QED BY <1>21, <2>1, <2>2, <2>3, <2>4, <2>5, <2>6, <2>7, <2>8 DEF Manager!dnsServerTask
<1> QED BY <1>1, <1>2, <1>3, <1>4, <1>5, <1>6, <1>7, <1>8, <1>9, <1>10, <1>11, <1>12, <1>13, <1>14, <1>15, <1>16,
   <1>17, <1>18, <1>19, <1>20, <1>21 DEF Manager!Next, Manager!Begin, Manager!Destructor

LEMMA WaitStep ==
    ASSUME ManagerType, DnsInv, WaitInv, Manager!Next
    PROVE  WaitInv'
<1>1. CASE Manager!begin
  BY <1>1 DEF WaitInv, Manager!begin, Serving, BeforeDns
<1>2. CASE Manager!initWifi
  BY <1>2 DEF WaitInv, Manager!initWifi, Serving, BeforeDns
<1>3. CASE Manager!connectOrPortal
  BY <1>3 DEF WaitInv, Manager!connectOrPortal, Serving, BeforeDns
<1>4. CASE Manager!startDnsServer
  BY <1>4 DEF WaitInv, Manager!startDnsServer, Serving, BeforeDns
<1>5. CASE Manager!startWebServer
  BY <1>5 DEF WaitInv, Manager!startWebServer, Serving, BeforeDns
<1>6. CASE Manager!destroy
  BY <1>6, DestructorSteps DEF WaitInv, Manager!destroy, Serving, BeforeDns
<1>7. CASE Manager!stopDnsServer
  BY <1>7 DEF WaitInv, Manager!stopDnsServer
<1>8. CASE Manager!LookForTask
  <2>1. /\ owner = "look" /\ owner' \in {"wait", "close"} /\ turns = 0 /\ still = 0
        /\ UNCHANGED <<dnsTask, dnsRunning, dnsTaskAlive, dns, turns, still, stalls>>
    BY <1>8 DEF Manager!LookForTask, Manager!fields, WaitInv
  <2>2. Left' = Left /\ Manager!Patience' = Manager!Patience
    BY <2>1 DEF Left, Manager!Patience
  <2>3. still <= Manager!Patience /\ turns + Left + Manager!Patience - still < STOP_TURNS
    BY <2>1, Stretches
  <2> HIDE DEF Left, Manager!Patience
  <2> QED BY <2>1, <2>2, <2>3 DEF WaitInv, Serving
<1>9. CASE Manager!Wait
  <2>1. /\ owner = "wait" /\ UNCHANGED <<dnsTask, dnsRunning, dnsTaskAlive, dns, stalls>>
        /\ turns \in Nat /\ still \in Nat /\ ~dnsRunning
    BY <1>9 DEF Manager!Wait, Manager!fields, ManagerType, WaitInv
  <2>2. Left' = Left /\ Manager!Patience' = Manager!Patience
    BY <2>1 DEF Left, Manager!Patience
  <2>3. CASE dnsTaskAlive /\ turns < STOP_TURNS
    <3>1. /\ owner' = "wait" /\ turns' = turns + 1
          /\ Manager!DnsUses /\ ~stalls => still < Manager!Patience /\ still' = still + 1
      BY <1>9, <2>1, <2>3 DEF Manager!Wait, Manager!Waiting, Manager!TurnPasses
    <3>2. Manager!DnsUses
      BY <2>3 DEF DnsInv, DnsEarly, Manager!DnsUses
    <3>3. ASSUME ~stalls, dnsTask
          PROVE  still' <= Manager!Patience /\ turns' + Left + Manager!Patience - still' < STOP_TURNS
      <4>1. turns + Left + Manager!Patience - still < STOP_TURNS
        BY <2>1, <2>3, <3>3 DEF WaitInv
      <4> QED BY <2>1, <3>1, <3>2, <3>3, <4>1, Stretches
    <3> HIDE DEF Left, Manager!Patience
    <3> QED BY <2>1, <2>2, <3>1, <3>3 DEF WaitInv, Serving, BeforeDns
  <2>4. CASE ~(dnsTaskAlive /\ turns < STOP_TURNS)
    <3>1. owner' = "force" /\ UNCHANGED <<turns, still>>
      BY <1>9, <2>4 DEF Manager!Wait, Manager!Waiting
    <3>2. ~stalls /\ dnsTaskAlive => ~dnsTask
      <4>1. ASSUME ~stalls, dnsTaskAlive, dnsTask PROVE turns < STOP_TURNS
        <5>1. still <= Manager!Patience /\ turns + Left + Manager!Patience - still < STOP_TURNS
          BY <2>1, <4>1 DEF WaitInv
        <5> QED BY <2>1, <5>1, Stretches
      <4> QED BY <2>4, <4>1
    <3> QED BY <2>1, <3>1, <3>2 DEF WaitInv, Serving, BeforeDns
  <2> QED BY <2>3, <2>4
<1>10. CASE Manager!SeeAlive
  BY <1>10 DEF WaitInv, Manager!SeeAlive, Manager!fields, Serving, BeforeDns
<1>11. CASE Manager!DeleteTask
  BY <1>11 DEF WaitInv, Manager!DeleteTask, Serving, BeforeDns
<1>12. CASE Manager!ClearTask
  BY <1>12 DEF WaitInv, Manager!ClearTask, Serving, BeforeDns
<1>13. CASE Manager!CloseSocket
  BY <1>13, DestructorSteps DEF WaitInv, Manager!CloseSocket, Serving, BeforeDns
<1>14. ASSUME NEW s \in {"main", "redirect"}, Manager!StopServer(s) PROVE WaitInv'
  BY <1>14, TakingDown DEF WaitInv, Manager!StopServer, Serving, BeforeDns
<1>15. ASSUME NEW h \in {"wifi", "ip"}, Manager!Unregister(h) PROVE WaitInv'
  BY <1>15, TakingDown DEF WaitInv, Manager!Unregister, Serving, BeforeDns
<1>16. ASSUME NEW r \in {"events", "mutex"}, Manager!Delete(r) PROVE WaitInv'
  BY <1>16, TakingDown DEF WaitInv, Manager!Delete, Serving, BeforeDns
<1>17. CASE Manager!EventArrives
  BY <1>17 DEF WaitInv, Manager!Patience, Left, Manager!EventArrives, Manager!fields
<1>18. CASE Manager!EventHandled
  BY <1>18 DEF WaitInv, Manager!Patience, Left, Manager!EventHandled, Manager!fields
<1>19. CASE Manager!RequestArrives
  BY <1>19 DEF WaitInv, Manager!Patience, Left, Manager!RequestArrives, Manager!fields
<1>20. ASSUME NEW s \in {"main", "redirect"}, Manager!RequestAnswered(s) PROVE WaitInv'
  BY <1>20 DEF WaitInv, Manager!Patience, Left, Manager!RequestAnswered, Manager!fields
<1>21. CASE Manager!dnsServerTask
  <2>0. still' = 0 /\ UNCHANGED <<owner, live, handlers, servers, event, requests, turns, stalls>>
    BY <1>21 DEF Manager!dnsServerTask, Manager!users
  <2>1. CASE Manager!CreateSocket
    <3>1. dns' # "deleted" /\ (dnsTask' => dnsTask) /\ (dnsTaskAlive' => dnsTaskAlive) /\ (dnsRunning' => dnsRunning)
      BY <2>1 DEF Manager!CreateSocket, Manager!Goes
    <3>3. (dns = "socket" /\ dns' = "bind") \/ (dns = "socket" /\ dns' = "leave")
      BY <2>1 DEF Manager!CreateSocket, Manager!Goes
    <3>2. Manager!Patience' = 1 /\ ((Left = 4 /\ Left' = 3) \/ (Left = 4 /\ Left' = 0))
      BY <3>3, LeftAt
    <3> QED BY <2>0, <3>1, <3>2, OneStretchLess
  <2>2. CASE Manager!Bind
    <3>1. dns' # "deleted" /\ (dnsTask' => dnsTask) /\ (dnsTaskAlive' => dnsTaskAlive) /\ (dnsRunning' => dnsRunning)
      BY <2>2 DEF Manager!Bind, Manager!Goes, Manager!fields
    <3>3. (dns = "bind" /\ dns' = "loop") \/ (dns = "bind" /\ dns' = "bind failed")
      BY <2>2 DEF Manager!Bind, Manager!Goes
    <3>2. Manager!Patience' = 1 /\ ((Left = 3 /\ Left' = 1) \/ (Left = 3 /\ Left' = 2))
      BY <3>3, LeftAt
    <3> QED BY <2>0, <3>1, <3>2, OneStretchLess
  <2>3. CASE Manager!GiveSocketBack
    <3>1. dns' # "deleted" /\ (dnsTask' => dnsTask) /\ (dnsTaskAlive' => dnsTaskAlive) /\ (dnsRunning' => dnsRunning)
      BY <2>3 DEF Manager!GiveSocketBack, Manager!Goes
    <3>3. (dns = "bind failed" /\ dns' = "closed") \/ (dns = "closed" /\ dns' = "leave")
      BY <2>3 DEF Manager!GiveSocketBack, Manager!Goes
    <3>2. Manager!Patience' = 1 /\ ((Left = 2 /\ Left' = 1) \/ (Left = 1 /\ Left' = 0))
      BY <3>3, LeftAt
    <3> QED BY <2>0, <3>1, <3>2, OneStretchLess
  <2>4. CASE Manager!Leave
    <3>1. dns' # "deleted" /\ (dnsTask' => dnsTask) /\ (dnsTaskAlive' => dnsTaskAlive) /\ (dnsRunning' => dnsRunning)
      <4>1. /\ dns' # "deleted" /\ dnsTaskAlive' = dnsTaskAlive
            /\ dnsTask' = FALSE \/ dnsTask' = dnsTask
            /\ dnsRunning' = FALSE \/ dnsRunning' = dnsRunning
        BY <2>4 DEF Manager!Leave, Manager!Goes
      <4> QED BY <4>1
    <3>2. ~dnsTask'
      BY <2>4 DEF Manager!Leave, Manager!Goes, DnsInv
    <3> QED BY <2>0, <3>1, <3>2, OneStretchLess
  <2>5. CASE Manager!TestRunning
    <3>1. dns' # "deleted" /\ (dnsTask' => dnsTask) /\ (dnsTaskAlive' => dnsTaskAlive) /\ (dnsRunning' => dnsRunning)
      BY <2>5 DEF Manager!TestRunning, Manager!Goes, Manager!fields
    <3>2. ~dnsRunning => Left' = 0 /\ Left = 1 /\ Manager!Patience' = 1
      BY <2>5 DEF Manager!TestRunning, Manager!Goes, Left, Manager!Patience
    <3> QED BY <2>0, <3>1, <3>2, OneStretchLess
  <2>6. CASE Manager!Received
    <3>1. dns' # "deleted" /\ (dnsTask' => dnsTask) /\ (dnsTaskAlive' => dnsTaskAlive) /\ (dnsRunning' => dnsRunning)
      BY <2>6 DEF Manager!Received, Manager!Goes, Manager!fields
    <3>3. (dns = "recvfrom" /\ dns' = "loop") \/ (dns = "recvfrom" /\ dns' = "answer")
      BY <2>6 DEF Manager!Received, Manager!Goes
    <3>2. Manager!Patience' = 1 /\ ((Left = 3 /\ Left' = 1) \/ (Left = 3 /\ Left' = 2))
      BY <3>3, LeftAt
    <3> QED BY <2>0, <3>1, <3>2, OneStretchLess
  <2>7. CASE Manager!Answered
    <3>1. dns' # "deleted" /\ (dnsTask' => dnsTask) /\ (dnsTaskAlive' => dnsTaskAlive) /\ (dnsRunning' => dnsRunning)
      BY <2>7 DEF Manager!Answered, Manager!Goes, Manager!fields
    <3>3. (dns = "answer" /\ dns' = "loop")
      BY <2>7 DEF Manager!Answered, Manager!Goes
    <3>2. Manager!Patience' = 1 /\ ((Left = 2 /\ Left' = 1))
      BY <3>3, LeftAt
    <3> QED BY <2>0, <3>1, <3>2, OneStretchLess
  <2>8. CASE Manager!End
    <3>1. dns' # "deleted" /\ (dnsTask' => dnsTask) /\ (dnsTaskAlive' => dnsTaskAlive) /\ (dnsRunning' => dnsRunning)
      BY <2>8 DEF Manager!End, Manager!Goes
    <3>2. ~dnsTaskAlive'
      BY <2>8 DEF Manager!End
    <3> QED BY <2>0, <3>1, <3>2, OneStretchLess
  <2> QED BY <1>21, <2>1, <2>2, <2>3, <2>4, <2>5, <2>6, <2>7, <2>8 DEF Manager!dnsServerTask
<1> QED BY <1>1, <1>2, <1>3, <1>4, <1>5, <1>6, <1>7, <1>8, <1>9, <1>10, <1>11, <1>12, <1>13, <1>14, <1>15, <1>16,
   <1>17, <1>18, <1>19, <1>20, <1>21 DEF Manager!Next, Manager!Begin, Manager!Destructor

LEMMA ManagerInit == ASSUME Init PROVE ManagerInv
<1>1. Manager!Init
  BY DEF Init
<1>2. ManagerType /\ LiveInv
  BY <1>1 DEF Manager!Init, ManagerType, LiveInv, Serving, BeforeDns, DnsPlaces
<1>3. DnsInv
  BY <1>1 DEF Manager!Init, DnsInv, DnsEarly
<1>4. WaitInv
  BY <1>1 DEF Manager!Init, WaitInv
<1> QED BY <1>2, <1>3, <1>4 DEF ManagerInv

LEMMA ManagerNext == ASSUME ManagerInv, [Next]_vars PROVE ManagerInv'
<1>1. CASE ManagerRuns
  BY <1>1, ManagerKeepsType, LiveStep, DnsStep, WaitStep DEF ManagerRuns, ManagerInv
<1>2. CASE UNCHANGED managerVars
  <2>1. UNCHANGED <<owner, live, handlers, servers, event, requests,
                    dnsTask, dnsRunning, dnsTaskAlive, dnsSocket, dns, open, turns, still, stalls>>
    BY <1>2 DEF managerVars
  <2>2. ManagerType' /\ LiveInv'
    BY <2>1 DEF ManagerInv, ManagerType, LiveInv
  <2>3. Left' = Left /\ Manager!Patience' = Manager!Patience
    BY <2>1 DEF Left, Manager!Patience
  <2>4. DnsInv'
    BY <2>1 DEF ManagerInv, DnsInv
  <2>5. WaitInv'
    BY <2>1, <2>3 DEF ManagerInv, WaitInv
  <2> QED BY <2>2, <2>4, <2>5 DEF ManagerInv
<1> QED BY <1>1, <1>2, OnePartRuns

(* Nobody uses what ~WiFiSetupManager took away: the event loop's and the  *)
(* servers' handlers end before, and the DNS task is asked to end, and     *)
(* does within the time that stopDnsServer() waits.  The exceptions are    *)
(* the last stores of its error exit, and a task that may not run for all  *)
(* that time.                                                              *)
THEOREM ManagerOutlivesUsers == Spec => []UsersOutlived
<1>1. Init => ManagerInv
  BY ManagerInit
<1>2. ManagerInv /\ [Next]_vars => ManagerInv'
  BY ManagerNext
<1>3. ASSUME ManagerInv PROVE UsersOutlived
  <2>1. event # "none" => {"object", "events"} \subseteq live
    BY <1>3 DEF ManagerInv, ManagerType, LiveInv
  <2>2. requests # {} => {"object", "mutex"} \subseteq live
    BY <1>3 DEF ManagerInv, ManagerType, LiveInv, ServersGone
  <2>3. Manager!DnsUses /\ "object" \notin live => dns \in {"task cleared", "last"}
    BY <1>3 DEF ManagerInv, ManagerType, LiveInv, DnsInv, Manager!DnsUses, DnsPlaces, AfterClose, ServersGone
  <2>4. /\ ~stalls => dns # "deleted"
        /\ dns \in {"recvfrom", "answer"} => open
        /\ owner = "gone" => ~open
    BY <1>3 DEF ManagerInv, WaitInv, DnsInv, AfterClose, ServersGone
  <2> QED BY <2>1, <2>2, <2>3, <2>4 DEF UsersOutlived, Manager!UsersOutlived
<1> QED BY <1>1, <1>2, <1>3, PTL DEF Spec
=============================================================================
