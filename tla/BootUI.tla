------------------------------- MODULE BootUI -------------------------------
(***************************************************************************)
(* WiFiSetupBootUI: two widgets on LVGL's screen and the members of an     *)
(* object that point to them.  The widgets belong to LVGL, and whoever     *)
(* deletes one runs its delete callback, which nulls the member whose      *)
(* ADDRESS the callback was given.  The object can be moved, and the       *)
(* members have another address then.                                      *)
(*                                                                         *)
(* LVGL is used by one task; BootScreen is about the others.  A widget     *)
(* that was freed is not on the screen, and its address can come again.    *)
(***************************************************************************)
EXTENDS FiniteSets, Functions

CONSTANTS UIs, Widgets, None

Kinds == {"text", "title"}      \* _textArea, _titleLabel
Members == UIs \X Kinds
WidgetsAssumption == None \notin Widgets /\ Cardinality(Members) <= Cardinality(Widgets)

VARIABLES
    alive,      \* the objects that exist
    ready,      \* _initialized
    lvgl        \* what the members hold, and the addresses each live widget calls back

vars == <<alive, ready, lvgl>>

Init ==
    /\ alive = {}
    /\ ready = [u \in UIs |-> FALSE]
    /\ lvgl = [member |-> [m \in Members |-> None], callback |-> <<>>]

OnScreen(s) == DOMAIN s.callback
Held(s, u) == {s.member[<<u, k>>] : k \in Kinds} \ {None}
Emptied(s, u) == [s EXCEPT !.member = [m \in Members |-> IF m[1] = u THEN None ELSE @[m]]]

(* onObjectDeleted, for every widget that goes. *)
Deleted(s, ws) ==
    [member   |-> [m \in Members |-> IF \E w \in ws \cap OnScreen(s) : m \in s.callback[w]
                                     THEN None ELSE s.member[m]],
     callback |-> Restrict(s.callback, OnScreen(s) \ ws)]

CleanedUp(s, u) == Emptied(Deleted(s, Held(s, u)), u)

(* createTitle, createTextArea: a widget is made of free memory, or there  *)
(* is none and the member is null.                                         *)
Created(s, u, made) ==
    [member   |-> [m \in Members |->
                      IF m[1] # u THEN s.member[m]
                      ELSE IF m[2] \in DOMAIN made THEN made[m[2]] ELSE None],
     callback |-> [w \in OnScreen(s) \cup Range(made) |->
                      IF w \in Range(made) THEN {<<u, k>> : k \in {k \in DOMAIN made : made[k] = w}}
                      ELSE s.callback[w]]]

NotRebound(callbacks, u, v) == callbacks

(* rebindDeleteCallback, for both members. *)
Rebound(callbacks, u, v) ==
    {m \in callbacks : m[1] # u} \cup {<<v, m[2]>> : m \in {m \in callbacks : m[1] = u}}

Moved(s, u, v) ==
    Emptied([member   |-> [m \in Members |-> IF m[1] = v THEN s.member[<<u, m[2]>>] ELSE s.member[m]],
             callback |-> [w \in OnScreen(s) |-> IF w \in Held(s, u) THEN Rebound(s.callback[w], u, v)
                                                 ELSE s.callback[w]]], u)

-----------------------------------------------------------------------------
Construct(u) ==
    /\ u \notin alive
    /\ alive' = alive \cup {u}
    /\ ready' = [ready EXCEPT ![u] = FALSE]
    /\ lvgl' = Emptied(lvgl, u)

(* A screen without dimensions is refused before anything is made. *)
initialize(u) ==
    /\ u \in alive /\ ~ready[u]
    /\ \E kinds \in SUBSET Kinds : \E made \in Injection(kinds, Widgets \ OnScreen(lvgl)) :
          /\ ready' = [ready EXCEPT ![u] = (kinds = Kinds)]
          /\ LET s == Created(lvgl, u, made) IN lvgl' = IF kinds = Kinds THEN s ELSE CleanedUp(s, u)
    /\ UNCHANGED alive

cleanup(u) ==
    /\ u \in alive
    /\ ready' = [ready EXCEPT ![u] = FALSE]
    /\ lvgl' = CleanedUp(lvgl, u)
    /\ UNCHANGED alive

Destroy(u) ==
    /\ u \in alive
    /\ alive' = alive \ {u}
    /\ ready' = [ready EXCEPT ![u] = FALSE]
    /\ lvgl' = CleanedUp(lvgl, u)

MoveConstruct(u, v) ==
    /\ u \in alive /\ v \notin alive
    /\ alive' = alive \cup {v}
    /\ ready' = [ready EXCEPT ![v] = ready[u], ![u] = FALSE]
    /\ lvgl' = Moved(lvgl, u, v)

MoveAssign(u, v) ==
    /\ u # v /\ {u, v} \subseteq alive
    /\ ready' = [ready EXCEPT ![v] = ready[u], ![u] = FALSE]
    /\ lvgl' = Moved(CleanedUp(lvgl, v), u, v)
    /\ UNCHANGED alive

(* The consumer deletes widgets, one or all: lv_obj_clean(). *)
ConsumerDeletes ==
    /\ \E ws \in SUBSET OnScreen(lvgl) : ws # {} /\ lvgl' = Deleted(lvgl, ws)
    /\ UNCHANGED <<alive, ready>>

Next ==
    \/ \E u \in UIs : Construct(u) \/ initialize(u) \/ cleanup(u) \/ Destroy(u)
    \/ \E u, v \in UIs : MoveConstruct(u, v) \/ MoveAssign(u, v)
    \/ ConsumerDeletes

Spec == Init /\ [][Next]_vars

-----------------------------------------------------------------------------
(* The members and the screen agree, wherever the object was moved and     *)
(* whoever deleted what: a member that is set points to a live widget that *)
(* will null exactly this member, so that nothing is deleted or written    *)
(* twice, and every widget is held by an object that exists, so that none  *)
(* stays behind on the screen.                                             *)
MembersMatchScreen ==
    /\ \A m \in Members : lvgl.member[m] # None =>
          m[1] \in alive /\ lvgl.member[m] \in OnScreen(lvgl) /\ lvgl.callback[lvgl.member[m]] = {m}
    /\ \A w \in OnScreen(lvgl) : \E m \in Members : lvgl.member[m] = w
=============================================================================
