---------------------------- MODULE LogCallback ----------------------------
(***************************************************************************)
(* The output callback of the logger: any task may log, and any task may   *)
(* replace the callback, also from inside it.  A callback is an object     *)
(* behind a shared_ptr; its destructor and its body are the application's  *)
(* and may log themselves.                                                 *)
(*                                                                         *)
(* A task is a stack of frames, the innermost last: addEntry() ("log", or  *)
(* "unwind" while an exception of the callback leaves its try block) and   *)
(* setOutputCallback() ("set").  Only what addEntry() does after the       *)
(* buffer is modelled; Logger has the rest.                                *)
(***************************************************************************)
EXTENDS Integers, Sequences, FiniteSets, SequencesExt

CONSTANTS
    Tasks,
    Callbacks,      \* each is set once; their number is a bound
    None,
    EarlyTasks,     \* tasks that log, or set the callback, before begin()
    MaxDepth        \* bound: frames on a task

CallbackAssumption == None \notin Callbacks /\ None \notin Tasks /\ MaxDepth \in Nat
EarlyAssumption == EarlyTasks \subseteq Tasks

VARIABLES
    outputCallback,
    count,          \* shared_ptr count of each callback
    inOutputCallback,   \* thread_local
    begun,          \* begin() has made _mutex
    holder,         \* of _mutex
    stack,
    made, destroyed

vars == <<outputCallback, count, inOutputCallback, begun, holder, stack, made, destroyed>>

Init ==
    /\ outputCallback = None
    /\ count = [c \in Callbacks |-> 0]
    /\ inOutputCallback = [t \in Tasks |-> FALSE]
    /\ begun = FALSE /\ holder = None
    /\ stack = [t \in Tasks |-> <<>>]
    /\ made = {} /\ destroyed = {}

Top(t) == Last(stack[t])
At(t, op, at) == stack[t] # <<>> /\ Top(t).op = op /\ Top(t).at = at
Return(t) == stack' = [stack EXCEPT ![t] = Front(@)]
Go(t, at, callback) ==
    stack' = [stack EXCEPT ![t] = Front(@) \o <<[op |-> Top(t).op, at |-> at, callback |-> callback]>>]

(* The application's code runs: the task's own, or a callback's body, or a *)
(* callback's destructor.                                                  *)
Outside(t) == stack[t] # <<>> => Top(t).at \in {"run", "destroy"}
Call(t, op, at, callback) ==
    /\ Outside(t) /\ Len(stack[t]) < MaxDepth
    /\ begun \/ t \in EarlyTasks
    /\ UNCHANGED begun
    /\ stack' = [stack EXCEPT ![t] = Append(@, [op |-> op, at |-> at, callback |-> callback])]

Free == ~begun \/ holder = None

begin(t) ==
    /\ t \in EarlyTasks /\ Outside(t) /\ ~begun
    /\ begun' = TRUE
    /\ UNCHANGED <<outputCallback, count, inOutputCallback, holder, stack, made, destroyed>>

-----------------------------------------------------------------------------
(* setOutputCallback.  `next` is declared before `lock`: what it holds     *)
(* after the swap is released when the mutex is free again.                *)
DropFirst == <<"drop", "unlock">>
LeaveOrder == <<"unlock", "drop">>

(* An exception destroys what is local to the try block on its way to the  *)
(* catch.                                                                  *)
After(op, at) ==
    IF op = "set" /\ at = LeaveOrder[1] THEN LeaveOrder[2]
    ELSE IF op = "unwind" /\ at = "drop" THEN "catch"
    ELSE "end"

setOutputCallback(t, c) ==
    /\ c \notin made
    /\ Call(t, "set", "swap", c)
    /\ made' = made \cup ({c} \ {None})
    /\ count' = IF c = None THEN count ELSE [count EXCEPT ![c] = 1]
    /\ UNCHANGED <<outputCallback, inOutputCallback, holder, destroyed>>

Swap(t) ==
    /\ At(t, "set", "swap") /\ Free
    /\ outputCallback' = Top(t).callback
    /\ holder' = IF begun THEN t ELSE None
    /\ Go(t, LeaveOrder[1], outputCallback)
    /\ UNCHANGED <<count, inOutputCallback, made, destroyed>>

Leave(t, at, callback) ==
    IF After(Top(t).op, at) = "end" THEN Return(t) ELSE Go(t, After(Top(t).op, at), callback)

Unlock(t) ==
    /\ At(t, "set", "unlock")
    /\ holder' = None
    /\ Leave(t, "unlock", Top(t).callback)
    /\ UNCHANGED <<outputCallback, count, inOutputCallback, made, destroyed>>

DropNothing(t) ==
    /\ At(t, "set", "drop") /\ Top(t).callback = None
    /\ Leave(t, "drop", None)
    /\ UNCHANGED <<outputCallback, count, inOutputCallback, holder, made, destroyed>>

-----------------------------------------------------------------------------
(* addEntry *)
Log(t) ==
    /\ Call(t, "log", "copy", None)
    /\ UNCHANGED <<outputCallback, count, inOutputCallback, holder, made, destroyed>>

Barred(t) == inOutputCallback[t]

EnterUncounted(t, c) ==
    /\ UNCHANGED count
    /\ inOutputCallback' = [inOutputCallback EXCEPT ![t] = TRUE]
    /\ Go(t, "run", c)
(* The copy of the shared_ptr counts until the callback has returned.      *)
Enter(t, c) ==
    /\ count' = [count EXCEPT ![c] = @ + 1]
    /\ inOutputCallback' = [inOutputCallback EXCEPT ![t] = TRUE]
    /\ Go(t, "run", c)

NoCallback(t) ==
    /\ At(t, "log", "copy") /\ (Barred(t) \/ (Free /\ outputCallback = None))
    /\ Return(t)
    /\ UNCHANGED <<outputCallback, count, inOutputCallback, holder, made, destroyed>>

(* The copy is made under the mutex.                                       *)
CopyLocked == begun /\ holder = None /\ outputCallback # None

CopyCallback(t) ==
    /\ At(t, "log", "copy") /\ ~Barred(t) /\ CopyLocked
    /\ Enter(t, outputCallback)
    /\ UNCHANGED <<outputCallback, holder, made, destroyed>>

(* There is no mutex before begin(): the pointer, then its count.          *)
LoadCallback(t) ==
    /\ At(t, "log", "copy") /\ ~Barred(t) /\ ~begun /\ outputCallback # None
    /\ Go(t, "loaded", outputCallback)
    /\ UNCHANGED <<outputCallback, count, inOutputCallback, holder, made, destroyed>>

HoldCallback(t) ==
    /\ At(t, "log", "loaded")
    /\ Enter(t, Top(t).callback)
    /\ UNCHANGED <<outputCallback, holder, made, destroyed>>

Cleared(t) == [inOutputCallback EXCEPT ![t] = FALSE]

CallbackReturns(t) ==
    /\ At(t, "log", "run")
    /\ inOutputCallback' = Cleared(t)
    /\ Go(t, "drop", Top(t).callback)
    /\ UNCHANGED <<outputCallback, count, holder, made, destroyed>>

(* The copy goes before the catch: a destructor it may be the last for     *)
(* runs with the flag still set.                                           *)
CallbackThrows(t) ==
    /\ At(t, "log", "run")
    /\ stack' = [stack EXCEPT ![t] = Front(@) \o <<[op |-> "unwind", at |-> "drop", callback |-> Top(t).callback]>>]
    /\ UNCHANGED <<outputCallback, count, inOutputCallback, holder, made, destroyed>>

Catch(t) ==
    /\ At(t, "unwind", "catch")
    /\ inOutputCallback' = Cleared(t)
    /\ Return(t)
    /\ UNCHANGED <<outputCallback, count, holder, made, destroyed>>

-----------------------------------------------------------------------------
(* ~shared_ptr, in either function: the last one destroys.                 *)
Drop(t) ==
    /\ stack[t] # <<>> /\ Top(t).at = "drop" /\ Top(t).callback # None
    /\ count' = [count EXCEPT ![Top(t).callback] = @ - 1]
    /\ IF count'[Top(t).callback] = 0 THEN Go(t, "destroy", Top(t).callback) ELSE Leave(t, "drop", None)
    /\ UNCHANGED <<outputCallback, inOutputCallback, holder, made, destroyed>>

Destroyed(t) ==
    /\ stack[t] # <<>> /\ Top(t).at = "destroy"
    /\ destroyed' = destroyed \cup {Top(t).callback}
    /\ Leave(t, "drop", None)
    /\ UNCHANGED <<outputCallback, count, inOutputCallback, holder, made>>

addEntry(t) ==
    \/ NoCallback(t) \/ CopyCallback(t) \/ LoadCallback(t) \/ HoldCallback(t)
    \/ CallbackReturns(t) \/ CallbackThrows(t) \/ Catch(t)

Next == \E t \in Tasks :
    \/ begin(t)
    \/ Log(t) \/ \E c \in Callbacks \cup {None} : setOutputCallback(t, c)
    \/ /\ addEntry(t) \/ Swap(t) \/ Unlock(t) \/ DropNothing(t) \/ Drop(t) \/ Destroyed(t)
       /\ UNCHANGED begun

Spec == Init /\ [][Next]_vars

-----------------------------------------------------------------------------
Running(t) == {i \in DOMAIN stack[t] : stack[t][i].op = "log" /\ stack[t][i].at = "run"}
Unwinding(t) == {i \in DOMAIN stack[t] : stack[t][i].op = "unwind"}

(* A callback that runs on one task exists until it returns, whoever       *)
(* replaces it meanwhile, also the callback itself.  And when all is quiet *)
(* every callback but the current one is destroyed.                        *)
CallbackLifetime ==
    /\ \A t \in Tasks : \A i \in Running(t) : stack[t][i].callback \notin destroyed
    /\ (\A t \in Tasks : stack[t] = <<>>) => destroyed = made \ {outputCallback}

(* A line logged from inside a callback, or by the destructor of one that  *)
(* it replaces, is not fed back: no task runs two callbacks.  The flag that *)
(* bars it stands for the one that runs or is left by an exception, whose  *)
(* destructor may log in turn, and for nothing else: behind the return or  *)
(* the catch the task's lines go to the callback again.  Nor does a task   *)
(* ask for the mutex, which a destructor that logs takes, while it holds   *)
(* it.                                                                     *)
NotReentered == \A t \in Tasks :
    /\ Cardinality(Running(t) \cup Unwinding(t)) <= 1
    /\ inOutputCallback[t] <=> Running(t) \cup Unwinding(t) # {}
    /\ holder = t => ~At(t, "set", "swap") /\ ~(At(t, "log", "copy") /\ ~Barred(t))
=============================================================================
