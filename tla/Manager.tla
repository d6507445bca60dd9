------------------------------ MODULE Manager ------------------------------
(***************************************************************************)
(* The life of a WiFiSetupManager, from its constructor through begin() to *)
(* its destructor, all on the application's task, and the tasks that use   *)
(* the object meanwhile: the event loop, the servers, and the DNS task of  *)
(* the captive portal, which stopDnsServer() asks to end and waits for.    *)
(*                                                                         *)
(* Time counts in the 20 ms turns of that wait.  httpd_stop() returns when *)
(* no handler runs, and unregistering waits for a handler that runs.       *)
(***************************************************************************)
EXTENDS Naturals, Sequences, SequencesExt

CONSTANTS
    RECV_TURNS,     \* DNS_RECV_TIMEOUT_MS: the longest recvfrom()
    STOP_TURNS      \* the turns stopDnsServer() waits

(* 250 ms are 13 turns, of 50.  After a receive the DNS task has three more *)
(* stretches to go, and five from its start to where it clears its handle. *)
TurnsAssumption ==
    /\ RECV_TURNS \in Nat /\ STOP_TURNS \in Nat
    /\ RECV_TURNS + 3 < STOP_TURNS /\ 5 < STOP_TURNS

VARIABLES
    owner,          \* where the application's task is
    live,           \* of the object, its event group and its mutex
    handlers,       \* registered with the event loop
    servers,        \* of _host: the main one, and the redirecting one
    event,          \* the handler the event loop is in
    requests,       \* the servers in whose handlers a request is
    dnsTask, dnsRunning, dnsTaskAlive, dnsSocket,   \* the fields, the handles as "is set"
    dns,            \* where the DNS task is
    open,           \* is its socket open
    turns,          \* of the wait
    still,          \* turns since the DNS task last went on
    stalls          \* can the DNS task be kept from running

fields == <<dnsTask, dnsRunning, dnsTaskAlive, dnsSocket>>
users == <<event, requests>>
vars == <<owner, live, handlers, servers, users, fields, dns, open, turns, still, stalls>>

Init ==
    /\ owner = "built"
    /\ live = {"object", "mutex"}
    /\ handlers = {} /\ servers = {}
    /\ event = "none" /\ requests = {}
    /\ dnsTask = FALSE /\ dnsRunning = FALSE /\ dnsTaskAlive = FALSE /\ dnsSocket = FALSE
    /\ dns = "none" /\ open = FALSE
    /\ turns = 0 /\ still = 0
    /\ stalls \in BOOLEAN

-----------------------------------------------------------------------------
(* begin() *)

begin ==
    /\ owner = "built"
    /\ live' = live \cup {"events"}
    /\ owner' = "register wifi"
    /\ UNCHANGED <<handlers, servers, users, fields, dns, open, turns, still, stalls>>

(* initWifi: a failure, of anything before the handlers or of theirs, ends *)
(* begin().                                                                *)
initWifi ==
    /\ \/ owner \in {"register wifi", "register ip"} /\ owner' = "idle" /\ UNCHANGED handlers
       \/ owner = "register wifi" /\ owner' = "register ip" /\ handlers' = handlers \cup {"wifi"}
       \/ owner = "register ip" /\ owner' = "join" /\ handlers' = handlers \cup {"ip"}
    /\ UNCHANGED <<live, servers, users, fields, dns, open, turns, still, stalls>>

(* The network, or the hotspot if there is none or it does not answer; a   *)
(* hotspot that cannot be started leaves neither.                          *)
connectOrPortal ==
    /\ owner = "join"
    /\ owner' \in {"serve", "start dns", "idle"}
    /\ UNCHANGED <<live, handlers, servers, users, fields, dns, open, turns, still, stalls>>

startDnsServer ==
    /\ owner = "start dns" /\ ~dnsTask
    /\ owner' = "serve portal"
    /\ \/ dnsRunning' = TRUE /\ dnsTaskAlive' = TRUE /\ dnsTask' = TRUE /\ dns' = "socket"
       \/ UNCHANGED <<dnsRunning, dnsTaskAlive, dnsTask, dns>>     \* xTaskCreate failed
    /\ UNCHANGED <<live, handlers, servers, users, dnsSocket, open, turns, still, stalls>>

(* Setup mode is plain HTTP. *)
startWebServer ==
    /\ owner \in {"serve", "serve portal"}
    /\ owner' = "idle"
    /\ \/ servers' \in {{}, {"main"}}
       \/ owner = "serve" /\ servers' = {"main", "redirect"}
    /\ UNCHANGED <<live, handlers, users, fields, dns, open, turns, still, stalls>>

-----------------------------------------------------------------------------
(* The destructor *)

EventsDeletedFirst ==
    <<"stop dns", "stop redirect", "stop main", "delete events", "unregister wifi", "unregister ip", "delete mutex">>
DestructorOrder ==
    <<"stop dns", "stop redirect", "stop main", "unregister wifi", "unregister ip", "delete events", "delete mutex">>

Following(step) ==
    LET i == CHOOSE i \in DOMAIN DestructorOrder : DestructorOrder[i] = step
    IN  IF i = Len(DestructorOrder) THEN "gone" ELSE DestructorOrder[i + 1]

destroy ==
    /\ owner \in {"built", "idle"}
    /\ owner' = DestructorOrder[1]
    /\ UNCHANGED <<live, handlers, servers, users, fields, dns, open, turns, still, stalls>>

stopDnsServer ==
    /\ owner = "stop dns"
    /\ dnsRunning' = FALSE
    /\ owner' = "look"
    /\ UNCHANGED <<live, handlers, servers, users, dnsTask, dnsTaskAlive, dnsSocket, dns, open, turns, still, stalls>>

LookForTask ==
    /\ owner = "look"
    /\ owner' = IF dnsTask THEN "wait" ELSE "close"
    /\ UNCHANGED <<live, handlers, servers, users, fields, dns, open, turns, still, stalls>>

(* How long the DNS task stays where it is, unless it stalls: a receive    *)
(* times out, and the rest takes no time to speak of.                      *)
Patience == IF dns = "recvfrom" THEN RECV_TURNS ELSE 1

DnsUses == dns \notin {"none", "ended", "deleted"}
TurnPasses ==
    /\ DnsUses /\ ~stalls => still < Patience
    /\ still' = IF DnsUses /\ ~stalls THEN still + 1 ELSE 0

WaitingAlways == dnsTaskAlive
Waiting == dnsTaskAlive /\ turns < STOP_TURNS

Wait ==
    /\ owner = "wait"
    /\ IF Waiting
       THEN /\ TurnPasses
            /\ turns' = IF turns < STOP_TURNS THEN turns + 1 ELSE turns
            /\ UNCHANGED owner
       ELSE owner' = "force" /\ UNCHANGED <<turns, still>>
    /\ UNCHANGED <<live, handlers, servers, users, fields, dns, open, stalls>>

SeeAlive ==
    /\ owner = "force"
    /\ owner' = IF dnsTaskAlive THEN "delete task" ELSE "clear task"
    /\ UNCHANGED <<live, handlers, servers, users, fields, dns, open, turns, still, stalls>>

(* vTaskDelete() of a null handle deletes the caller. *)
DeleteTask ==
    /\ owner = "delete task"
    /\ IF dnsTask
       THEN /\ dns' = IF dns = "ended" THEN dns ELSE "deleted"
            /\ dnsTaskAlive' = FALSE
            /\ owner' = "clear task"
       ELSE owner' = "deleted" /\ UNCHANGED <<dns, dnsTaskAlive>>
    /\ UNCHANGED <<live, handlers, servers, users, dnsTask, dnsRunning, dnsSocket, open, turns, still, stalls>>

ClearTask ==
    /\ owner = "clear task"
    /\ dnsTask' = FALSE
    /\ owner' = "close"
    /\ UNCHANGED <<live, handlers, servers, users, dnsRunning, dnsTaskAlive, dnsSocket, dns, open, turns, still, stalls>>

CloseSocket ==
    /\ owner = "close"
    /\ open' = (open /\ ~dnsSocket)
    /\ dnsSocket' = FALSE
    /\ owner' = Following("stop dns")
    /\ UNCHANGED <<live, handlers, servers, users, dnsTask, dnsRunning, dnsTaskAlive, dns, turns, still, stalls>>

StopStep == [redirect |-> "stop redirect", main |-> "stop main"]
UnregisterStep == [wifi |-> "unregister wifi", ip |-> "unregister ip"]
DeleteStep == [events |-> "delete events", mutex |-> "delete mutex"]

(* ServerHost::stop: the redirecting server, then the main one. *)
StopServer(s) ==
    /\ owner = StopStep[s] /\ s \notin requests
    /\ servers' = servers \ {s}
    /\ owner' = Following(owner)
    /\ UNCHANGED <<live, handlers, users, fields, dns, open, turns, still, stalls>>

Unregister(h) ==
    /\ owner = UnregisterStep[h] /\ event # h
    /\ handlers' = handlers \ {h}
    /\ owner' = Following(owner)
    /\ UNCHANGED <<live, servers, users, fields, dns, open, turns, still, stalls>>

Delete(resource) ==
    /\ owner = DeleteStep[resource]
    /\ owner' = Following(owner)
    /\ live' = IF owner' = "gone" THEN {} ELSE live \ {resource}
    /\ UNCHANGED <<handlers, servers, users, fields, dns, open, turns, still, stalls>>

-----------------------------------------------------------------------------
(* The event loop, and the servers' tasks. *)

EventArrives ==
    /\ event = "none" /\ event' \in handlers
    /\ UNCHANGED <<owner, live, handlers, servers, requests, fields, dns, open, turns, still, stalls>>

EventHandled ==
    /\ event # "none" /\ event' = "none"
    /\ UNCHANGED <<owner, live, handlers, servers, requests, fields, dns, open, turns, still, stalls>>

RequestArrives ==
    /\ \E s \in servers \ requests : requests' = requests \cup {s}
    /\ UNCHANGED <<owner, live, handlers, servers, event, fields, dns, open, turns, still, stalls>>

RequestAnswered(s) ==
    /\ s \in requests /\ requests' = requests \ {s}
    /\ UNCHANGED <<owner, live, handlers, servers, event, fields, dns, open, turns, still, stalls>>

-----------------------------------------------------------------------------
(* dnsServerTask *)

Goes(from, to) == dns = from /\ dns' = to

CreateSocket ==
    /\ \/ Goes("socket", "bind") /\ dnsSocket' = TRUE /\ open' = TRUE
       \/ Goes("socket", "leave") /\ dnsSocket' = FALSE /\ UNCHANGED open
    /\ UNCHANGED <<dnsTask, dnsRunning, dnsTaskAlive>>

Bind ==
    /\ Goes("bind", "loop") \/ Goes("bind", "bind failed")
    /\ UNCHANGED <<fields, open>>

GiveSocketBack ==
    /\ \/ Goes("bind failed", "closed") /\ open' = FALSE /\ UNCHANGED dnsSocket
       \/ Goes("closed", "leave") /\ dnsSocket' = FALSE /\ UNCHANGED open
    /\ UNCHANGED <<dnsTask, dnsRunning, dnsTaskAlive>>

(* The error exits' stores, in their order. *)
Leave ==
    /\ \/ Goes("leave", "task cleared") /\ dnsTask' = FALSE /\ UNCHANGED <<dnsRunning, dnsTaskAlive>>
       \/ Goes("task cleared", "last") /\ dnsRunning' = FALSE /\ UNCHANGED <<dnsTask, dnsTaskAlive>>
    /\ UNCHANGED <<dnsSocket, open>>

TestRunning ==
    /\ Goes("loop", IF dnsRunning THEN "recvfrom" ELSE "last")
    /\ UNCHANGED <<fields, open>>

Received ==
    /\ Goes("recvfrom", "loop") \/ Goes("recvfrom", "answer")     \* nothing, or a query
    /\ UNCHANGED <<fields, open>>

Answered ==
    /\ Goes("answer", "loop")
    /\ UNCHANGED <<fields, open>>

(* The last access to the manager. *)
End ==
    /\ Goes("last", "ended") /\ dnsTaskAlive' = FALSE
    /\ UNCHANGED <<dnsTask, dnsRunning, dnsSocket, open>>

dnsServerTask ==
    /\ CreateSocket \/ Bind \/ GiveSocketBack \/ Leave \/ TestRunning \/ Received \/ Answered \/ End
    /\ still' = 0
    /\ UNCHANGED <<owner, live, handlers, servers, users, turns, stalls>>

-----------------------------------------------------------------------------
Begin == begin \/ initWifi \/ connectOrPortal \/ startDnsServer \/ startWebServer
Destructor ==
    \/ stopDnsServer \/ LookForTask \/ Wait \/ SeeAlive \/ DeleteTask \/ ClearTask \/ CloseSocket
    \/ \E s \in {"main", "redirect"} : StopServer(s)
    \/ \E h \in {"wifi", "ip"} : Unregister(h)
    \/ \E r \in {"events", "mutex"} : Delete(r)

Next ==
    \/ Begin \/ destroy \/ Destructor
    \/ EventArrives \/ EventHandled \/ RequestArrives
    \/ \E s \in {"main", "redirect"} : RequestAnswered(s)
    \/ dnsServerTask

(* A destructor that was called runs on: it gets its turn with the event   *)
(* loop and with a server between two of their calls, however many come.   *)
(* Handlers return, and the DNS task runs where it does not stall.         *)
Fairness ==
    /\ SF_vars(Destructor)
    /\ WF_vars(EventHandled)
    /\ \A s \in {"main", "redirect"} : WF_vars(RequestAnswered(s))
    /\ WF_vars(~stalls /\ dnsServerTask)

Spec == Init /\ [][Next]_vars /\ Fairness

-----------------------------------------------------------------------------
(* Nobody uses what is gone: not the event loop's handlers the event group *)
(* or the object, not a request's the mutex, not the DNS task the object.  *)
(* The exception is the DNS task's error exit, which clears the handle     *)
(* before its last stores, so that nobody waits for it any more.  And the  *)
(* DNS task is asked to end, never deleted in recvfrom() or sendto(), nor  *)
(* its socket closed under it: the wait is longer than a receive.          *)
UsersOutlived ==
    /\ event # "none" => {"object", "events"} \subseteq live
    /\ requests # {} => {"object", "mutex"} \subseteq live
    /\ DnsUses /\ "object" \notin live => dns \in {"task cleared", "last"}
    /\ ~stalls => dns # "deleted"
    /\ dns \in {"recvfrom", "answer"} => open
    /\ owner = "gone" => ~open

(* The destructor comes to an end, even if the DNS task never runs again.  *)
DestructorEnds == (owner = DestructorOrder[1]) ~> (owner \in {"gone", "deleted"})
=============================================================================
