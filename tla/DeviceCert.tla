----------------------------- MODULE DeviceCert -----------------------------
(***************************************************************************)
(* The HTTPS certificate: its entries in NVS namespace "pf_tls", the       *)
(* requests that change them, and the boot that loads or makes a           *)
(* certificate and starts the server with it (ServerHost).                 *)
(*                                                                         *)
(* Every nvs_set and nvs_erase_key is in flash when it returns, so a power *)
(* cut or an error leaves the ones before it.  The requests run one at a   *)
(* time on the server task; an application may call factoryReset() on its  *)
(* own.  PEM, X.509 and the socket layer are external: a certificate is    *)
(* the key it is for, the name it is for and who signed it.                *)
(***************************************************************************)
EXTENDS Naturals, Sequences

CONSTANTS
    Hosts, NoHost,
    CAs, Nobody,    \* the user's authorities; no authority, or the device's own key
    MaxKeys,        \* bound: keys the device makes
    MaxOpenSockets, \* WiFiSetupConfig::maxOpenSockets, the values to check
    Events,         \* "rename", "revert", "reset", "app": factoryReset() from the application,
                    \* "overlap": a request while an earlier one's restart is due
    Faults          \* "power", "flash", and "tls": no certificate or no TLS server

ASSUME NamesAssumption == NoHost \notin Hosts /\ Nobody \notin CAs
ASSUME BoundsAssumption == MaxKeys \in Nat /\ MaxOpenSockets \subseteq Nat

VARIABLES
    nvs,            \* the entries
    hostname,       \* the device name, stored elsewhere
    stage,          \* "boot", "store" (a new certificate), "serving"
    todo,           \* the NVS calls still to make, for
    op,             \* "idle", "store", "https", "install", "revert" or "clear"
    made,           \* the certificate and key made, or verified, that it stores
    keys,           \* keys made so far
    server,         \* what ServerHost runs
    clearing,       \* factoryReset() is under way
    restarting,
    promised,       \* history: the last certificate whose installation was answered
    torn            \* history: entries of an older certificate, "key" or "signed", that a
                    \* series of writes, cut short, left beside those of a newer one, until
                    \* a new one is stored whole, or none is left

vars == <<nvs, hostname, stage, todo, op, made, keys, server, clearing, restarting, promised, torn>>

NoCert == [key |-> 0, by |-> Nobody, name |-> NoHost]
Wiped == [key |-> MaxKeys + 1, by |-> Nobody, name |-> NoHost]  \* erased while it was installed
Empty == [host |-> NoHost, cert |-> NoCert, key |-> 0, ca |-> Nobody, signed |-> FALSE, https |-> FALSE]
Off == [kind |-> "off", cert |-> NoCert, key |-> 0, max |-> 0, sockets |-> 0, redirect |-> FALSE]

Init ==
    /\ nvs = Empty
    /\ hostname \in Hosts \cup {NoHost}
    /\ stage = "boot"
    /\ todo = <<>> /\ op = "idle" /\ made = NoCert
    /\ keys = 0
    /\ server = Off
    /\ clearing = FALSE /\ restarting = FALSE
    /\ promised = NoCert /\ torn = {}

-----------------------------------------------------------------------------
(* ServerHost *)

(* Three sockets fewer pay for the redirect server.                        *)
TlsSockets(max) == IF max > 4 THEN max - 3 ELSE 1

StartHttp == \E max \in MaxOpenSockets :
    \/ server' = [Off EXCEPT !.kind = "http", !.max = max, !.sockets = max]
    \/ "tls" \in Faults /\ server' = Off

StartHttps(cert, key) ==
    \/ \E max \in MaxOpenSockets, redirect \in BOOLEAN :
          server' = [kind |-> "https", cert |-> cert, key |-> key, max |-> max,
                     sockets |-> TlsSockets(max), redirect |-> redirect]
    \/ "tls" \in Faults /\ StartHttp

LoadableByHost == nvs.host # NoHost /\ nvs.host = hostname /\ nvs.cert # NoCert /\ nvs.key # 0
(* loadStored: a signed certificate outlives its hostname. *)
Loadable == nvs.host # NoHost /\ (nvs.signed \/ nvs.host = hostname) /\ nvs.cert # NoCert /\ nvs.key # 0

StoreKeepsKey(cert) ==
    << <<"host", hostname>>, <<"cert", cert>>,
       <<"key", IF nvs.key = 0 THEN cert.key ELSE nvs.key>>, <<"signed", FALSE>> >>
(* store *)
StoreWrites(cert) ==
    << <<"host", hostname>>, <<"cert", cert>>, <<"key", cert.key>>, <<"signed", FALSE>> >>

(* begin() and startWebServer(): the hotspot gets no HTTPS. *)
BootPlain ==
    /\ stage = "boot"
    /\ \E apMode \in BOOLEAN : hostname = NoHost \/ apMode \/ ~nvs.https
    /\ StartHttp
    /\ stage' = "serving"
    /\ UNCHANGED <<nvs, hostname, todo, op, made, keys, clearing, restarting, promised, torn>>

BootHttps ==
    /\ stage = "boot" /\ hostname # NoHost /\ nvs.https /\ Loadable
    /\ StartHttps(nvs.cert, nvs.key)
    /\ stage' = "serving"
    /\ UNCHANGED <<nvs, hostname, todo, op, made, keys, clearing, restarting, promised, torn>>

Generate ==
    /\ stage = "boot" /\ hostname # NoHost /\ nvs.https /\ ~Loadable
    /\ keys < MaxKeys
    /\ keys' = keys + 1
    /\ made' = [key |-> keys', by |-> Nobody, name |-> hostname]
    /\ todo' = StoreWrites(made') /\ op' = "store"
    /\ stage' = "store"
    /\ UNCHANGED <<nvs, hostname, server, clearing, restarting, promised, torn>>

GenerateFails ==
    /\ stage = "boot" /\ hostname # NoHost /\ nvs.https /\ ~Loadable
    /\ "tls" \in Faults
    /\ StartHttp
    /\ stage' = "serving"
    /\ UNCHANGED <<nvs, hostname, todo, op, made, keys, clearing, restarting, promised, torn>>

-----------------------------------------------------------------------------
(* One NVS call of whatever is under way. *)
Write ==
    /\ todo # <<>>
    /\ nvs' = [nvs EXCEPT ![todo[1][1]] = todo[1][2]]
    /\ todo' = Tail(todo)
    /\ torn' = IF op = "store" /\ todo' = <<>> THEN {} ELSE torn
    /\ UNCHANGED <<hostname, stage, op, made, keys, server, clearing, restarting, promised>>

(* A new certificate, or an installation, that ends early leaves entries   *)
(* of what it was to replace.                                              *)
Outdated(entry) == nvs[entry] # Empty[entry] /\ \E i \in DOMAIN todo : todo[i][1] = entry
TornNow == torn \cup {entry \in {"key", "signed"} : op \in {"store", "install"} /\ Outdated(entry)}

(* store and install stop at an error; revertToSelfSigned takes no notice. *)
WriteFails ==
    /\ todo # <<>> /\ "flash" \in Faults
    /\ todo' = IF op = "revert" THEN Tail(todo) ELSE <<>>
    /\ op' = IF op \in {"https", "install"} THEN "idle" ELSE op
    /\ made' = IF op = "store" THEN made ELSE NoCert
    /\ torn' = TornNow
    /\ UNCHANGED <<nvs, hostname, stage, keys, server, clearing, restarting, promised>>

(* Stored or not, the new certificate is served this time. *)
Stored ==
    /\ op = "store" /\ todo = <<>>
    /\ StartHttps(made, made.key)
    /\ stage' = "serving" /\ op' = "idle" /\ made' = NoCert
    /\ UNCHANGED <<nvs, hostname, todo, keys, clearing, restarting, promised, torn>>

Answered ==
    /\ op \in {"https", "install", "revert"} /\ todo = <<>>
    /\ promised' = IF op = "install" /\ promised # Wiped THEN made ELSE promised
    /\ op' = "idle" /\ made' = NoCert
    /\ restarting' = TRUE
    /\ UNCHANGED <<nvs, hostname, stage, todo, keys, server, clearing, torn>>

-----------------------------------------------------------------------------
(* Requests *)
Ready ==
    /\ stage = "serving" /\ server.kind # "off" /\ op = "idle"
    /\ ~restarting \/ "overlap" \in Events

handleHttps(on) ==
    /\ Ready
    /\ todo' = << <<"https", on>> >> /\ op' = "https"
    /\ UNCHANGED <<nvs, hostname, stage, made, keys, server, clearing, restarting, promised, torn>>

(* What an authority may have signed: makeDeviceCsr hands out a request    *)
(* for the stored key, which changes nothing here, and the names in the    *)
(* certificate are the authority's.                                        *)
Certificates == [key : 1..keys, by : CAs, name : {NoHost}]

(* keysMatch and the check against the authority that came with it. *)
Verified(cert, ca) == cert.key = nvs.key /\ cert.by = ca

InstallSignsFirst(cert, ca) == << <<"ca", ca>>, <<"signed", TRUE>>, <<"cert", cert>> >>
InstallWrites(cert, ca) == << <<"cert", cert>>, <<"ca", ca>>, <<"signed", TRUE>> >>

handleInstall(cert, ca) ==
    /\ Ready /\ nvs.key # 0 /\ nvs.host # NoHost /\ Verified(cert, ca)
    /\ made' = cert
    /\ todo' = InstallWrites(cert, ca) /\ op' = "install"
    /\ promised' = NoCert
    /\ UNCHANGED <<nvs, hostname, stage, keys, server, clearing, restarting, torn>>

(* handleReset: revertToSelfSigned. *)
handleReset ==
    /\ Ready /\ "revert" \in Events
    /\ todo' = << <<"host", NoHost>>, <<"cert", NoCert>>, <<"key", 0>>, <<"ca", Nobody>>, <<"signed", FALSE>> >>
    /\ op' = "revert"
    /\ promised' = NoCert
    /\ UNCHANGED <<nvs, hostname, stage, made, keys, server, clearing, restarting, torn>>

(* factoryReset clears the device name, among others, before the            *)
(* certificate; by a request or, at any moment, by the application.        *)
factoryReset ==
    /\ ~clearing
    /\ \/ Ready /\ "reset" \in Events /\ op' = "clear"
       \/ "app" \in Events /\ UNCHANGED op
    /\ hostname' = NoHost
    /\ clearing' = TRUE
    /\ UNCHANGED <<nvs, stage, todo, made, keys, server, restarting, promised, torn>>

(* clearDeviceCert: nvs_erase_all, whose result nobody reads.  It goes      *)
(* entry by entry, in the order they happen to have in flash, and lets no  *)
(* other call in between; an error or a reset leaves the rest (Reboot).    *)
PartlyErased == [host : {nvs.host, NoHost}, cert : {nvs.cert, NoCert}, key : {nvs.key, 0},
                 ca : {nvs.ca, Nobody}, signed : {nvs.signed, FALSE}, https : {nvs.https, FALSE}]

clearDeviceCert ==
    /\ clearing
    /\ nvs' = Empty \/ ("flash" \in Faults /\ nvs' \in PartlyErased)
    /\ promised' = IF op = "install" THEN Wiped ELSE NoCert
    /\ clearing' = FALSE /\ restarting' = TRUE
    /\ op' = IF op = "clear" THEN "idle" ELSE op
    /\ UNCHANGED <<hostname, stage, todo, made, keys, server, torn>>

(* POST /save-wifi with a device name. *)
Rename(host) ==
    /\ Ready /\ (hostname = NoHost \/ "rename" \in Events)
    /\ hostname' = host
    /\ restarting' = TRUE
    /\ UNCHANGED <<nvs, stage, todo, op, made, keys, server, clearing, promised, torn>>

Reboot ==
    /\ \/ UNCHANGED <<nvs, promised>>
       \/ clearing /\ nvs' \in PartlyErased /\ promised' = NoCert
    /\ stage' = "boot" /\ todo' = <<>> /\ op' = "idle" /\ made' = NoCert
    /\ server' = Off
    /\ clearing' = FALSE /\ restarting' = FALSE
    /\ torn' = IF nvs'.cert = NoCert THEN {} ELSE TornNow
    /\ UNCHANGED <<hostname, keys>>

(* The timer fires on its own task, whatever the server task is at. *)
Restart == restarting /\ Reboot

(* The user may also restart a device whose server did not start. *)
PowerCut == ("power" \in Faults \/ (stage = "serving" /\ op = "idle")) /\ Reboot

Next ==
    \/ BootPlain \/ BootHttps \/ Generate \/ GenerateFails
    \/ Write \/ WriteFails \/ Stored \/ Answered
    \/ \E on \in BOOLEAN : handleHttps(on)
    \/ \E ca \in CAs, cert \in Certificates : handleInstall(cert, ca)
    \/ handleReset \/ factoryReset \/ clearDeviceCert
    \/ \E host \in Hosts : Rename(host)
    \/ Restart \/ PowerCut

Spec == Init /\ [][Next]_vars

-----------------------------------------------------------------------------
Quiet == todo = <<>>

(* The HTTPS server presents a certificate for the key it holds; any other *)
(* pair fails every handshake, and the redirect still sends browsers there.*)
(* A store that was cut short, or met a factory reset, is never taken for  *)
(* a certificate, unless it left an older key beside the new certificate.  *)
PairMatches == server.kind = "https" /\ "key" \notin torn => server.cert.key = server.key

(* loadTrustedCa gives the authority that signed the certificate stored,   *)
(* if there is one, and the one the server presents; and nothing while the *)
(* device presents its own.  This through a first installation that is cut *)
(* short, a half-erased store and a factory reset in mid-series; but not   *)
(* where a series that replaced an installed certificate was cut short.    *)
TrustAnchorSigned == Quiet /\ "signed" \notin torn /\ nvs.signed /\ nvs.ca # Nobody =>
    /\ nvs.cert # NoCert => nvs.cert.by = nvs.ca
    /\ server.kind = "https" /\ op = "idle" /\ ~clearing /\ ~restarting => server.cert.by = nvs.ca

(* An installation that was answered with success survives restarts and    *)
(* renames: the next HTTPS start finds the certificate with its key.       *)
InstalledStays == promised \notin {NoCert, Wiped} => nvs.signed /\ Loadable /\ nvs.cert = promised /\ nvs.key = promised.key

(* A certificate the device made itself never outlives its hostname,       *)
(* unless a series of writes left parts of two certificates.               *)
SelfSignedIsForHost ==
    server.kind = "https" /\ server.cert.by = Nobody /\ ~restarting /\ ~clearing /\ torn = {} => server.cert.name = hostname

(* The main server and the redirect server together, with the latter's     *)
(* listening and control sockets, take no more than HTTP alone.            *)
SocketsWithinLimit == server.sockets + (IF server.redirect THEN 3 ELSE 0) <= server.max

(* What HTTPS is started with: a certificate for its key and for its name, *)
(* and no more sockets than there are.                                     *)
ServedFits == PairMatches /\ SelfSignedIsForHost /\ SocketsWithinLimit
=============================================================================
