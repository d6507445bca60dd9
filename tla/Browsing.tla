------------------------------ MODULE Browsing ------------------------------
(***************************************************************************)
(* A browser and the device: where its navigations are sent, what the      *)
(* pages do next, and which cookie it sends, while the device changes      *)
(* between plain HTTP and HTTPS, between hotspot and network, gets and     *)
(* loses its password, and replaces the session.                           *)
(*                                                                         *)
(* The browser keeps one cookie per host and name, whatever the scheme; a  *)
(* Secure one is not sent over plain HTTP, nor replaced or removed from    *)
(* there.  The two ports are the schemes' own.  AccessGuard has the rest   *)
(* of the guard: here the stored session is the one a cookie is "current"  *)
(* for, and passwords are right.                                           *)
(***************************************************************************)
EXTENDS Naturals

VARIABLES
    apMode,
    https,          \* the scheme served
    httpsChosen,    \* the scheme stored
    hasPassword,
    restartDue,
    jar,            \* the browser's cookies
    at,             \* its address bar
    shown,          \* what it shows; "going" while it follows redirects
    redirects,      \* followed since the navigation began, or the device last changed
    signedIn        \* history: where this browser signed in to the present session

device == <<apMode, https, httpsChosen, hasPassword, restartDue>>
browser == <<at, shown, redirects>>
vars == <<device, jar, browser, signedIn>>

Schemes == {"http", "https"}
Paths == {"/", "/setup", "/login", "/page"}     \* "/page": a route of the consumer
Nowhere == "-"
Hosts == {"hotspot", "network"}     \* the device's address is another in each
Url(host, scheme, path) == [host |-> host, scheme |-> scheme, path |-> path, next |-> Nowhere]

Host == IF apMode THEN "hotspot" ELSE "network"
Scheme == IF https THEN "https" ELSE "http"
Here == <<at.host, at.scheme>>
To(path) == Url(at.host, at.scheme, path)       \* a relative address

Init ==
    /\ apMode \in BOOLEAN /\ hasPassword \in BOOLEAN
    /\ httpsChosen = FALSE /\ https = FALSE /\ restartDue = FALSE
    /\ jar = {}
    /\ at = Url("hotspot", "http", "/setup") /\ shown = "going" /\ redirects = 0
    /\ signedIn = {}

-----------------------------------------------------------------------------
(* The session cookie, each scheme's under its own name: formatCookie and isAuthorized. *)

OneName == "pf_session"
CookieName == IF https THEN "pf_session_https" ELSE "pf_session_http"

Same(c) == c.host = Host /\ c.name = CookieName
Protected == ~https /\ \E c \in jar : Same(c) /\ c.secure
WithoutCookie(cookies) == IF Protected THEN cookies ELSE {c \in cookies : ~Same(c)}
WithCookie(cookies) ==
    IF Protected THEN cookies
    ELSE WithoutCookie(cookies) \cup {[host |-> Host, name |-> CookieName, secure |-> https, current |-> TRUE]}
Outdated(cookies) == {[c EXCEPT !.current = FALSE] : c \in cookies}

isAuthorized == hasPassword /\ \E c \in jar : Same(c) /\ c.current /\ (c.secure => at.scheme = "https")
allow == isAuthorized
allowSetup == ~hasPassword \/ allow

-----------------------------------------------------------------------------
(* Navigations. *)

Go(url) == at' = url /\ shown' = "going" /\ redirects' = 0
Redirect(url) == at' = url /\ redirects' = redirects + 1 /\ UNCHANGED shown
Show(page) == shown' = page /\ UNCHANGED <<at, redirects>>
Refuse ==
    IF hasPassword THEN Redirect([To("/login") EXCEPT !.next = at.path])
    ELSE Redirect(To("/setup"))

Reached == Here = <<Host, Scheme>>
Served(path) == shown = "going" /\ Reached /\ at.path = path

(* Port 80 of a device that serves HTTPS. *)
handleRedirect ==
    /\ shown = "going" /\ Here = <<Host, "http">> /\ https
    /\ Redirect([at EXCEPT !.scheme = "https"])

NobodyAnswers ==
    /\ shown = "going" /\ (at.host # Host \/ (at.scheme = "https" /\ ~https))
    /\ Show("nothing")

handleRoot == Served("/") /\ apMode /\ Redirect(To("/setup"))

handleSetupPageGuarded == Served("/setup") /\ IF allow THEN Show("setup") ELSE Refuse
handleSetupPage == Served("/setup") /\ IF allowSetup THEN Show("setup") ELSE Refuse

handleLoginPage ==
    Served("/login") /\ IF hasPassword THEN Show("login") ELSE Redirect(To("/setup"))

ConsumersPage ==
    /\ Served("/page") \/ (Served("/") /\ ~apMode)
    /\ IF allow THEN Show("page") ELSE Refuse

Follow ==
    /\ handleRedirect \/ NobodyAnswers \/ handleRoot \/ handleSetupPage \/ handleLoginPage \/ ConsumersPage
    /\ UNCHANGED <<device, jar, signedIn>>

Visit ==
    /\ \E host \in Hosts, scheme \in Schemes, path \in Paths : Go(Url(host, scheme, path))
    /\ UNCHANGED <<device, jar, signedIn>>

-----------------------------------------------------------------------------
(* What the pages post, and what they do with the answer. *)

On(page) == shown = page /\ Reached

(* The login page goes where it was sent from. *)
handleLogin ==
    /\ On("login") /\ hasPassword
    /\ jar' = WithCookie(jar)
    /\ signedIn' = signedIn \cup {Here}
    /\ Go(To(IF at.next = Nowhere THEN "/" ELSE at.next))
    /\ UNCHANGED device

(* Signs every browser out, and removes the cookie even where it signed nobody out. *)
handleLogout ==
    /\ On("setup")
    /\ IF isAuthorized THEN jar' = WithoutCookie(Outdated(jar)) /\ signedIn' = {}
       ELSE jar' = WithoutCookie(jar) /\ UNCHANGED signedIn
    /\ Go(To("/login"))
    /\ UNCHANGED device

handleChangePassword ==
    /\ On("setup") /\ allow
    /\ jar' = WithCookie(Outdated(jar))
    /\ signedIn' = {Here}
    /\ UNCHANGED <<device, browser>>

(* toggleHttps: the page waits ten seconds, whether or not the device has  *)
(* restarted by then, and comes back on the new scheme.                    *)
handleHttps ==
    /\ On("setup") /\ allow
    /\ httpsChosen' = ~httpsChosen
    /\ restartDue' = TRUE
    /\ at' = Url(at.host, IF httpsChosen' THEN "https" ELSE "http", "/setup")
    /\ shown' = "restarting" /\ redirects' = 0
    /\ UNCHANGED <<apMode, https, hasPassword, jar, signedIn>>

reloadAfterRestart ==
    /\ shown = "restarting"
    /\ Go(at)
    /\ UNCHANGED <<device, jar, signedIn>>

(* The first save sets the password, and signs nobody in. *)
handleSaveWifi ==
    /\ On("setup") /\ allowSetup
    /\ hasPassword' = TRUE
    /\ IF hasPassword THEN UNCHANGED <<jar, signedIn>> ELSE jar' = Outdated(jar) /\ signedIn' = {}
    /\ restartDue' = TRUE
    /\ Show("saved")
    /\ UNCHANGED <<apMode, https, httpsChosen>>

handleFactoryReset ==
    /\ On("setup") /\ allowSetup
    /\ hasPassword' = FALSE /\ httpsChosen' = FALSE
    /\ jar' = Outdated(jar) /\ signedIn' = {}
    /\ restartDue' = TRUE
    /\ Show("saved")
    /\ UNCHANGED <<apMode, https>>

-----------------------------------------------------------------------------
(* The device restarts, because it must or for any other reason, and       *)
(* serves HTTPS only on a network, and not if it has no certificate.       *)
Restart ==
    /\ restartDue' = FALSE
    /\ apMode' \in BOOLEAN
    /\ https' \in {FALSE, httpsChosen /\ ~apMode'}
    /\ redirects' = 0
    /\ UNCHANGED <<httpsChosen, hasPassword, jar, at, shown, signedIn>>

(* Another browser signs out, or the application changes the password. *)
SessionReplaced ==
    /\ hasPassword
    /\ jar' = Outdated(jar) /\ signedIn' = {}
    /\ redirects' = 0
    /\ UNCHANGED <<device, at, shown>>

Browser ==
    \/ Visit \/ Follow \/ handleLogin \/ handleLogout \/ handleChangePassword
    \/ handleHttps \/ reloadAfterRestart \/ handleSaveWifi \/ handleFactoryReset

Next == Browser \/ Restart \/ SessionReplaced

Spec == Init /\ [][Next]_vars

-----------------------------------------------------------------------------
(* Where a browser has signed in it is let in, until somebody signs out or *)
(* changes the password: after a restart too, and whatever cookies it has  *)
(* from a time when the device spoke the other scheme.                     *)
SignInSticks == Reached /\ Here \in signedIn => isAuthorized

(* No navigation is sent around in a circle: two redirects at most, from   *)
(* port 80 and to the sign-in or the setup page.                           *)
RedirectsEnd == redirects <= 2
=============================================================================
