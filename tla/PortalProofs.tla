---------------------------- MODULE PortalProofs ----------------------------
(***************************************************************************)
(* Theorems about what MCPortal composes: an upload, a DNS query, a form's *)
(* body, the texts of pages and forms and a browser's navigations, for     *)
(* every value of the constants.                                           *)
(* Each part has an inductive invariant of its own, which the steps of the *)
(* others leave alone.                                                     *)
(***************************************************************************)
EXTENDS MCPortal, SequenceTheorems, WellFoundedInduction, TLAPS

(* A part that stands still keeps its variables.                           *)
LEMMA OnePartRuns == ASSUME [Next]_vars
                     PROVE  /\ UploadRuns \/ UNCHANGED uploadVars
                            /\ QueryRuns \/ UNCHANGED queryVars
                            /\ BodyRuns \/ UNCHANGED bodyVars
                            /\ BrowserRuns \/ UNCHANGED browserVars
BY DEF Next, UploadRuns, BodyRuns, QueryRuns, BrowserRuns, vars, uploadVars, queryVars, bodyVars, browserVars

-----------------------------------------------------------------------------
(* A DNS query. *)

Underway == {"header", "labels", "question"}

QueryType ==
    /\ len \in 1..DNS_BUFFER_SIZE
    /\ stage \in Underway \cup {"sent", "dropped"}
    /\ pos \in Nat /\ read \in Nat /\ copied \in Nat /\ sent \in Nat

(* What was looked at is in the datagram, a walk began behind a whole      *)
(* header, and nothing is written before the answer.                       *)
QueryInv ==
    /\ QueryType
    /\ stage \in {"labels", "question"} => DNS_HEADER_SIZE <= len
    /\ DNS_HEADER_SIZE <= pos
    /\ stage \in Underway => copied = 0 /\ sent = 0
    /\ StaysInBuffers

(* Nothing is read, copied or sent before the first step.                  *)
LEMMA QueryInit == Query!Init => QueryInv
BY QueryAssumption DEF Query!SizesAssumption, Query!Init, QueryInv, QueryType, StaysInBuffers,
                       Query!StaysInBuffers, Underway

(* A drop writes nothing; what it looked at before is in the datagram.     *)
LEMMA QueryDrop == ASSUME QueryInv, stage \in Underway, Query!Drop, read' \in Nat, read' <= len
                   PROVE  QueryInv'
BY QueryAssumption DEF Query!SizesAssumption, QueryInv, QueryType, StaysInBuffers,
                       Query!StaysInBuffers, Query!Drop, Underway

(* Every step looks no further than the datagram, and the answer is sent   *)
(* only where question and answer fit the response.                        *)
LEMMA QueryNext == ASSUME QueryInv, Query!Next PROVE QueryInv'
<1> USE QueryAssumption DEF Query!SizesAssumption, QueryInv, QueryType, StaysInBuffers,
                            Query!StaysInBuffers, Underway
<1>1. CASE Query!Header
  <2>1. read' \in Nat /\ read' <= len
    BY <1>1 DEF Query!Header, Query!AtLeast
  <2>2. CASE Query!Drop
    BY <1>1, <2>1, <2>2, QueryDrop DEF Query!Header
  <2>3. CASE stage' = "labels"
    BY <1>1, <2>1, <2>3 DEF Query!Header, Query!Drop
  <2> QED BY <1>1, <2>2, <2>3 DEF Query!Header
<1>2. CASE Query!Label
  <2>1. read' \in Nat /\ read' <= len
    BY <1>2 DEF Query!Label, Query!AtLeast
  <2>2. CASE Query!Drop
    BY <1>2, <2>1, <2>2, QueryDrop DEF Query!Label
  <2>3. ASSUME NEW n \in Labels, pos' = pos + n + 1, UNCHANGED <<len, stage, copied, sent>> PROVE QueryInv'
    BY <1>2, <2>1, <2>3 DEF Query!Label
  <2>4. CASE stage' = "question" /\ UNCHANGED <<len, pos, copied, sent>>
    BY <1>2, <2>1, <2>4 DEF Query!Label
  <2> QED BY <1>2, <2>2, <2>3, <2>4 DEF Query!Label
<1>3. CASE Query!NameUnended
  BY <1>3, QueryDrop DEF Query!NameUnended
<1>4. CASE Query!Respond
  <2>1. read' \in Nat /\ read' <= len
    BY <1>4 DEF Query!Respond, Query!AtLeast, Query!questionEnd
  <2>2. CASE Query!Drop
    BY <1>4, <2>1, <2>2, QueryDrop DEF Query!Respond
  <2>3. ASSUME NEW given \in BOOLEAN,
               stage' = "sent", copied' = Query!questionEnd,
               sent' = IF given THEN Query!questionEnd + DNS_ANSWER_SIZE ELSE Query!questionEnd,
               UNCHANGED <<len, pos>>
        PROVE  QueryInv'
    <3>1. /\ Query!questionEnd \in Nat /\ Query!questionEnd <= len
          /\ DNS_HEADER_SIZE + 5 <= Query!questionEnd
          /\ Query!questionEnd + DNS_ANSWER_SIZE <= DNS_BUFFER_SIZE
      BY <1>4 DEF Query!Respond, Query!Fits, Query!questionEnd
    <3>2. sent' \in Nat /\ sent' <= DNS_BUFFER_SIZE /\ DNS_HEADER_SIZE + 5 <= sent'
      BY <2>3, <3>1
    <3> QED BY <1>4, <2>1, <2>3, <3>1, <3>2
  <2> QED BY <1>4, <2>2, <2>3 DEF Query!Respond
<1>5. CASE Query!NotAsked
  BY <1>5, QueryDrop DEF Query!NotAsked
<1> QED BY <1>1, <1>2, <1>3, <1>4, <1>5 DEF Query!Next

(* Whatever datagram a client sends, processDnsRequest() reads and copies  *)
(* no byte behind its end, and the response stays in its buffer, for every *)
(* size of the buffer, the header and the answer.                          *)
THEOREM DatagramStaysInBuffers == Spec => []StaysInBuffers
<1>1. Init => QueryInv
  BY QueryInit DEF Init
<1>2. QueryInv /\ [Next]_vars => QueryInv'
  <2> SUFFICES ASSUME QueryInv, [Next]_vars PROVE QueryInv'
    OBVIOUS
  <2>1. CASE QueryRuns
    BY <2>1, QueryNext DEF QueryRuns
  <2>2. CASE UNCHANGED queryVars
    BY <2>2 DEF queryVars, QueryInv, QueryType, StaysInBuffers, Query!StaysInBuffers
  <2> QED BY <2>1, <2>2, OnePartRuns
<1>3. QueryInv => StaysInBuffers
  BY DEF QueryInv
<1> QED BY <1>1, <1>2, <1>3, PTL DEF Spec

-----------------------------------------------------------------------------
(* A form's body. *)

FormType ==
    /\ content_len \in 0..(MAX_FORM_BODY + 1)
    /\ got \in 0..content_len /\ timeouts \in Nat /\ time \in Nat
    /\ answer \in {"none", "body", "400", "408"}

(* While the body is read it is acceptable, not whole, and in time.        *)
FormInv ==
    /\ FormType
    /\ Body!Reading => content_len \in 1..MAX_FORM_BODY /\ got < content_len /\ time <= FORM_BODY_DEADLINE
    /\ WholeBodyInTime

(* A body of no length, or of too much, is refused before anything is read.*)
LEMMA FormInit == Body!Init => FormInv
BY BodyAssumption DEF Body!LimitsAssumption, Body!Init, FormInv, FormType, WholeBodyInTime,
                      Body!WholeBodyInTime, Body!Reading

(* After a receive, whatever it brought, the limits are tested only where  *)
(* the body is not whole.                                                  *)
LEMMA FormVerdict ==
    ASSUME FormInv, Body!Reading,
           content_len' = content_len,
           got' \in 0..content_len, timeouts' \in Nat,
           time' \in Nat, time' <= time + RECV_WAIT,
           answer' = Body!Verdict(got', timeouts', time')
    PROVE  FormInv'
<1> USE BodyAssumption DEF Body!LimitsAssumption, FormInv, FormType, Body!Verdict
<1>1. FormType'
  OBVIOUS
<1>2. (Body!Reading => content_len \in 1..MAX_FORM_BODY /\ got < content_len /\ time <= FORM_BODY_DEADLINE)'
  BY DEF Body!Reading, Body!TimedOut
<1>3. WholeBodyInTime'
  BY DEF WholeBodyInTime, Body!WholeBodyInTime, Body!Reading, Body!TimedOut
<1> QED BY <1>1, <1>2, <1>3

(* Every step leaves a body that is still read within its limits.          *)
LEMMA FormNext == ASSUME FormInv, Body!Next PROVE FormInv'
<1> USE BodyAssumption DEF Body!LimitsAssumption, FormInv, FormType
<1>1. CASE Body!Receive
  <2>1. PICK wait \in 0..RECV_WAIT : time' = time + wait
    BY <1>1 DEF Body!Receive
  <2>2. time' \in Nat /\ time' <= time + RECV_WAIT
    BY <2>1
  <2>3. got' \in 0..content_len /\ timeouts' \in Nat
    BY <1>1 DEF Body!Receive
  <2> QED BY <1>1, <2>2, <2>3, FormVerdict DEF Body!Receive
<1>2. CASE Body!Timeout
  <2>1. time' \in Nat /\ time' <= time + RECV_WAIT /\ timeouts' \in Nat /\ got' \in 0..content_len
    BY <1>2 DEF Body!Timeout
  <2> QED BY <1>2, <2>1, FormVerdict DEF Body!Timeout
<1>3. CASE Body!Broken
  <2>1. PICK wait \in 0..RECV_WAIT : time' = time + wait
    BY <1>3 DEF Body!Broken
  <2> QED BY <1>3, <2>1 DEF Body!Broken, WholeBodyInTime, Body!WholeBodyInTime, Body!Reading
<1> QED BY <1>1, <1>2, <1>3 DEF Body!Next

(* readFormBody() takes a body exactly when it is acceptable and whole, and*)
(* no client holds the server's task longer than the deadline and one      *)
(* receive, for every limit and every length.                              *)
THEOREM BodyIsWholeAndInTime == Spec => []WholeBodyInTime
<1>1. Init => FormInv
  BY FormInit DEF Init
<1>2. FormInv /\ [Next]_vars => FormInv'
  <2> SUFFICES ASSUME FormInv, [Next]_vars PROVE FormInv'
    OBVIOUS
  <2>1. CASE BodyRuns
    BY <2>1, FormNext DEF BodyRuns
  <2>2. CASE UNCHANGED bodyVars
    BY <2>2 DEF bodyVars, FormInv, FormType, WholeBodyInTime, Body!WholeBodyInTime, Body!Reading
  <2> QED BY <2>1, <2>2, OnePartRuns
<1>3. FormInv => WholeBodyInTime
  BY DEF FormInv
<1> QED BY <1>1, <1>2, <1>3, PTL DEF Spec

-----------------------------------------------------------------------------
(* A browser's session. *)

NameFor(scheme) == IF scheme = "https" THEN "pf_session_https" ELSE "pf_session_http"

Names == {NameFor("http"), NameFor("https")}
Cookies == [host : Browser!Hosts, name : Names, secure : BOOLEAN, current : BOOLEAN]

BrowserType ==
    /\ jar \subseteq Cookies
    /\ https \in BOOLEAN
    /\ signedIn \subseteq Browser!Hosts \X {"http", "https"}

(* A cookie's name tells its scheme, so that a Secure one never stands in  *)
(* the way of another; and the browser has the current cookie of every     *)
(* place where it signed in to the present session.                        *)
SessionInv ==
    /\ BrowserType
    /\ \A c \in jar : c.secure = (c.name = NameFor("https"))
    /\ \A place \in signedIn :
          /\ hasPassword
          /\ \E c \in jar : c.host = place[1] /\ c.name = NameFor(place[2]) /\ c.current

LEMMA SessionInit == Browser!Init => SessionInv
BY DEF Browser!Init, SessionInv, BrowserType

(* Where the browser signed in, the device finds its cookie.               *)
LEMMA SessionAuthorizes == ASSUME SessionInv PROVE SignInSticks
BY DEF SessionInv, BrowserType, NameFor, SignInSticks, Browser!SignInSticks, Browser!Reached, Browser!Here,
       Browser!Scheme, Browser!isAuthorized, Browser!Same, Browser!CookieName

NewCookie == [host |-> Browser!Host, name |-> NameFor(Browser!Scheme), secure |-> https, current |-> TRUE]

(* Nothing is Protected: what a handler sends reaches the jar.             *)
LEMMA CookiesTaken ==
    ASSUME SessionInv, NEW cookies
    PROVE  /\ Browser!WithoutCookie(cookies) = {c \in cookies : ~Browser!Same(c)}
           /\ Browser!WithCookie(cookies) = {c \in cookies : ~Browser!Same(c)} \cup {NewCookie}
BY DEF SessionInv, BrowserType, Cookies, NameFor, NewCookie, Browser!WithoutCookie, Browser!WithCookie,
       Browser!Protected, Browser!Same, Browser!CookieName, Browser!Scheme

LEMMA NewCookieTyped ==
    ASSUME BrowserType
    PROVE  /\ NewCookie \in Cookies
           /\ NewCookie.secure = (NewCookie.name = NameFor("https"))
           /\ NewCookie.host = Browser!Host /\ NewCookie.name = NameFor(Browser!Scheme) /\ NewCookie.current
<1>1. NewCookie \in Cookies
  <2>1. Browser!Host \in Browser!Hosts /\ NameFor(Browser!Scheme) \in Names
    BY DEF Names, Browser!Hosts, Browser!Host, Browser!Scheme
  <2> QED BY <2>1 DEF BrowserType, NewCookie, Cookies
<1>2. NewCookie.host = Browser!Host /\ NewCookie.name = NameFor(Browser!Scheme) /\ NewCookie.current
  BY DEF NewCookie
<1>3. NewCookie.secure = https
  BY DEF NewCookie
<1>4. https = (NameFor(Browser!Scheme) = NameFor("https"))
  <2>1. CASE https
    BY <2>1 DEF NameFor, Browser!Scheme
  <2>2. CASE ~https
    BY <2>2 DEF NameFor, Browser!Scheme, BrowserType
  <2> QED BY <2>1, <2>2 DEF BrowserType
<1> QED BY <1>1, <1>2, <1>3, <1>4

LEMMA OutdatedTyped ==
    ASSUME BrowserType, \A c \in jar : c.secure = (c.name = NameFor("https"))
    PROVE  /\ Browser!Outdated(jar) \subseteq Cookies
           /\ \A c \in Browser!Outdated(jar) : c.secure = (c.name = NameFor("https"))
BY DEF BrowserType, Cookies, Browser!Outdated

(* A cookie of another place is not the same one.                          *)
LEMMA OtherPlacesKept ==
    ASSUME SessionInv, NEW place \in signedIn, place # <<Browser!Host, Browser!Scheme>>
    PROVE  \E c \in jar : /\ c.host = place[1] /\ c.name = NameFor(place[2]) /\ c.current
                          /\ ~Browser!Same(c)
<1>1. PICK c \in jar : c.host = place[1] /\ c.name = NameFor(place[2]) /\ c.current
  BY DEF SessionInv
<1>2. place \in Browser!Hosts \X {"http", "https"}
  BY DEF SessionInv, BrowserType
<1>3. place[1] # Browser!Host \/ place[2] # Browser!Scheme
  BY <1>2
<1> QED BY <1>1, <1>2, <1>3 DEF NameFor, Browser!Same, Browser!CookieName, Browser!Scheme

(* A sign-in gives the place its cookie, and leaves the others theirs.     *)
LEMMA LoginSession == ASSUME SessionInv, Browser!handleLogin PROVE SessionInv'
<1>1. /\ hasPassword /\ UNCHANGED <<https, hasPassword>>
      /\ jar' = {c \in jar : ~Browser!Same(c)} \cup {NewCookie}
  BY CookiesTaken DEF Browser!handleLogin, Browser!device
<1>2. signedIn' = signedIn \cup {<<Browser!Host, Browser!Scheme>>}
  BY DEF Browser!handleLogin, Browser!On, Browser!Reached
<1>3. BrowserType' /\ \A c \in jar' : c.secure = (c.name = NameFor("https"))
  <2>1. <<Browser!Host, Browser!Scheme>> \in Browser!Hosts \X {"http", "https"}
    BY DEF Browser!Hosts, Browser!Host, Browser!Scheme
  <2> QED BY <1>1, <1>2, <2>1, NewCookieTyped DEF SessionInv, BrowserType
<1>4. ASSUME NEW place \in signedIn'
      PROVE  \E c \in jar' : c.host = place[1] /\ c.name = NameFor(place[2]) /\ c.current
  <2>1. CASE place = <<Browser!Host, Browser!Scheme>>
    BY <1>1, <2>1, NewCookieTyped DEF SessionInv
  <2>2. CASE place \in signedIn /\ place # <<Browser!Host, Browser!Scheme>>
    BY <1>1, <2>2, OtherPlacesKept
  <2> QED BY <1>2, <2>1, <2>2
<1> QED BY <1>1, <1>3, <1>4 DEF SessionInv

(* Who is not signed in here may lose what cookie there is.                *)
LEMMA LogoutSession == ASSUME SessionInv, Browser!handleLogout PROVE SessionInv'
<1>1. Browser!Reached /\ UNCHANGED <<https, hasPassword>>
  BY DEF Browser!handleLogout, Browser!On, Browser!device
<1>2. CASE Browser!isAuthorized
  <2>1. jar' \subseteq Browser!Outdated(jar) /\ signedIn' = {}
    BY <1>2, CookiesTaken DEF Browser!handleLogout
  <2> QED BY <1>1, <2>1, OutdatedTyped DEF SessionInv, BrowserType
<1>3. CASE ~Browser!isAuthorized
  <2>1. jar' = {c \in jar : ~Browser!Same(c)} /\ signedIn' = signedIn
    BY <1>3, CookiesTaken DEF Browser!handleLogout
  <2>2. <<Browser!Host, Browser!Scheme>> \notin signedIn
    BY <1>1, <1>3, SessionAuthorizes DEF SignInSticks, Browser!SignInSticks, Browser!Reached
  <2>3. BrowserType' /\ \A c \in jar' : c.secure = (c.name = NameFor("https"))
    BY <1>1, <2>1 DEF SessionInv, BrowserType
  <2>4. ASSUME NEW place \in signedIn'
        PROVE  hasPassword' /\ \E c \in jar' : c.host = place[1] /\ c.name = NameFor(place[2]) /\ c.current
    BY <1>1, <2>1, <2>2, OtherPlacesKept DEF SessionInv
  <2> QED BY <2>3, <2>4 DEF SessionInv
<1> QED BY <1>2, <1>3

LEMMA ChangedSession == ASSUME SessionInv, Browser!handleChangePassword PROVE SessionInv'
<1>1. /\ hasPassword /\ UNCHANGED <<https, hasPassword>>
      /\ jar' = {c \in Browser!Outdated(jar) : ~Browser!Same(c)} \cup {NewCookie}
      /\ signedIn' = {<<Browser!Host, Browser!Scheme>>}
  BY CookiesTaken DEF Browser!handleChangePassword, Browser!device, Browser!allow, Browser!isAuthorized,
                      Browser!On, Browser!Reached
<1>2. BrowserType' /\ \A c \in jar' : c.secure = (c.name = NameFor("https"))
  <2>1. <<Browser!Host, Browser!Scheme>> \in Browser!Hosts \X {"http", "https"}
    BY DEF Browser!Hosts, Browser!Host, Browser!Scheme
  <2> QED BY <1>1, <2>1, NewCookieTyped, OutdatedTyped DEF SessionInv, BrowserType
<1>3. \E c \in jar' : c.host = Browser!Host /\ c.name = NameFor(Browser!Scheme) /\ c.current
  BY <1>1, NewCookieTyped DEF SessionInv
<1> QED BY <1>1, <1>2, <1>3 DEF SessionInv

(* A restart, a save, a reset, another browser's sign-out: who is signed   *)
(* out is so everywhere.                                                   *)
LEMMA SessionNext == ASSUME SessionInv, Browser!Next PROVE SessionInv'
<1>1. CASE Browser!Visit \/ Browser!Follow \/ Browser!reloadAfterRestart
  BY <1>1 DEF SessionInv, BrowserType, Browser!Visit, Browser!Follow, Browser!reloadAfterRestart, Browser!device
<1>2. CASE Browser!handleHttps
  BY <1>2 DEF SessionInv, BrowserType, Browser!handleHttps
<1>3. CASE Browser!handleSaveWifi
  BY <1>3, OutdatedTyped DEF SessionInv, BrowserType, Browser!handleSaveWifi
<1>4. CASE Browser!handleFactoryReset
  BY <1>4, OutdatedTyped DEF SessionInv, BrowserType, Browser!handleFactoryReset
<1>5. CASE Browser!Restart
  BY <1>5 DEF SessionInv, BrowserType, Browser!Restart
<1>6. CASE Browser!SessionReplaced
  BY <1>6, OutdatedTyped DEF SessionInv, BrowserType, Browser!SessionReplaced, Browser!device
<1> QED BY <1>1, <1>2, <1>3, <1>4, <1>5, <1>6, LoginSession, LogoutSession, ChangedSession
        DEF Browser!Next, Browser!Browser

(* Where a browser has signed in it is let in, until somebody signs out or *)
(* changes the password, whatever the device served in between and         *)
(* whatever cookies are left of it: handleLogin()'s cookie is found again  *)
(* by isAuthorized().                                                      *)
THEOREM SignInIsKept == Spec => []SignInSticks
<1>1. Init => SessionInv
  BY SessionInit DEF Init
<1>2. SessionInv /\ [Next]_vars => SessionInv'
  <2> SUFFICES ASSUME SessionInv, [Next]_vars PROVE SessionInv'
    OBVIOUS
  <2>1. CASE BrowserRuns
    BY <2>1, SessionNext DEF BrowserRuns
  <2>2. CASE UNCHANGED browserVars
    BY <2>2 DEF browserVars, SessionInv, BrowserType
  <2> QED BY <2>1, <2>2, OnePartRuns
<1>3. SessionInv => SignInSticks
  BY SessionAuthorizes
<1> QED BY <1>1, <1>2, <1>3, PTL DEF Spec

-----------------------------------------------------------------------------
(* A browser's navigations. *)

(* How many redirects lie ahead: from port 80 to the scheme served, where  *)
(* there is no hotspot; from the root to the setup page, where there is    *)
(* one; and from a refused page to the sign-in or the setup page, which    *)
(* show themselves.                                                        *)
Ahead ==
    IF ~Browser!Reached THEN IF apMode THEN 0 ELSE 2
    ELSE IF at.path = (IF hasPassword THEN "/login" ELSE "/setup") THEN 0
    ELSE IF at.path = "/" /\ apMode THEN 2 ELSE 1

NavigationType ==
    /\ apMode \in BOOLEAN /\ https \in BOOLEAN /\ httpsChosen \in BOOLEAN /\ hasPassword \in BOOLEAN
    /\ at \in [host : Browser!Hosts, scheme : Browser!Schemes, path : Browser!Paths,
               next : Browser!Paths \cup {Browser!Nowhere}]
    /\ redirects \in 0..2

NavigationInv ==
    /\ NavigationType
    /\ https => ~apMode
    /\ shown = "going" => redirects + Ahead <= 2

LEMMA AheadBounded == Ahead \in 0..2
BY DEF Ahead

LEMMA NavigationInit == Browser!Init => NavigationInv
<1> SUFFICES ASSUME Browser!Init PROVE NavigationInv
  OBVIOUS
<1>1. NavigationType
  <2>1. /\ apMode \in BOOLEAN /\ https \in BOOLEAN /\ httpsChosen \in BOOLEAN /\ hasPassword \in BOOLEAN
        /\ at = Browser!Url("hotspot", "http", "/setup") /\ redirects = 0
    BY Zenon DEF Browser!Init
  <2> QED BY <2>1 DEF NavigationType, Browser!Url, Browser!Hosts, Browser!Schemes, Browser!Paths, Browser!Nowhere
<1> QED BY <1>1, AheadBounded DEF Browser!Init, NavigationInv

(* A navigation begins with two redirects left, wherever it goes.          *)
LEMMA BeginsAnew ==
    ASSUME NavigationType', https' => ~apMode', redirects' = 0
    PROVE  NavigationInv'
BY DEF NavigationInv, Ahead

(* A redirect of a page that does not show itself leads to one that does.  *)
LEMMA Redirected ==
    ASSUME NavigationInv, Browser!Follow
    PROVE  NavigationInv'
<1>1. UNCHANGED <<apMode, https, httpsChosen, hasPassword>>
  BY DEF Browser!Follow, Browser!device
<1>2. CASE \E page : Browser!Show(page) /\ page # "going"
  BY <1>1, <1>2 DEF NavigationInv, NavigationType, Browser!Show
<1>3. ASSUME shown = "going", Browser!handleRedirect PROVE NavigationInv'
  BY <1>1, <1>3 DEF NavigationInv, NavigationType, Ahead, Browser!handleRedirect, Browser!Redirect, Browser!Reached,
     Browser!Here, Browser!Host, Browser!Scheme, Browser!Hosts, Browser!Schemes, Browser!Paths
<1>4. ASSUME shown = "going", Browser!Reached, Browser!handleRoot PROVE NavigationInv'
  BY <1>1, <1>4 DEF NavigationInv, NavigationType, Ahead, Browser!handleRoot, Browser!Redirect, Browser!Reached,
     Browser!Here, Browser!Host, Browser!Scheme, Browser!Hosts, Browser!Schemes, Browser!Paths, Browser!To, Browser!Url, Browser!Served, Browser!Nowhere
<1>5. ASSUME shown = "going", Browser!Reached, Ahead >= 1, Browser!Refuse PROVE NavigationInv'
  BY <1>1, <1>5 DEF NavigationInv, NavigationType, Ahead, Browser!Refuse, Browser!Redirect, Browser!Reached,
     Browser!Here, Browser!Host, Browser!Scheme, Browser!Hosts, Browser!Schemes, Browser!Paths, Browser!To, Browser!Url, Browser!Nowhere
<1>6. ASSUME shown = "going", Browser!Reached, ~hasPassword, Ahead >= 1, Browser!Redirect(Browser!To("/setup")) PROVE NavigationInv'
  BY <1>1, <1>6 DEF NavigationInv, NavigationType, Ahead, Browser!Redirect, Browser!Reached,
     Browser!Here, Browser!Host, Browser!Scheme, Browser!Hosts, Browser!Schemes, Browser!Paths, Browser!To, Browser!Url, Browser!Nowhere
<1> QED
  <2>1. CASE Browser!handleSetupPage
    BY <1>2, <1>5, <2>1 DEF Browser!handleSetupPage, Browser!Served, Browser!allowSetup, Ahead
  <2>2. CASE Browser!handleLoginPage
    BY <1>2, <1>6, <2>2 DEF Browser!handleLoginPage, Browser!Served, Ahead
  <2>3. CASE Browser!ConsumersPage
    BY <1>2, <1>5, <2>3 DEF Browser!ConsumersPage, Browser!Served, Ahead
  <2>4. CASE Browser!NobodyAnswers
    BY <1>2, <2>4 DEF Browser!NobodyAnswers
  <2>5. CASE Browser!handleRedirect \/ Browser!handleRoot
    BY <1>3, <1>4, <2>5 DEF Browser!handleRedirect, Browser!handleRoot, Browser!Served
  <2> QED BY <2>1, <2>2, <2>3, <2>4, <2>5 DEF Browser!Follow

LEMMA NavigationNext == ASSUME NavigationInv, Browser!Next PROVE NavigationInv'
<1>1. CASE Browser!Visit \/ Browser!reloadAfterRestart \/ Browser!handleLogin \/ Browser!handleLogout
  <2>1. UNCHANGED Browser!device /\ redirects' = 0
    BY <1>1 DEF Browser!Visit, Browser!reloadAfterRestart, Browser!handleLogin, Browser!handleLogout, Browser!Go
  <2>2. NavigationType'
    BY <1>1, <2>1 DEF NavigationInv, NavigationType, Browser!Visit, Browser!reloadAfterRestart, Browser!handleLogin,
       Browser!handleLogout, Browser!Go, Browser!Url, Browser!To, Browser!Hosts, Browser!Schemes, Browser!Paths,
       Browser!Nowhere, Browser!device
  <2> QED BY <2>1, <2>2, BeginsAnew DEF NavigationInv, Browser!device
<1>2. CASE Browser!handleChangePassword
  BY <1>2 DEF NavigationInv, NavigationType, Ahead, Browser!handleChangePassword, Browser!device, Browser!browser,
     Browser!Reached, Browser!Here, Browser!Host, Browser!Scheme
<1>3. CASE Browser!handleHttps
  BY <1>3 DEF NavigationInv, NavigationType, Browser!handleHttps, Browser!Url, Browser!Hosts, Browser!Schemes,
     Browser!Paths, Browser!Nowhere
<1>4. CASE Browser!handleSaveWifi \/ Browser!handleFactoryReset
  <2>1. hasPassword' \in BOOLEAN /\ httpsChosen' \in {FALSE, httpsChosen} /\ shown' = "saved"
        /\ UNCHANGED <<apMode, https, at, redirects>>
    BY <1>4, Zenon DEF Browser!handleSaveWifi, Browser!handleFactoryReset, Browser!Show
  <2> QED BY <2>1 DEF NavigationInv, NavigationType
<1>5. CASE Browser!Restart
  <2>1. https' \in BOOLEAN /\ (https' => ~apMode')
    BY <1>5, Zenon DEF NavigationInv, NavigationType, Browser!Restart
  <2> QED BY <1>5, <2>1, BeginsAnew DEF NavigationInv, NavigationType, Browser!Restart
<1>6. CASE Browser!SessionReplaced
  BY <1>6, BeginsAnew DEF NavigationInv, NavigationType, Browser!SessionReplaced, Browser!device
<1> QED BY <1>1, <1>2, <1>3, <1>4, <1>5, <1>6, Redirected DEF Browser!Next, Browser!Browser

(* No navigation is sent around in a circle, wherever it begins, whatever  *)
(* the device serves and whoever is signed in: the redirects of port 80,   *)
(* of the root and of the guarded pages come to an end after two.          *)
THEOREM NavigationsEnd == Spec => []RedirectsEnd
<1>1. Init => NavigationInv
  BY NavigationInit DEF Init
<1>2. NavigationInv /\ [Next]_vars => NavigationInv'
  <2> SUFFICES ASSUME NavigationInv, [Next]_vars PROVE NavigationInv'
    OBVIOUS
  <2>1. CASE BrowserRuns
    BY <2>1, NavigationNext DEF BrowserRuns
  <2>2. CASE UNCHANGED browserVars
    BY <2>2 DEF browserVars, NavigationInv, NavigationType, Ahead, Browser!Reached, Browser!Here, Browser!Host,
       Browser!Scheme
  <2> QED BY <2>1, <2>2, OnePartRuns
<1>3. NavigationInv => RedirectsEnd
  BY DEF NavigationInv, NavigationType, RedirectsEnd, Browser!RedirectsEnd
<1> QED BY <1>1, <1>2, <1>3, PTL DEF Spec

-----------------------------------------------------------------------------
(* An upload. *)

(* A set of numbers has a least one.                                       *)
LEMMA LeastNatural ==
    ASSUME NEW T \in SUBSET Nat, T # {}
    PROVE  \E x \in T : \A y \in T : x <= y
<1> DEFINE R == OpToRel(<, Nat)
<1>1. IsWellFoundedOn(R, Nat)
    BY NatLessThanWellFounded
<1>2. \A x, y \in Nat : <<y, x>> \in R <=> y < x
    BY DEF OpToRel
<1> HIDE DEF R
<1>3. PICK x \in T : \A y \in T : ~ (<<y, x>> \in R)
    BY <1>1, WFMin
<1>4. \A y \in T : ~ (y < x)
    BY <1>2, <1>3
<1> QED BY <1>4

LEMMA LeastIsMin ==
    ASSUME NEW T \in SUBSET Nat, T # {}
    PROVE  Upload!Min(T) \in T /\ \A y \in T : Upload!Min(T) <= y
BY LeastNatural DEF Upload!Min

(* Parts of the body, parts of them, and what occurs there.                *)
LEMMA PartOf ==
    ASSUME NEW S, NEW s \in Seq(S), NEW m \in Nat, NEW n \in Nat, 1 <= m, m <= n + 1, n <= Len(s)
    PROVE  /\ SubSeq(s, m, n) \in Seq(S) /\ Len(SubSeq(s, m, n)) = n - m + 1
           /\ \A i \in 1..(n - m + 1) : SubSeq(s, m, n)[i] = s[m + i - 1]
<1>1. \A i \in m..n : s[i] \in S
    BY ElementOfSeq
<1> QED BY <1>1, SubSeqProperties, Z3

LEMMA PartOfPart ==
    ASSUME NEW S, NEW s \in Seq(S), NEW m \in Nat, NEW n \in Nat, 1 <= m, m <= n + 1, n <= Len(s),
           NEW i \in Nat, NEW j \in Nat, 1 <= i, i <= j + 1, j <= n - m + 1
    PROVE  SubSeq(SubSeq(s, m, n), i, j) = SubSeq(s, m + i - 1, m + j - 1)
<1>1. CASE i <= j
    <2>1. m \in 1..Len(s) /\ n \in 1..Len(s) /\ i \in 1..(n - m + 1) /\ j \in 1..(n - m + 1)
        BY <1>1, LenProperties
    <2> QED BY <2>1, SubSeqOfSubSeq
<1>2. CASE i > j
    <2>1. m + j - 1 < m + i - 1 /\ m + j - 1 \in Int /\ m + i - 1 \in Int
        BY <1>2
    <2> QED BY <1>2, <2>1, SubSeqEmpty
<1> QED BY <1>1, <1>2

LEMMA OccursInPart ==
    ASSUME NEW S, NEW s \in Seq(S), NEW m \in Nat, NEW n \in Nat, 1 <= m, m <= n + 1, n <= Len(s),
           NEW needle \in Seq(S), needle # <<>>, NEW i \in Nat, 1 <= i
    PROVE  Upload!OccursAt(needle, SubSeq(s, m, n), i) <=>
             Upload!OccursAt(needle, s, m + i - 1) /\ m + i - 1 + Len(needle) - 1 <= n
<1>1. Len(needle) \in Nat /\ Len(needle) >= 1
    BY EmptySeq
<1>2. Len(SubSeq(s, m, n)) = n - m + 1
    BY PartOf
<1>3. ASSUME i + Len(needle) - 1 <= n - m + 1
      PROVE  SubSeq(SubSeq(s, m, n), i, i + Len(needle) - 1) = SubSeq(s, m + i - 1, m + i - 1 + Len(needle) - 1)
    <2> DEFINE j == i + Len(needle) - 1
    <2>1. j \in Nat /\ i <= j + 1 /\ j <= n - m + 1 /\ m + j - 1 = m + i - 1 + Len(needle) - 1
        BY <1>1, <1>3
    <2> HIDE DEF j
    <2>2. SubSeq(SubSeq(s, m, n), i, j) = SubSeq(s, m + i - 1, m + j - 1)
        BY <2>1, PartOfPart
    <2> QED BY <2>1, <2>2 DEF j
<1>4. i + Len(needle) - 1 <= n - m + 1 <=> m + i - 1 + Len(needle) - 1 <= n
    BY <1>1
<1>5. m + i - 1 + Len(needle) - 1 <= n => m + i - 1 + Len(needle) - 1 <= Len(s)
    BY <1>1, LenProperties
<1> QED BY <1>2, <1>3, <1>4, <1>5 DEF Upload!OccursAt

LEMMA BeginningOfBeginning ==
    ASSUME NEW S, NEW s \in Seq(S), NEW n \in Nat, n <= Len(s), NEW i \in Nat, NEW j \in Nat, 1 <= i, i <= j + 1, j <= n
    PROVE  SubSeq(SubSeq(s, 1, n), i, j) = SubSeq(s, i, j)
<1>1. ASSUME NEW m \in Nat, m = 1 PROVE SubSeq(SubSeq(s, m, n), i, j) = SubSeq(s, i, j)
    <2>1. 1 <= m /\ m <= n + 1 /\ j <= n - m + 1 /\ m + i - 1 = i /\ m + j - 1 = j
        BY <1>1
    <2>2. SubSeq(SubSeq(s, m, n), i, j) = SubSeq(s, m + i - 1, m + j - 1)
        BY <2>1, PartOfPart
    <2> QED BY <2>1, <2>2
<1> QED BY <1>1

LEMMA OccursInBeginning ==
    ASSUME NEW S, NEW s \in Seq(S), NEW n \in Nat, n <= Len(s),
           NEW needle \in Seq(S), needle # <<>>, NEW i \in Nat, 1 <= i
    PROVE  Upload!OccursAt(needle, SubSeq(s, 1, n), i) <=>
             Upload!OccursAt(needle, s, i) /\ i + Len(needle) - 1 <= n
<1>1. ASSUME NEW m \in Nat, m = 1
      PROVE  Upload!OccursAt(needle, SubSeq(s, m, n), i) <=> Upload!OccursAt(needle, s, i) /\ i + Len(needle) - 1 <= n
    <2>1. 1 <= m /\ m <= n + 1 /\ m + i - 1 = i
        BY <1>1
    <2>2. Upload!OccursAt(needle, SubSeq(s, m, n), i) <=>
             Upload!OccursAt(needle, s, m + i - 1) /\ m + i - 1 + Len(needle) - 1 <= n
        BY <2>1, OccursInPart
    <2> QED BY <2>1, <2>2
<1> QED BY <1>1

(* findInBuffer finds the first one. *)
LEMMA FirstFound ==
    ASSUME NEW S, NEW s \in Seq(S), NEW needle \in Seq(S), needle # <<>>
    PROVE  LET f == Upload!findInBuffer(s, needle)
           IN  /\ f \in Nat
               /\ f = 0 => \A i \in Nat \ {0} : ~Upload!OccursAt(needle, s, i)
               /\ f # 0 => /\ Upload!OccursAt(needle, s, f)
                           /\ \A i \in Nat \ {0} : Upload!OccursAt(needle, s, i) => f <= i
<1> DEFINE places == {i \in 1..(Len(s) + 1 - Len(needle)) : Upload!OccursAt(needle, s, i)}
<1>1. Len(s) \in Nat /\ Len(needle) \in Nat /\ Len(needle) >= 1
    BY EmptySeq, LenProperties
<1>2. \A i \in Nat \ {0} : Upload!OccursAt(needle, s, i) => i \in places
    BY <1>1 DEF Upload!OccursAt
<1>3. places \in SUBSET Nat /\ 0 \notin places /\ \A i \in places : Upload!OccursAt(needle, s, i)
    BY <1>1
<1>4. Upload!findInBuffer(s, needle) = IF places = {} THEN 0 ELSE Upload!Min(places)
    BY DEF Upload!findInBuffer
<1> HIDE DEF places
<1>5. places # {} => Upload!Min(places) \in places /\ \A y \in places : Upload!Min(places) <= y
    BY <1>3, LeastIsMin
<1>6. CASE places = {}
    BY <1>2, <1>4, <1>6
<1>7. CASE places # {}
    <2> DEFINE f == Upload!Min(places)
    <2>1. f \in places /\ f \in Nat /\ f # 0 /\ \A y \in places : f <= y
        BY <1>3, <1>5, <1>7
    <2>2. Upload!findInBuffer(s, needle) = f
        BY <1>4, <1>7
    <2> HIDE DEF f
    <2>3. Upload!OccursAt(needle, s, f) /\ \A i \in Nat \ {0} : Upload!OccursAt(needle, s, i) => f <= i
        BY <1>2, <1>3, <2>1
    <2> QED BY <2>1, <2>2, <2>3
<1> QED BY <1>6, <1>7

-----------------------------------------------------------------------------
(* The image in the body: from First, behind the part headers, to End, in  *)
(* front of the first delimiter.                                           *)
First == IF isMultipart THEN Upload!ImageStart(body) ELSE 1
Closes(i) == Upload!OccursAt(Upload!Delimiter, body, i)
End == IF ~isMultipart \/ Upload!ClosedAt(body) = {} THEN Len(body) ELSE Upload!Min(Upload!ClosedAt(body)) - 1

UploadType ==
    /\ body \in Seq(Symbols) /\ body # <<>> /\ isMultipart \in BOOLEAN
    /\ received \in 0..Len(body)
    /\ headersDone \in BOOLEAN /\ imageEnded \in BOOLEAN
    /\ hold \in Seq(Symbols) /\ written \in Seq(Symbols)

HeadersThere == isMultipart => Upload!HasHeaders(body)

LEMMA SymbolsTyped ==
    /\ Upload!Delimiter \in Seq(Symbols) /\ Upload!Delimiter # <<>>
    /\ Upload!HeaderEnd \in Seq(Symbols) /\ Upload!HeaderEnd # <<>> /\ Len(Upload!HeaderEnd) = 2
    /\ Boundary \in Seq(Symbols) /\ Boundary # <<>> /\ Len(Boundary) \in Nat \ {0}
    /\ Upload!delimLen \in Nat /\ (isMultipart => Upload!delimLen = Len(Upload!Delimiter) /\ Upload!delimLen > 0)
    /\ isMultipart = FALSE => Upload!delimLen = 0
<1>1. Boundary \in Seq(Symbols)
    BY UploadAssumption, Z3 DEF Upload!SymbolsAssumption
<1>2. <<CRLF>> \in Seq(Symbols) /\ Len(<<CRLF>>) = 1
    BY UploadAssumption DEF Upload!SymbolsAssumption
<1>3. Upload!Delimiter \in Seq(Symbols) /\ Len(Upload!Delimiter) = 1 + Len(Boundary)
    BY <1>1, <1>2, ConcatProperties DEF Upload!Delimiter
<1>4. Upload!HeaderEnd \in Seq(Symbols) /\ Len(Upload!HeaderEnd) = 2
    BY UploadAssumption DEF Upload!SymbolsAssumption, Upload!HeaderEnd
<1>5. Boundary # <<>> /\ Len(Boundary) \in Nat \ {0}
    BY <1>1, EmptySeq, UploadAssumption DEF Upload!SymbolsAssumption
<1>6. Upload!Delimiter # <<>> /\ Upload!HeaderEnd # <<>>
    <2>1. Len(<<>>) = 0
        OBVIOUS
    <2> QED BY <1>3, <1>4, <1>5, <2>1
<1> QED BY <1>1, <1>3, <1>4, <1>5, <1>6 DEF Upload!delimLen

LEMMA ImageBounds ==
    ASSUME UploadType, HeadersThere
    PROVE  /\ Len(body) \in Nat \ {0}
           /\ First \in Nat /\ 1 <= First /\ First <= Len(body) + 1
           /\ End \in Nat /\ First <= End + 1 /\ End <= Len(body)
           /\ Upload!Image(body) = SubSeq(body, First, End)
           /\ Len(Upload!Image(body)) = End - First + 1
           /\ isMultipart => /\ \A i \in Nat : First <= i /\ Closes(i) => End < i
                             /\ Upload!ClosedAt(body) # {} => Closes(End + 1)
                             /\ \A i \in Nat : First <= i /\ Closes(i) => Upload!ClosedAt(body) # {}
                             /\ Upload!ClosedAt(body) = {} => End = Len(body)
           /\ ~isMultipart => First = 1 /\ End = Len(body)
<1>1. Len(body) \in Nat \ {0}
    BY EmptySeq DEF UploadType
<1>2. CASE ~isMultipart
    <2>1. First = 1 /\ End = Len(body) /\ Upload!Image(body) = body
        BY <1>2 DEF First, End, Upload!Image
    <2> QED BY <1>1, <1>2, <2>1, SubSeqFull DEF UploadType
<1>3. CASE isMultipart
    <2> DEFINE closed == Upload!ClosedAt(body)
               first == Upload!Min(closed)
    <2>1. /\ First = Upload!HeaderEndOf(body) + 2
          /\ Upload!HeaderEndOf(body) \in Nat \ {0}
          /\ Upload!OccursAt(Upload!HeaderEnd, body, Upload!HeaderEndOf(body))
        BY <1>3, SymbolsTyped, FirstFound DEF UploadType, HeadersThere, First, Upload!ImageStart, Upload!HasHeaders, Upload!HeaderEndOf
    <2>2. First \in Nat /\ 1 <= First /\ First <= Len(body) + 1
        BY <1>1, <2>1, SymbolsTyped DEF Upload!OccursAt
    <2>3. \A i \in Nat : Closes(i) => i <= Len(body)
        BY <1>1, <1>3, SymbolsTyped DEF Closes, Upload!OccursAt
    <2>4. \A i \in Nat : First <= i /\ Closes(i) => i \in closed
        BY <1>1, <1>3, <2>2, <2>3 DEF Closes, Upload!ClosedAt, First
    <2>5. closed \in SUBSET Nat /\ \A i \in closed : First <= i /\ i <= Len(body) /\ Closes(i)
        BY <1>1, <1>3, <2>2 DEF Closes, Upload!ClosedAt, First
    <2>6. closed # {} => first \in closed /\ \A i \in closed : first <= i
        BY <2>5, LeastIsMin
    <2>7. End = (IF closed = {} THEN Len(body) ELSE first - 1)
        BY <1>3 DEF End
    <2>8. Upload!Image(body) = SubSeq(body, First, End)
        BY <1>3, <2>7 DEF Upload!Image, First
    <2> HIDE DEF closed, first
    <2>16. closed # {} => first \in Nat
        BY <2>5, <2>6
    <2>17. closed # {} => First <= first /\ first <= Len(body) /\ Closes(first)
        BY <2>5, <2>6
    <2>18. \A i \in Nat : First <= i /\ Closes(i) => closed # {} /\ first <= i
        BY <2>4, <2>6
    <2>9. End \in Nat /\ First <= End + 1 /\ End <= Len(body)
        BY <1>1, <2>2, <2>7, <2>16, <2>17
    <2>10. \A i \in Nat : First <= i /\ Closes(i) => End < i
        BY <2>7, <2>16, <2>18
    <2>11. closed # {} => End + 1 = first
        BY <2>7, <2>16
    <2>12. Len(Upload!Image(body)) = End - First + 1
        BY <2>2, <2>8, <2>9, PartOf DEF UploadType
    <2>13. closed # {} => Closes(End + 1)
        BY <2>11, <2>17
    <2>14. \A i \in Nat : First <= i /\ Closes(i) => closed # {}
        BY <2>4
    <2>15. closed = {} => End = Len(body)
        BY <2>7
    <2> QED BY <1>1, <1>3, <2>2, <2>8, <2>9, <2>10, <2>12, <2>13, <2>14, <2>15 DEF closed
<1> QED BY <1>2, <1>3 DEF UploadType

-----------------------------------------------------------------------------
(* How far the image is written, and what is held back behind it: as much  *)
(* as could begin a delimiter that is not yet complete.                    *)
Wrote(w) ==
    /\ w \in Seq(Symbols)
    /\ First - 1 + Len(w) <= End /\ Len(w) <= PartitionSize
    /\ w = SubSeq(body, First, First + Len(w) - 1)

Held(w, h, n) ==
    /\ n \in Nat /\ First - 1 + Len(w) <= n /\ n <= Len(body)
    /\ h = SubSeq(body, First + Len(w), n)
    /\ Len(h) <= Upload!delimLen
    /\ Len(w) > 0 => Len(h) = Upload!delimLen
    /\ isMultipart => \A i \in Nat : First <= i /\ i + Upload!delimLen - 1 <= n => ~Closes(i)

Ended(w) == isMultipart /\ Upload!ClosedAt(body) # {} /\ First - 1 + Len(w) = End

(* A read is fed: more of the image is written, or all, or it is too large.*)
LEMMA Fed ==
    ASSUME UploadType, HeadersThere, verdict = "receiving", ~imageEnded, Wrote(written),
           NEW from \in Nat, NEW to \in Nat, from <= to, to <= Len(body),
           Held(written, hold, from), Len(written) > 0 => from < to,
           Upload!Feed(SubSeq(body, from + 1, to))
    PROVE  /\ Wrote(written') /\ hold' \in Seq(Symbols) /\ imageEnded' \in BOOLEAN
           /\ \/ verdict' = "too large" /\ ~Upload!WellFormed(body)
              \/ verdict' = "receiving" /\ ~imageEnded' /\ Held(written', hold', to)
              \/ verdict' = "receiving" /\ imageEnded' /\ Ended(written')
<1> DEFINE start == First + Len(written)
           window == hold \o SubSeq(body, from + 1, to)
           size == to - start + 1
           delim == IF Upload!delimLen = 0 THEN 0 ELSE Upload!findInBuffer(window, Upload!Delimiter)
           emit == IF delim # 0 THEN delim - 1 ELSE Len(window) - Upload!HeldOf(Len(window))
           e == Upload!delimLen
<1>1. /\ Len(body) \in Nat /\ First \in Nat /\ 1 <= First /\ End \in Nat /\ First <= End + 1 /\ End <= Len(body)
      /\ Len(Upload!Image(body)) = End - First + 1
    BY ImageBounds
<1>2. Len(written) \in Nat /\ e \in Nat /\ PartitionSize \in Nat /\ body \in Seq(Symbols)
    BY SymbolsTyped, LenProperties, UploadAssumption DEF UploadType, Upload!SizesAssumption
<1>3. /\ start \in Nat /\ 1 <= start /\ start <= from + 1 /\ hold = SubSeq(body, start, from)
      /\ size \in Nat /\ start <= to + 1
    BY <1>1, <1>2 DEF Held
<1>4. window = SubSeq(body, start, to)
    <2>1. start \in 1..(Len(body) + 1) /\ from \in (start - 1)..Len(body) /\ to \in from..Len(body)
        BY <1>1, <1>3
    <2> QED BY <1>2, <1>3, <2>1, ConcatAdjacentSubSeq
<1>5. window \in Seq(Symbols) /\ Len(window) = size
    BY <1>2, <1>3, <1>4, PartOf
<1>6. Len(hold) = from - start + 1
    BY <1>1, <1>2, <1>3, PartOf
<1> HIDE DEF e, start, window
<1>7. /\ Upload!WriteOut(SubSeq(window, 1, emit))
      /\ imageEnded' = (delim # 0)
      /\ hold' = IF delim # 0 THEN <<>> ELSE SubSeq(window, emit + 1, Len(window))
    BY DEF Upload!Feed, window
<1>8. \A i \in Nat \ {0} : isMultipart =>
          (Upload!OccursAt(Upload!Delimiter, window, i) <=> Closes(start + i - 1) /\ start + i - 1 + e - 1 <= to)
    BY <1>2, <1>3, <1>4, SymbolsTyped, OccursInPart DEF Closes, e
<1>9. isMultipart => \A i \in Nat : First <= i /\ i < start => ~Closes(i)
    <2> SUFFICES ASSUME isMultipart, NEW i \in Nat, First <= i, i < start PROVE ~Closes(i)
        OBVIOUS
    <2>1. Len(written) > 0
        BY <1>1, <1>2 DEF start
    <2>2. i + e - 1 <= from
        BY <1>1, <1>2, <1>3, <1>6, <2>1 DEF Held, e
    <2> QED BY <2>2 DEF Held, e
<1>10. /\ delim \in Nat
       /\ isMultipart /\ delim = 0 => \A i \in Nat : First <= i /\ i + e - 1 <= to => ~Closes(i)
       /\ delim # 0 => /\ isMultipart /\ Closes(start + delim - 1)
                       /\ \A i \in Nat : First <= i /\ Closes(i) => start + delim - 1 <= i
                       /\ delim <= size
    <2>1. CASE ~isMultipart
        BY <2>1, SymbolsTyped DEF delim, UploadType
    <2>2. CASE isMultipart
        <3>1. e > 0 /\ e = Len(Upload!Delimiter) /\ delim = Upload!findInBuffer(window, Upload!Delimiter)
            BY <2>2, SymbolsTyped DEF e
        <3>2. /\ delim \in Nat
              /\ delim = 0 => \A i \in Nat \ {0} : ~Upload!OccursAt(Upload!Delimiter, window, i)
              /\ delim # 0 => /\ Upload!OccursAt(Upload!Delimiter, window, delim)
                              /\ \A i \in Nat \ {0} : Upload!OccursAt(Upload!Delimiter, window, i) => delim <= i
            BY <3>1, <1>5, SymbolsTyped, FirstFound
        <3> HIDE DEF delim
        <3>3. ASSUME NEW i \in Nat, start <= i
              PROVE  Closes(i) /\ i + e - 1 <= to <=> Upload!OccursAt(Upload!Delimiter, window, i - start + 1)
            <4>1. i - start + 1 \in Nat \ {0} /\ start + (i - start + 1) - 1 = i
                BY <1>3, <3>3
            <4> QED BY <4>1, <1>8, <2>2
        <3>4. ASSUME delim = 0, NEW i \in Nat, First <= i, i + e - 1 <= to PROVE ~Closes(i)
            <4>1. CASE start <= i
                <5>1. i - start + 1 \in Nat \ {0}
                    BY <1>3, <4>1
                <5> QED BY <4>1, <5>1, <3>2, <3>3, <3>4
            <4>2. CASE i < start
                BY <4>2, <1>9, <2>2, <3>4
            <4> QED BY <4>1, <4>2, <1>3
        <3>5. ASSUME delim # 0
              PROVE  Closes(start + delim - 1) /\ start + delim - 1 + e - 1 <= to /\ delim <= size
            <4>1. Closes(start + delim - 1) /\ start + delim - 1 + e - 1 <= to
                BY <3>2, <3>5, <1>8, <2>2
            <4>2. delim <= size
                BY <4>1, <3>1, <3>2, <1>2, <1>3
            <4> QED BY <4>1, <4>2
        <3>6. ASSUME delim # 0, NEW i \in Nat, First <= i, Closes(i) PROVE start + delim - 1 <= i
            <4> SUFFICES ASSUME i < start + delim - 1 PROVE FALSE
                BY <1>3, <3>2
            <4>1. start <= i
                BY <1>3, <1>9, <2>2, <3>6
            <4>2. i + e - 1 <= to
                BY <1>2, <1>3, <3>2, <3>5, <3>6
            <4>3. i - start + 1 \in Nat \ {0} /\ i - start + 1 < delim
                BY <1>3, <3>2, <4>1
            <4> QED BY <3>2, <3>3, <3>6, <4>1, <4>2, <4>3
        <3> QED BY <2>2, <3>2, <3>4, <3>5, <3>6
    <2> QED BY <2>1, <2>2 DEF UploadType
<1>11. /\ emit \in Nat /\ emit <= size /\ start + emit - 1 <= End
       /\ delim # 0 => start + emit - 1 = End
       /\ delim = 0 => \/ emit = 0 /\ size <= e
                       \/ emit = size - e
    <2>1. CASE delim # 0
        <3>1. emit = delim - 1
            BY <2>1
        <3>2. Upload!ClosedAt(body) # {} /\ End + 1 = start + delim - 1
            <4> HIDE DEF delim
            <4>1. isMultipart /\ Closes(start + delim - 1) /\ start + delim - 1 \in Nat /\ First <= start + delim - 1
                BY <2>1, <1>1, <1>2, <1>3, <1>10 DEF start
            <4>2. Upload!ClosedAt(body) # {} /\ Closes(End + 1) /\ End < start + delim - 1
                BY <4>1, ImageBounds
            <4>3. start + delim - 1 <= End + 1
                BY <2>1, <1>1, <1>10, <4>2
            <4> QED BY <1>1, <1>3, <1>10, <4>1, <4>2, <4>3
        <3> HIDE DEF delim, emit
        <3> QED BY <2>1, <1>1, <1>3, <1>10, <3>1, <3>2
    <2>2. CASE delim = 0
        <3>1. emit = size - Upload!HeldOf(size)
            BY <2>2, <1>5
        <3>2. emit \in Nat /\ emit <= size /\ ((emit = 0 /\ size <= e) \/ emit = size - e)
            <4>1. Upload!HeldOf(size) = IF e < size THEN e ELSE size
                BY DEF Upload!HeldOf, e
            <4> HIDE DEF delim, emit, size
            <4> QED BY <3>1, <4>1, <1>2, <1>3
        <3> HIDE DEF delim, emit
        <3>3. start + emit - 1 <= End
            <4>1. CASE ~isMultipart
                BY <4>1, ImageBounds, <3>2, <1>1, <1>3 DEF size
            <4>2. CASE isMultipart
                <5>1. CASE Upload!ClosedAt(body) = {}
                    BY <4>2, <5>1, ImageBounds, <3>2, <1>1, <1>3 DEF size
                <5>2. CASE Upload!ClosedAt(body) # {}
                    <6>1. Closes(End + 1) /\ End + 1 \in Nat /\ First <= End + 1
                        BY <4>2, <5>2, <1>1, ImageBounds
                    <6>2. ~(End + 1 + e - 1 <= to)
                        BY <6>1, <4>2, <2>2, <1>10
                    <6>3. CASE emit = size - e
                        BY <6>2, <6>3, <1>1, <1>2, <1>3 DEF size
                    <6>4. CASE emit = 0
                        BY <6>4, <1>1, <1>2 DEF start, Wrote
                    <6> QED BY <3>2, <6>3, <6>4
                <5> QED BY <5>1, <5>2
            <4> QED BY <4>1, <4>2
        <3> QED BY <2>2, <3>2, <3>3
    <2> QED BY <2>1, <2>2
<1> HIDE DEF delim, emit, size
<1>12. /\ SubSeq(window, 1, emit) = SubSeq(body, start, start + emit - 1)
       /\ Len(SubSeq(window, 1, emit)) = emit
       /\ written \o SubSeq(window, 1, emit) = SubSeq(body, First, start + emit - 1)
       /\ written \o SubSeq(window, 1, emit) \in Seq(Symbols)
       /\ Len(written \o SubSeq(window, 1, emit)) = Len(written) + emit
    <2>1. to - start + 1 = size /\ 1 <= emit + 1
        BY <1>11 DEF size
    <2>2. SubSeq(window, 1, emit) = SubSeq(body, start + 1 - 1, start + emit - 1)
        BY <1>2, <1>3, <1>4, <1>11, <2>1, PartOfPart
    <2>3. SubSeq(window, 1, emit) \in Seq(Symbols) /\ Len(SubSeq(window, 1, emit)) = emit
        BY <1>5, <1>11, <2>1, PartOf
    <2>4. written = SubSeq(body, First, start - 1)
        BY <1>1, <1>2 DEF Wrote, start
    <2>5. First \in 1..(Len(body) + 1) /\ start - 1 \in (First - 1)..Len(body) /\ start + emit - 1 \in (start - 1)..Len(body)
        BY <1>1, <1>2, <1>3, <1>11 DEF start
    <2>6. SubSeq(body, First, start - 1) \o SubSeq(body, (start - 1) + 1, start + emit - 1) = SubSeq(body, First, start + emit - 1)
        BY <1>2, <2>5, ConcatAdjacentSubSeq
    <2>7. (start - 1) + 1 = start /\ start + 1 - 1 = start
        BY <1>3
    <2>8. written \o SubSeq(window, 1, emit) \in Seq(Symbols) /\ Len(written \o SubSeq(window, 1, emit)) = Len(written) + emit
        BY <2>3, ConcatProperties DEF Wrote
    <2> QED BY <2>2, <2>3, <2>4, <2>6, <2>7, <2>8
<1>13. hold' \in Seq(Symbols) /\ imageEnded' \in BOOLEAN
    <2>1. emit + 1 \in Nat /\ 1 <= emit + 1 /\ emit + 1 <= size + 1 /\ size <= Len(window)
        BY <1>3, <1>5, <1>11
    <2>2. SubSeq(window, emit + 1, Len(window)) \in Seq(Symbols)
        BY <1>3, <1>5, <2>1, PartOf
    <2> QED BY <1>7, <2>2, EmptySeq
<1>14. CASE Len(written) + Len(SubSeq(window, 1, emit)) > PartitionSize
    <2>1. verdict' = "too large" /\ written' = written
        BY <1>7, <1>14 DEF Upload!WriteOut
    <2>2. End - First + 1 > PartitionSize
        BY <1>14, <1>1, <1>2, <1>3, <1>11, <1>12 DEF start
    <2>3. ~Upload!WellFormed(body)
        BY <1>1, <1>2, <2>2 DEF Upload!WellFormed
    <2> QED BY <1>13, <2>1, <2>3
<1>15. CASE ~(Len(written) + Len(SubSeq(window, 1, emit)) > PartitionSize)
    <2>1. verdict' = "receiving" /\ written' = written \o SubSeq(window, 1, emit)
        BY <1>7, <1>15 DEF Upload!WriteOut
    <2>2. Len(written') = Len(written) + emit /\ start + emit = First + Len(written')
        BY <1>1, <1>2, <1>11, <1>12, <2>1 DEF start
    <2>3. Wrote(written')
        <3>1. written' \in Seq(Symbols) /\ written' = SubSeq(body, First, start + emit - 1)
            BY <1>12, <2>1
        <3>2. First - 1 + Len(written') = start + emit - 1 /\ First + Len(written') - 1 = start + emit - 1
            BY <1>1, <1>2, <1>11, <2>2 DEF start
        <3>3. Len(written') <= PartitionSize
            BY <1>15, <1>2, <1>11, <1>12, <2>2
        <3> QED BY <1>11, <3>1, <3>2, <3>3 DEF Wrote
    <2>4. CASE delim # 0
        <3>1. First - 1 + Len(written') = End
            BY <1>1, <1>2, <1>11, <2>2, <2>4 DEF start
        <3>2. isMultipart /\ Upload!ClosedAt(body) # {}
            <4>1. Closes(start + delim - 1) /\ start + delim - 1 \in Nat /\ First <= start + delim - 1
                BY <2>4, <1>1, <1>2, <1>3, <1>10 DEF start
            <4> QED BY <4>1, <2>4, <1>10, ImageBounds
        <3> QED BY <1>7, <1>13, <2>1, <2>3, <2>4, <3>1, <3>2 DEF Ended
    <2>5. CASE delim = 0
        <3>1. hold' = SubSeq(window, emit + 1, size)
            BY <1>5, <1>7, <2>5
        <3>2. /\ SubSeq(window, emit + 1, size) = SubSeq(body, start + (emit + 1) - 1, start + size - 1)
              /\ Len(SubSeq(window, emit + 1, size)) = size - (emit + 1) + 1
            <4>1. emit + 1 \in Nat /\ 1 <= emit + 1 /\ emit + 1 <= size + 1 /\ size <= to - start + 1 /\ size \in Nat
                BY <1>3, <1>11 DEF size
            <4>2. SubSeq(SubSeq(body, start, to), emit + 1, size) = SubSeq(body, start + (emit + 1) - 1, start + size - 1)
                <5> DEFINE k == emit + 1
                <5>1. k \in Nat /\ 1 <= k /\ k <= size + 1
                    BY <4>1
                <5> HIDE DEF k
                <5>2. SubSeq(SubSeq(body, start, to), k, size) = SubSeq(body, start + k - 1, start + size - 1)
                    BY <1>2, <1>3, <4>1, <5>1, PartOfPart
                <5> QED BY <5>2 DEF k
            <4>3. Len(SubSeq(window, emit + 1, size)) = size - (emit + 1) + 1
                BY <1>5, <4>1, PartOf
            <4> QED BY <1>4, <4>2, <4>3
        <3>3. start + (emit + 1) - 1 = First + Len(written') /\ start + size - 1 = to
            BY <1>3, <1>11, <2>2 DEF size
        <3>4. hold' = SubSeq(body, First + Len(written'), to) /\ Len(hold') = size - emit
            <4>1. size - (emit + 1) + 1 = size - emit
                BY <1>3, <1>11
            <4> QED BY <4>1, <3>1, <3>2, <3>3
        <3>5. Len(hold') <= e /\ (Len(written') > 0 => Len(hold') = e)
            <4>1. CASE emit = size - e
                <5>1. size - emit = e /\ e <= e
                    BY <4>1, <1>2, <1>3
                <5> QED BY <5>1, <3>4
            <4>2. CASE emit = 0 /\ size <= e
                <5>1. Len(written) > 0 => size > e
                    <6>1. Len(written) > 0 => e = from - start + 1
                        BY <1>6 DEF Held, e
                    <6> QED BY <6>1, <1>2, <1>3 DEF size
                <5> QED BY <4>2, <5>1, <3>4, <2>2, <1>2, <1>3
            <4> QED BY <2>5, <1>11, <4>1, <4>2
        <3>6. First - 1 + Len(written') <= to
            BY <1>1, <1>3, <1>11, <2>2, <3>3
        <3>7. isMultipart => \A i \in Nat : First <= i /\ i + e - 1 <= to => ~Closes(i)
            BY <2>5, <1>10
        <3>8. Held(written', hold', to)
            BY <3>4, <3>5, <3>6, <3>7 DEF Held, e
        <3> QED BY <1>7, <2>1, <2>3, <2>5, <3>8, <1>13
    <2> QED BY <2>4, <2>5
<1> QED BY <1>14, <1>15

-----------------------------------------------------------------------------
(* Until the image begins nothing is written; then it is written up to     *)
(* what is held, and a verdict is the body's.                              *)
UploadInv ==
    /\ UploadType
    /\ headersDone => HeadersThere /\ Wrote(written)
    /\ ~headersDone => isMultipart /\ written = <<>> /\ hold = <<>> /\ ~imageEnded
    /\ verdict = "receiving" =>
          IF ~headersDone THEN received < Len(body)
          ELSE IF imageEnded THEN Ended(written) ELSE Held(written, hold, received)
    /\ verdict \notin {"receiving", "interrupted"} =>
          /\ verdict = "ok" <=> Upload!WellFormed(body)
          /\ verdict = "ok" => written = Upload!Image(body)

(* The body stays as it was sent. *)
LEMMA SameImage ==
    ASSUME body' = body, isMultipart' = isMultipart
    PROVE  /\ HeadersThere' = HeadersThere /\ Upload!WellFormed(body)' = Upload!WellFormed(body)
           /\ Upload!Image(body)' = Upload!Image(body)
           /\ Wrote(written)' = Wrote(written') /\ Ended(written)' = Ended(written')
           /\ Held(written, hold, received)' = Held(written', hold', received')
BY DEF HeadersThere, Upload!WellFormed, Upload!Image, Wrote, Ended, Held, First, End, Closes,
       Upload!delimLen, Upload!HasHeaders, Upload!ClosedAt, Upload!ImageStart, Upload!HeaderEndOf

LEMMA NothingWritten ==
    ASSUME UploadType, HeadersThere, written = <<>>, hold = <<>>
    PROVE  Wrote(written) /\ Held(written, hold, First - 1)
<1>1. Len(written) = 0 /\ Len(hold) = 0 /\ written \in Seq(Symbols)
    BY DEF UploadType
<1>2. /\ First \in Nat /\ 1 <= First /\ First <= Len(body) + 1 /\ End \in Nat /\ First <= End + 1 /\ End <= Len(body)
      /\ Len(body) \in Nat
    BY ImageBounds
<1>3. PartitionSize \in Nat
    BY UploadAssumption DEF Upload!SizesAssumption
<1>4. SubSeq(body, First, First - 1) = <<>>
    BY <1>2, SubSeqEmpty
<1>5. First - 1 \in Nat /\ First - 1 + 0 = First - 1 /\ First + 0 - 1 = First - 1 /\ First + 0 = First /\ First - 1 <= End
      /\ First - 1 <= Len(body) /\ 0 <= PartitionSize
    BY <1>2, <1>3
<1>6. Wrote(written)
    BY <1>1, <1>4, <1>5 DEF Wrote
<1>7. isMultipart => \A i \in Nat : First <= i => ~(i + Upload!delimLen - 1 <= First - 1)
    BY <1>2, SymbolsTyped
<1>8. Upload!delimLen \in Nat
    BY SymbolsTyped
<1>9. Held(written, hold, First - 1)
    <2> DEFINE n == First - 1
    <2>1. n \in Nat /\ First - 1 + Len(written) <= n /\ n <= Len(body)
        BY <1>1, <1>5
    <2>2. hold = SubSeq(body, First + Len(written), n)
        BY <1>1, <1>4, <1>5
    <2>3. Len(hold) <= Upload!delimLen /\ ~(Len(written) > 0)
        BY <1>1, <1>8
    <2>4. isMultipart => \A i \in Nat : First <= i /\ i + Upload!delimLen - 1 <= n => ~Closes(i)
        BY <1>7
    <2> HIDE DEF n
    <2>5. Held(written, hold, n)
        BY <2>1, <2>2, <2>3, <2>4 DEF Held
    <2> QED BY <2>5 DEF n
<1> QED BY <1>6, <1>9

LEMMA UploadInit == Upload!Init => UploadInv
<1> SUFFICES ASSUME Upload!Init PROVE UploadInv
    OBVIOUS
<1>1. body \in Seq(Symbols) /\ body # <<>>
    <2>1. PICK n \in 1..MaxBody : body \in [1..n -> Symbols]
        BY UploadAssumption DEF Upload!Init, Upload!SizesAssumption
    <2>2. n \in Nat /\ n > 0
        BY <2>1, UploadAssumption DEF Upload!SizesAssumption
    <2>3. body \in Seq(Symbols) /\ Len(body) = n
        BY <2>1, <2>2, IsASeq, LenProperties
    <2>4. Len(<<>>) = 0
        OBVIOUS
    <2> QED BY <2>2, <2>3, <2>4
<1>2. UploadType /\ received = 0 /\ written = <<>> /\ hold = <<>> /\ ~imageEnded /\ verdict = "receiving"
    <2>1. Len(body) \in Nat /\ 0 \in 0..Len(body)
        BY <1>1, LenProperties
    <2> QED BY <1>1, <2>1, EmptySeq DEF Upload!Init, UploadType
<1>3. headersDone = ~isMultipart /\ isMultipart \in BOOLEAN
    BY DEF Upload!Init
<1>4. CASE isMultipart
    <2>1. ~headersDone /\ received < Len(body)
        <3>1. Len(body) \in Nat \ {0}
            BY <1>1, EmptySeq
        <3>2. received < Len(body)
            BY <1>2, <3>1
        <3>3. ~headersDone
            BY <1>3, <1>4
        <3> QED BY <3>2, <3>3
    <2> QED BY <1>2, <1>4, <2>1 DEF UploadInv
<1>5. CASE ~isMultipart
    <2>1. HeadersThere /\ First - 1 = received
        BY <1>2, <1>5 DEF HeadersThere, First
    <2>2. Wrote(written) /\ Held(written, hold, received)
        BY <1>2, <2>1, NothingWritten
    <2> QED BY <1>2, <1>3, <1>5, <2>1, <2>2 DEF UploadInv
<1> QED BY <1>3, <1>4, <1>5

(* Searching a beginning of the body finds what searching it whole does.   *)
LEMMA GatherFinds ==
    ASSUME UploadType, NEW n \in Nat, n <= Len(body)
    PROVE  LET f == Upload!findInBuffer(SubSeq(body, 1, n), Upload!HeaderEnd)
           IN  /\ f \in Nat
               /\ f # 0 => f + 1 <= n /\ Upload!HeaderEndOf(body) = f
               /\ f = 0 => Upload!HeaderEndOf(body) = 0 \/ Upload!HeaderEndOf(body) + 1 > n
<1> DEFINE f == Upload!findInBuffer(SubSeq(body, 1, n), Upload!HeaderEnd)
           h == Upload!HeaderEndOf(body)
<1>1. SubSeq(body, 1, n) \in Seq(Symbols) /\ body \in Seq(Symbols) /\ Len(body) \in Nat
    BY PartOf, LenProperties DEF UploadType
<1>2. \A i \in Nat \ {0} : Upload!OccursAt(Upload!HeaderEnd, SubSeq(body, 1, n), i) <=>
                               Upload!OccursAt(Upload!HeaderEnd, body, i) /\ i + 1 <= n
    <2> TAKE i \in Nat \ {0}
    <2>1. Upload!OccursAt(Upload!HeaderEnd, SubSeq(body, 1, n), i) <=>
             Upload!OccursAt(Upload!HeaderEnd, body, i) /\ i + Len(Upload!HeaderEnd) - 1 <= n
        <3>1. i \in Nat /\ 1 <= i
            OBVIOUS
        <3> QED BY <1>1, <3>1, SymbolsTyped, OccursInBeginning
    <2>2. i + 2 - 1 = i + 1
        OBVIOUS
    <2> QED BY <2>1, <2>2, SymbolsTyped
<1>3. /\ f \in Nat
      /\ f = 0 => \A i \in Nat \ {0} : ~Upload!OccursAt(Upload!HeaderEnd, SubSeq(body, 1, n), i)
      /\ f # 0 => /\ Upload!OccursAt(Upload!HeaderEnd, SubSeq(body, 1, n), f)
                  /\ \A i \in Nat \ {0} : Upload!OccursAt(Upload!HeaderEnd, SubSeq(body, 1, n), i) => f <= i
    BY <1>1, SymbolsTyped, FirstFound
<1>4. /\ h \in Nat
      /\ h = 0 => \A i \in Nat \ {0} : ~Upload!OccursAt(Upload!HeaderEnd, body, i)
      /\ h # 0 => /\ Upload!OccursAt(Upload!HeaderEnd, body, h)
                  /\ \A i \in Nat \ {0} : Upload!OccursAt(Upload!HeaderEnd, body, i) => h <= i
    BY <1>1, SymbolsTyped, FirstFound DEF Upload!HeaderEndOf
<1> HIDE DEF f, h
<1>5. f # 0 => f + 1 <= n /\ h # 0 /\ h <= f
    BY <1>2, <1>3, <1>4
<1>6. f # 0 => h + 1 <= n
    BY <1>3, <1>4, <1>5
<1>7. f # 0 => f <= h
    BY <1>2, <1>3, <1>4, <1>5, <1>6
<1>8. f = 0 /\ h # 0 => h + 1 > n
    <2>1. f = 0 /\ h # 0 => ~(h + 1 <= n)
        BY <1>2, <1>3, <1>4
    <2> QED BY <2>1, <1>4
<1> QED BY <1>3, <1>4, <1>5, <1>7, <1>8 DEF f, h

LEMMA WithinLength == \A n, k \in Nat : k <= n => k \in 0..n
OBVIOUS

(* What a fed read leaves is the invariant's. *)
LEMMA FedKeeps ==
    ASSUME UploadType, HeadersThere, NEW to \in Nat, to <= Len(body), received' = to, UNCHANGED <<body, isMultipart>>,
           headersDone' = TRUE, Wrote(written'), hold' \in Seq(Symbols), imageEnded' \in BOOLEAN,
           \/ verdict' = "too large" /\ ~Upload!WellFormed(body)
           \/ verdict' = "receiving" /\ ~imageEnded' /\ Held(written', hold', to)
           \/ verdict' = "receiving" /\ imageEnded' /\ Ended(written')
    PROVE  UploadInv'
<1>1. UploadType'
    <2>0. Len(body) \in Nat /\ to \in 0..Len(body)
        <3>1. body \in Seq(Symbols)
            BY DEF UploadType
        <3>2. Len(body) \in Nat
            BY <3>1, LenProperties
        <3>3. to <= Len(body) => to \in 0..Len(body)
            BY <3>2, WithinLength
        <3> QED BY <3>2, <3>3
    <2>1. received' \in 0..Len(body)
        BY <2>0
    <2>2. written' \in Seq(Symbols)
        BY DEF Wrote
    <2>3. headersDone' \in BOOLEAN
        OBVIOUS
    <2> QED BY <2>1, <2>2, <2>3 DEF UploadType
<1>2. /\ HeadersThere' = HeadersThere /\ Upload!WellFormed(body)' = Upload!WellFormed(body)
      /\ Wrote(written)' = Wrote(written') /\ Ended(written)' = Ended(written')
      /\ Held(written, hold, received)' = Held(written', hold', received')
    BY SameImage
<1>3. (headersDone => HeadersThere /\ Wrote(written))'
    BY <1>2
<1>4. verdict' \notin {"receiving", "interrupted"} => ~(verdict' = "ok") /\ ~Upload!WellFormed(body)'
    BY <1>2
<1>5. verdict' = "receiving" => IF imageEnded' THEN Ended(written)' ELSE Held(written, hold, received)'
    BY <1>2
<1> QED BY <1>1, <1>3, <1>4, <1>5 DEF UploadInv

LEMMA RefusedKeeps ==
    ASSUME UploadInv, ~headersDone, NEW to \in Nat, to <= Len(body), received' = to, UNCHANGED <<body, isMultipart>>,
           UNCHANGED <<headersDone, hold, imageEnded, written>>,
           verdict' \in {"headers not found", "opening boundary not found"}, ~Upload!WellFormed(body)
    PROVE  UploadInv'
<1>1. UploadType'
    <2>0. Len(body) \in Nat /\ to \in 0..Len(body)
        <3>1. body \in Seq(Symbols)
            BY DEF UploadInv, UploadType
        <3>2. Len(body) \in Nat
            BY <3>1, LenProperties
        <3>3. to <= Len(body) => to \in 0..Len(body)
            BY <3>2, WithinLength
        <3> QED BY <3>2, <3>3
    <2>1. received' \in 0..Len(body)
        BY <2>0
    <2> QED BY <2>1 DEF UploadInv, UploadType
<1>2. ~Upload!WellFormed(body)'
    BY SameImage
<1>3. (~headersDone => isMultipart /\ written = <<>> /\ hold = <<>> /\ ~imageEnded)' /\ ~headersDone'
    BY DEF UploadInv
<1>4. verdict' # "receiving" /\ verdict' # "ok"
    OBVIOUS
<1> QED BY <1>1, <1>2, <1>3, <1>4 DEF UploadInv

(* The part headers come in, or it is clear that they do not.              *)
LEMMA GatherKeeps ==
    ASSUME UploadInv, verdict = "receiving", ~headersDone,
           NEW to \in Nat, received < to, to <= Len(body), received' = to,
           Upload!Gather(SubSeq(body, 1, to)), UNCHANGED <<body, isMultipart>>
    PROVE  UploadInv'
<1> DEFINE s == SubSeq(body, 1, to)
           found == Upload!Searchable(to)
           f == Upload!findInBuffer(SubSeq(s, 1, found), Upload!HeaderEnd)
<1>1. UploadType /\ isMultipart /\ written = <<>> /\ hold = <<>> /\ ~imageEnded /\ body \in Seq(Symbols) /\ body # <<>>
    BY DEF UploadInv, UploadType
<1>2. Len(body) \in Nat /\ PART_HEADER_MAX \in Nat /\ Len(Boundary) \in Nat \ {0} /\ Boundary \in Seq(Symbols) /\ Boundary # <<>>
    BY <1>1, LenProperties, SymbolsTyped, UploadAssumption DEF Upload!SizesAssumption
<1>3. /\ found \in Nat /\ found <= to /\ found <= PART_HEADER_MAX
      /\ to < PART_HEADER_MAX => found = to
      /\ ~(to < PART_HEADER_MAX) => found = PART_HEADER_MAX
    BY <1>2 DEF Upload!Searchable
<1>4. s \in Seq(Symbols) /\ Len(s) = to
    BY <1>1, PartOf
<1>5. SubSeq(s, 1, found) = SubSeq(body, 1, found)
    <2>1. 1 <= found + 1 /\ 1 \in Nat
        BY <1>3
    <2> HIDE DEF found
    <2> QED BY <1>1, <1>3, <2>1, BeginningOfBeginning
<1>6. /\ f \in Nat
      /\ f # 0 => f + 1 <= found /\ Upload!HeaderEndOf(body) = f
      /\ f = 0 => Upload!HeaderEndOf(body) = 0 \/ Upload!HeaderEndOf(body) + 1 > found
    <2> HIDE DEF found
    <2>1. found \in Nat /\ found <= Len(body)
        BY <1>2, <1>3
    <2> QED BY <1>1, <1>5, <2>1, GatherFinds
<1>7. Upload!HeaderEndOf(body) # 0 => Upload!HeaderEndOf(body) + 1 <= Len(body)
    <2>1. Len(body) <= Len(body)
        BY <1>2
    <2>2. SubSeq(body, 1, Len(body)) = body
        BY <1>1, SubSeqFull
    <2> QED BY <1>1, <1>2, <2>1, <2>2, GatherFinds DEF Upload!HeaderEndOf
<1>8. Len(Upload!HeaderEnd) = 2
    BY SymbolsTyped
<1>9. Upload!Gather(s)
    OBVIOUS
<1> HIDE DEF found
<1>10. CASE f = 0
    <2>1. CASE to < PART_HEADER_MAX /\ to < Len(body)
        <3>1. UNCHANGED <<headersDone, hold, imageEnded, written, verdict>>
            BY <1>4, <1>9, <1>10, <2>1 DEF Upload!Gather, found
        <3> QED BY <3>1, <2>1, <1>1, <1>2 DEF UploadInv, UploadType
    <2>2. CASE ~(to < PART_HEADER_MAX /\ to < Len(body))
        <3>1. verdict' = "headers not found" /\ UNCHANGED <<headersDone, hold, imageEnded, written>>
            BY <1>4, <1>9, <1>10, <2>2 DEF Upload!Gather, Upload!Fail, found
        <3>2. ~Upload!HasHeaders(body)
            <4> HIDE DEF f
            <4>1. found = PART_HEADER_MAX \/ found = Len(body)
                BY <1>2, <1>3, <2>2
            <4>2. Upload!HeaderEndOf(body) \in Nat
                BY <1>1, SymbolsTyped, FirstFound DEF Upload!HeaderEndOf
            <4>3. Upload!HeaderEndOf(body) = 0 \/ Upload!HeaderEndOf(body) + 1 > PART_HEADER_MAX
                BY <1>2, <1>6, <1>7, <1>10, <4>1, <4>2
            <4> QED BY <1>2, <1>8, <4>2, <4>3 DEF Upload!HasHeaders
        <3>3. ~Upload!WellFormed(body)
            BY <1>1, <3>2 DEF Upload!WellFormed
        <3> QED BY <3>1, <3>3, RefusedKeeps
    <2> QED BY <2>1, <2>2
<1>11. ASSUME f # 0 PROVE Upload!OpensWithBoundary(s, f) <=> Upload!HasHeaders(body)
    <2> HIDE DEF f
    <2>1. f - 1 >= Len(Boundary) <=> f > Len(Boundary)
        BY <1>2, <1>6
    <2>2. f > Len(Boundary) => Len(Boundary) <= to
        BY <1>2, <1>3, <1>6, <1>11
    <2>3. Upload!OccursAt(Boundary, s, 1) <=> Upload!OccursAt(Boundary, body, 1) /\ 1 + Len(Boundary) - 1 <= to
        <3>1. 1 \in Nat /\ 1 <= 1
            OBVIOUS
        <3> QED BY <1>1, <1>2, <3>1, OccursInBeginning
    <2>4. Upload!OccursAt(Boundary, body, 1) <=> Len(Boundary) <= Len(body) /\ SubSeq(body, 1, Len(Boundary)) = Boundary
        <3>1. 1 + Len(Boundary) - 1 = Len(Boundary)
            BY <1>2
        <3> QED BY <3>1 DEF Upload!OccursAt
    <2>5. f > Len(Boundary) => (Upload!OccursAt(Boundary, s, 1) <=> SubSeq(body, 1, Len(Boundary)) = Boundary)
        <3>1. f > Len(Boundary) => Len(Boundary) <= Len(body) /\ 1 + Len(Boundary) - 1 <= to
            BY <1>2, <2>2
        <3> QED BY <2>3, <2>4, <3>1
    <2>6. Upload!HeaderEndOf(body) = f /\ f + 2 - 1 <= PART_HEADER_MAX
        BY <1>2, <1>3, <1>6, <1>11
    <2> QED BY <1>8, <1>11, <2>1, <2>5, <2>6 DEF Upload!OpensWithBoundary, Upload!HasHeaders
<1>12. CASE f # 0 /\ ~Upload!OpensWithBoundary(s, f)
    <2>1. verdict' = "opening boundary not found" /\ UNCHANGED <<headersDone, hold, imageEnded, written>>
        BY <1>4, <1>9, <1>12 DEF Upload!Gather, Upload!Fail, found
    <2>2. ~Upload!WellFormed(body)
        BY <1>1, <1>11, <1>12 DEF Upload!WellFormed
    <2> QED BY <2>1, <2>2, RefusedKeeps
<1>13. CASE f # 0 /\ Upload!OpensWithBoundary(s, f)
    <2>1. headersDone' = TRUE /\ Upload!Feed(SubSeq(s, f + 2, Len(s)))
        BY <1>4, <1>8, <1>9, <1>13 DEF Upload!Gather, found
    <2>2. HeadersThere /\ First = f + 2
        BY <1>1, <1>6, <1>8, <1>11, <1>13 DEF HeadersThere, First, Upload!ImageStart
    <2>3. Wrote(written) /\ Held(written, hold, First - 1)
        BY <1>1, <2>2, NothingWritten
    <2> HIDE DEF f
    <2>4. /\ First - 1 \in Nat /\ First - 1 <= to /\ (First - 1) + 1 = First
          /\ First \in Nat /\ 1 <= First /\ First <= to + 1 /\ to <= to
        BY <1>3, <1>6, <1>13, <2>2
    <2>5. SubSeq(SubSeq(body, 1, to), First, to) = SubSeq(body, First, to)
        BY <1>1, <2>4, BeginningOfBeginning
    <2>6. Upload!Feed(SubSeq(body, (First - 1) + 1, to))
        BY <1>4, <2>1, <2>2, <2>4, <2>5
    <2>7. Len(written) > 0 => First - 1 < to
        BY <1>1, EmptySeq
    <2>8. /\ Wrote(written') /\ hold' \in Seq(Symbols) /\ imageEnded' \in BOOLEAN
          /\ \/ verdict' = "too large" /\ ~Upload!WellFormed(body)
             \/ verdict' = "receiving" /\ ~imageEnded' /\ Held(written', hold', to)
             \/ verdict' = "receiving" /\ imageEnded' /\ Ended(written')
        BY <1>1, <2>2, <2>3, <2>4, <2>6, <2>7, Fed
    <2> QED BY <2>1, <2>2, <2>8, <1>1, <1>2, FedKeeps
<1> QED BY <1>6, <1>10, <1>12, <1>13

LEMMA ReceiveKeeps == ASSUME UploadInv, Upload!Receive PROVE UploadInv'
<1>1. PICK n \in 1..Upload!Room :
          /\ received + n <= Len(body) /\ received' = received + n
          /\ IF headersDone
             THEN Upload!Feed(SubSeq(body, received + 1, received + n)) /\ UNCHANGED headersDone
             ELSE Upload!Gather(SubSeq(body, 1, received + n))
    BY DEF Upload!Receive
<1>2. verdict = "receiving" /\ UNCHANGED <<body, isMultipart>>
    BY DEF Upload!Receive
<1>3. UploadType /\ received \in Nat
    <2>1. UploadType /\ body \in Seq(Symbols) /\ received \in 0..Len(body)
        BY DEF UploadInv, UploadType
    <2> QED BY <2>1, LenProperties
<1>4. n \in Nat /\ received < received + n /\ received + n \in Nat
    <2>1. Upload!Room \in Int
        BY <1>3, UploadAssumption DEF Upload!Room, Upload!SizesAssumption
    <2> QED BY <1>3, <2>1
<1> DEFINE to == received + n
<1>5. to \in Nat /\ received < to /\ to <= Len(body) /\ received' = to
    BY <1>1, <1>4
<1>6. CASE ~headersDone
    <2>1. Upload!Gather(SubSeq(body, 1, to))
        BY <1>1, <1>6
    <2> HIDE DEF to
    <2> QED BY <1>2, <1>5, <1>6, <2>1, GatherKeeps
<1>7. CASE headersDone
    <2>1. Upload!Feed(SubSeq(body, received + 1, to)) /\ headersDone' = headersDone /\ HeadersThere /\ Wrote(written)
        BY <1>1, <1>7 DEF UploadInv
    <2>2. headersDone' = TRUE
        BY <1>3, <1>7, <2>1 DEF UploadType
    <2> HIDE DEF to
    <2>3. CASE imageEnded
        <3>1. UNCHANGED <<hold, imageEnded, written, verdict>>
            BY <2>1, <2>3 DEF Upload!Feed
        <3>2. Wrote(written') /\ hold' \in Seq(Symbols) /\ imageEnded' \in BOOLEAN /\ imageEnded'
            BY <1>3, <2>1, <2>3, <3>1 DEF UploadType
        <3>3. verdict' = "receiving" /\ Ended(written')
            BY <1>2, <1>7, <2>3, <3>1 DEF UploadInv
        <3> QED BY <1>2, <1>3, <1>5, <2>1, <2>2, <3>2, <3>3, FedKeeps
    <2>4. CASE ~imageEnded
        <3>1. Held(written, hold, received)
            BY <1>2, <1>7, <2>4 DEF UploadInv
        <3>2. received <= to
            BY <1>3, <1>5
        <3>3. /\ Wrote(written') /\ hold' \in Seq(Symbols) /\ imageEnded' \in BOOLEAN
              /\ \/ verdict' = "too large" /\ ~Upload!WellFormed(body)
                 \/ verdict' = "receiving" /\ ~imageEnded' /\ Held(written', hold', to)
                 \/ verdict' = "receiving" /\ imageEnded' /\ Ended(written')
            BY <1>2, <1>3, <1>5, <2>1, <2>4, <3>1, <3>2, Fed
        <3> QED BY <1>2, <1>3, <1>5, <2>1, <2>2, <3>3, FedKeeps
    <2> QED BY <2>3, <2>4
<1> QED BY <1>6, <1>7

(* A transfer that breaks off, and any other step that writes nothing.     *)
LEMMA VerdictKeeps ==
    ASSUME UploadInv, UNCHANGED <<body, isMultipart, received, headersDone, hold, imageEnded, written>>,
           \/ verdict' = verdict
           \/ verdict' = "interrupted"
           \/ /\ verdict' \notin {"receiving", "interrupted"}
              /\ verdict' = "ok" <=> Upload!WellFormed(body)
              /\ verdict' = "ok" => written = Upload!Image(body)
    PROVE  UploadInv'
<1>1. UploadType'
    BY DEF UploadInv, UploadType
<1>2. /\ HeadersThere' = HeadersThere /\ Upload!WellFormed(body)' = Upload!WellFormed(body)
      /\ Upload!Image(body)' = Upload!Image(body)
      /\ Wrote(written)' = Wrote(written) /\ Ended(written)' = Ended(written)
      /\ Held(written, hold, received)' = Held(written, hold, received)
    BY SameImage
<1>3. (headersDone => HeadersThere /\ Wrote(written))'
    BY <1>2 DEF UploadInv
<1>4. (~headersDone => isMultipart /\ written = <<>> /\ hold = <<>> /\ ~imageEnded)'
    BY DEF UploadInv
<1>5. verdict' = "receiving" =>
          IF ~headersDone' THEN received' < Len(body')
          ELSE IF imageEnded' THEN Ended(written)' ELSE Held(written, hold, received)'
    BY <1>2 DEF UploadInv
<1>6. verdict' \notin {"receiving", "interrupted"} =>
          /\ verdict' = "ok" <=> Upload!WellFormed(body)'
          /\ verdict' = "ok" => written' = Upload!Image(body)'
    BY <1>2 DEF UploadInv
<1> QED BY <1>1, <1>3, <1>4, <1>5, <1>6 DEF UploadInv

LEMMA FinishKeeps == ASSUME UploadInv, Upload!Finish PROVE UploadInv'
<1>1. /\ verdict = "receiving" /\ received = Len(body)
      /\ verdict' = IF isMultipart /\ ~imageEnded THEN "closing boundary not found"
                    ELSE IF written = <<>> THEN "no image data" ELSE "ok"
      /\ UNCHANGED <<body, isMultipart, received, headersDone, hold, imageEnded, written>>
    BY DEF Upload!Finish
<1>2. UploadType /\ headersDone /\ HeadersThere /\ Wrote(written) /\ Len(body) \in Nat
    <2>1. UploadType /\ body \in Seq(Symbols)
        BY DEF UploadInv, UploadType
    <2>2. Len(body) \in Nat
        BY <2>1, LenProperties
    <2>3. headersDone
        <3>1. ~(received < Len(body))
            <4>1. ~(Len(body) < Len(body))
                BY <2>2
            <4> QED BY <1>1, <4>1, Zenon
        <3> QED BY <1>1, <3>1 DEF UploadInv
    <2> QED BY <2>1, <2>2, <2>3 DEF UploadInv
<1>3. /\ Upload!Image(body) = SubSeq(body, First, End) /\ Len(Upload!Image(body)) = End - First + 1
      /\ First \in Nat /\ End \in Nat /\ Len(written) \in Nat
    BY <1>2, ImageBounds, LenProperties DEF Wrote
<1>4. CASE isMultipart /\ ~imageEnded
    <2>1. Held(written, hold, received)
        BY <1>1, <1>2, <1>4 DEF UploadInv
    <2>2. Upload!ClosedAt(body) = {}
        <3> SUFFICES ASSUME Upload!ClosedAt(body) # {} PROVE FALSE
            OBVIOUS
        <3>1. Closes(End + 1) /\ First <= End + 1 /\ End + 1 \in Nat
            BY <1>2, <1>3, <1>4, ImageBounds
        <3>2. End + 1 + Upload!delimLen - 1 <= Len(body)
            BY <3>1, <1>4 DEF Closes, Upload!OccursAt, Upload!delimLen
        <3> QED BY <1>1, <1>4, <2>1, <3>1, <3>2 DEF Held
    <2>3. ~Upload!WellFormed(body)
        BY <1>4, <2>2 DEF Upload!WellFormed
    <2>4. verdict' = "closing boundary not found"
        BY <1>1, <1>4
    <2> QED BY <1>1, <2>3, <2>4, VerdictKeeps
<1>5. CASE ~(isMultipart /\ ~imageEnded)
    <2>1. First - 1 + Len(written) = End /\ (isMultipart => Upload!ClosedAt(body) # {})
        <3>1. CASE isMultipart
            BY <1>1, <1>2, <1>5, <3>1 DEF UploadInv, Ended
        <3>2. CASE ~isMultipart
            <4>1. ~imageEnded
                BY <1>1, <1>2, <3>2 DEF UploadInv, Ended
            <4>2. Held(written, hold, received)
                BY <1>1, <1>2, <4>1 DEF UploadInv
            <4>3. Len(hold) = 0
                BY <3>2, <4>2, SymbolsTyped, LenProperties, <1>2 DEF Held, UploadType
            <4>4. First = 1 /\ End = Len(body)
                BY <1>2, <3>2, ImageBounds
            <4>5. Len(hold) = Len(body) - (First + Len(written)) + 1
                <5>1. /\ First + Len(written) \in Nat /\ 1 <= First + Len(written)
                      /\ First + Len(written) <= Len(body) + 1 /\ Len(body) <= Len(body)
                    <6>1. First - 1 + Len(written) <= Len(body)
                        BY <1>1, <4>2 DEF Held
                    <6> QED BY <1>2, <1>3, <4>4, <6>1
                <5>2. hold = SubSeq(body, First + Len(written), Len(body)) /\ body \in Seq(Symbols)
                    BY <1>1, <1>2, <4>2 DEF Held, UploadType
                <5> QED BY <1>2, <5>1, <5>2, PartOf
            <4> QED BY <3>2, <4>3, <4>4, <4>5, <1>2, <1>3
        <3> QED BY <1>2, <3>1, <3>2 DEF UploadType
    <2>2. written = Upload!Image(body)
        <3>1. First + Len(written) - 1 = End
            BY <1>3, <2>1
        <3> QED BY <1>2, <1>3, <3>1 DEF Wrote
    <2>3. Upload!WellFormed(body) <=> Len(written) \in 1..PartitionSize
        BY <1>2, <2>1, <2>2 DEF Upload!WellFormed, HeadersThere
    <2>4. Len(written) \in 1..PartitionSize <=> written # <<>>
        <3>1. Len(written) <= PartitionSize /\ PartitionSize \in Nat /\ written \in Seq(Symbols)
            BY <1>2, UploadAssumption DEF Wrote, Upload!SizesAssumption
        <3>2. written # <<>> <=> Len(written) # 0
            BY <3>1, EmptySeq
        <3> QED BY <1>3, <3>1, <3>2
    <2>5. verdict' = IF written = <<>> THEN "no image data" ELSE "ok"
        BY <1>1, <1>5
    <2> QED BY <1>1, <2>2, <2>3, <2>4, <2>5, VerdictKeeps
<1> QED BY <1>4, <1>5

LEMMA UploadNext == ASSUME UploadInv, Upload!Next PROVE UploadInv'
<1>1. CASE Upload!Interrupted
    BY <1>1, VerdictKeeps DEF Upload!Interrupted, Upload!Fail
<1> QED BY <1>1, ReceiveKeeps, FinishKeeps DEF Upload!Next

LEMMA UploadSafe == ASSUME UploadInv PROVE WrittenIsImage
<1>1. ASSUME written # <<>>
      PROVE  /\ isMultipart => Upload!HasHeaders(body)
             /\ Len(written) <= Len(Upload!Image(body))
             /\ written = SubSeq(Upload!Image(body), 1, Len(written))
    <2>1. UploadType /\ HeadersThere /\ Wrote(written)
        BY <1>1 DEF UploadInv, UploadType
    <2>2. /\ Upload!Image(body) = SubSeq(body, First, End) /\ Len(Upload!Image(body)) = End - First + 1
          /\ First \in Nat /\ 1 <= First /\ First <= End + 1 /\ End \in Nat /\ End <= Len(body) /\ Len(written) \in Nat
        BY <2>1, ImageBounds, LenProperties DEF Wrote
    <2>3. Len(written) <= End - First + 1
        BY <2>1, <2>2 DEF Wrote
    <2>4. SubSeq(SubSeq(body, First, End), 1, Len(written)) = SubSeq(body, First, First + Len(written) - 1)
        <3>1. ASSUME NEW i \in Nat, i = 1
              PROVE  SubSeq(SubSeq(body, First, End), i, Len(written)) = SubSeq(body, First, First + Len(written) - 1)
            <4>1. 1 <= i /\ i <= Len(written) + 1 /\ First + i - 1 = First /\ body \in Seq(Symbols)
                BY <2>1, <2>2, <3>1 DEF UploadType
            <4>2. SubSeq(SubSeq(body, First, End), i, Len(written)) = SubSeq(body, First + i - 1, First + Len(written) - 1)
                BY <2>2, <2>3, <4>1, PartOfPart
            <4> QED BY <4>1, <4>2
        <3> QED BY <3>1
    <2> QED BY <2>1, <2>2, <2>3, <2>4 DEF Wrote, HeadersThere
<1> QED BY <1>1 DEF UploadInv, WrittenIsImage, Upload!WrittenIsImage

(* However an upload falls into reads and wherever it breaks off: what     *)
(* handleOTAUpload() wrote is a beginning of the image, all of it where it *)
(* answers with success, and it does so exactly for a body that is well    *)
(* formed and fits, for every body, boundary, read size and partition.     *)
THEOREM ImageIsWritten == Spec => []WrittenIsImage
<1>1. Init => UploadInv
  BY UploadInit DEF Init
<1>2. UploadInv /\ [Next]_vars => UploadInv'
  <2> SUFFICES ASSUME UploadInv, [Next]_vars PROVE UploadInv'
    OBVIOUS
  <2>1. CASE UploadRuns
    BY <2>1, UploadNext DEF UploadRuns
  <2>2. CASE UNCHANGED uploadVars
    BY <2>2, VerdictKeeps DEF uploadVars
  <2> QED BY <2>1, <2>2, OnePartRuns
<1>3. UploadInv => WrittenIsImage
  BY UploadSafe
<1> QED BY <1>1, <1>2, <1>3, PTL DEF Spec

-----------------------------------------------------------------------------
(* The page a request comes from. *)

IsFirst(s, c, from, f) == f \in from..Len(s) /\ s[f] = c /\ \A j \in from..(f - 1) : s[j] # c

(* Find finds the first one, or the end. *)
LEMMA FoundFirst ==
    ASSUME NEW S, NEW s \in Seq(S), NEW c, NEW from \in Nat
    PROVE  /\ (\E i \in from..Len(s) : s[i] = c) => IsFirst(s, c, from, Codec!Find(s, c, from))
           /\ ~(\E i \in from..Len(s) : s[i] = c) => Codec!Find(s, c, from) = Len(s) + 1
<1>1. ASSUME \E i \in from..Len(s) : s[i] = c
      PROVE  \E i \in from..Len(s) : s[i] = c /\ \A j \in from..(i - 1) : s[j] # c
    <2> DEFINE T == {i \in from..Len(s) : s[i] = c}
    <2>1. Len(s) \in Nat
        BY LenProperties
    <2>2. T \in SUBSET Nat /\ T # {}
        BY <1>1, <2>1
    <2>3. PICK i \in T : \A j \in T : i <= j
        BY <2>2, LeastNatural
    <2>4. ASSUME NEW j \in from..(i - 1) PROVE s[j] # c
        <3>1. i \in from..Len(s) /\ j \in from..Len(s) /\ ~(i <= j)
            BY <2>1, <2>3
        <3> QED BY <2>3, <3>1
    <2> QED BY <2>3, <2>4
<1>2. ASSUME \E i \in from..Len(s) : s[i] = c
      PROVE  IsFirst(s, c, from, Codec!Find(s, c, from))
    <2>1. Codec!Find(s, c, from) = CHOOSE i \in from..Len(s) : s[i] = c /\ \A j \in from..(i - 1) : s[j] # c
        BY <1>2 DEF Codec!Find
    <2> QED BY <1>1, <1>2, <2>1 DEF IsFirst
<1>3. ~(\E i \in from..Len(s) : s[i] = c) => Codec!Find(s, c, from) = Len(s) + 1
    BY DEF Codec!Find
<1> QED BY <1>2, <1>3

LEMMA FirstIsOne ==
    ASSUME NEW S, NEW s \in Seq(S), NEW c, NEW from \in Nat, NEW f, NEW g,
           IsFirst(s, c, from, f), IsFirst(s, c, from, g)
    PROVE  f = g
<1>1. Len(s) \in Nat
    BY LenProperties
<1>2. f \in Nat /\ g \in Nat /\ from <= f /\ from <= g /\ s[f] = c /\ s[g] = c
    BY <1>1 DEF IsFirst
<1>3. ~(f < g)
    BY <1>2 DEF IsFirst
<1>4. ~(g < f)
    BY <1>2 DEF IsFirst
<1> QED BY <1>2, <1>3, <1>4

(* What is found in front of a cut is found in the whole. *)
LEMMA FoundBeforeCut ==
    ASSUME NEW S, NEW s \in Seq(S), NEW c, NEW from \in Nat, 1 <= from, NEW n \in Nat, n <= Len(s),
           Codec!Find(SubSeq(s, 1, n), c, from) <= n
    PROVE  /\ Codec!Find(s, c, from) = Codec!Find(SubSeq(s, 1, n), c, from)
           /\ Codec!Find(s, c, from) \in from..n /\ s[Codec!Find(s, c, from)] = c
<1> DEFINE t == SubSeq(s, 1, n)
           f == Codec!Find(t, c, from)
<1>1. t \in Seq(S) /\ Len(t) = n /\ \A i \in 1..n : t[i] = s[i]
    <2>1. \A i \in 1..n : s[i] \in S
        BY ElementOfSeq, LenProperties
    <2>2. t \in Seq(S) /\ (Len(t) = IF 1 <= n THEN n - 1 + 1 ELSE 0) /\ \A i \in 1..(n - 1 + 1) : t[i] = s[1 + i - 1]
        BY <2>1, SubSeqProperties
    <2> QED BY <2>2
<1>2. Len(s) \in Nat
    BY LenProperties
<1> HIDE DEF t
<1>3. IsFirst(t, c, from, f)
    <2>1. f <= n
        BY DEF t
    <2>2. ~(f = Len(t) + 1)
        <3> HIDE DEF f
        <3> QED BY <1>1, <2>1
    <2> QED BY <1>1, <2>2, FoundFirst
<1> HIDE DEF f
<1>4. IsFirst(s, c, from, f)
    <2>1. f \in from..n /\ t[f] = c /\ \A j \in from..(f - 1) : t[j] # c
        BY <1>1, <1>3 DEF IsFirst
    <2>2. f \in 1..n /\ f \in from..Len(s) /\ \A j \in from..(f - 1) : j \in 1..n
        BY <1>2, <2>1
    <2> QED BY <1>1, <2>1, <2>2 DEF IsFirst
<1>5. IsFirst(s, c, from, Codec!Find(s, c, from))
    <2>1. \E i \in from..Len(s) : s[i] = c
        BY <1>4 DEF IsFirst
    <2> QED BY <2>1, FoundFirst
<1>6. Codec!Find(s, c, from) = f
    BY <1>4, <1>5, FirstIsOne
<1>7. f \in from..n /\ s[f] = c
    <2>1. f \in from..n /\ t[f] = c
        BY <1>1, <1>3 DEF IsFirst
    <2>2. f \in 1..n
        BY <2>1
    <2> QED BY <1>1, <2>1, <2>2
<1> QED BY <1>6, <1>7 DEF f, t

(* Where the end of an authority lies in the buffer, the buffer holds the  *)
(* whole of it.                                                            *)
LEMMA SeenIsWhole ==
    ASSUME Codec!BoundsAssumption, NEW S, NEW s \in Seq(S), Codec!EndSeen(s), NEW host,
           Codec!IsHost(Codec!Seen(s), host)
    PROVE  Codec!IsHost(s, host)
<1> DEFINE n == SOURCE_SIZE
           t == SubSeq(s, 1, n)
           b == Codec!AuthorityStart(t)
           e == Codec!AuthorityEnd(t)
<1>1. Len(s) \in Nat /\ n \in Nat
    BY LenProperties DEF Codec!BoundsAssumption
<1>2. CASE Len(s) <= n
    <2>1. Codec!Seen(s) = SubSeq(s, 1, Len(s))
        BY <1>1, <1>2 DEF Codec!Seen
    <2>2. SubSeq(s, 1, Len(s)) = s
        BY SubSeqFull
    <2> QED BY <2>1, <2>2
<1>3. CASE ~(Len(s) <= n)
    <2>1. Codec!Seen(s) = t
        BY <1>1, <1>3 DEF Codec!Seen
    <2>2. e <= n /\ Codec!HasAuthority(t)
          /\ Codec!Folded(SubSeq(t, b, e - 1)) = Codec!Folded(host)
        BY <1>3, <2>1 DEF Codec!EndSeen, Codec!IsHost
    <2>3. t \in Seq(S) /\ Len(t) = n /\ \A i \in 1..n : t[i] = s[i]
        <3>1. \A i \in 1..n : s[i] \in S
            BY <1>1, <1>3, ElementOfSeq
        <3>2. t \in Seq(S) /\ (Len(t) = IF 1 <= n THEN n - 1 + 1 ELSE 0)
              /\ \A i \in 1..(n - 1 + 1) : t[i] = s[1 + i - 1]
            BY <1>1, <3>1, SubSeqProperties
        <3> QED BY <1>1, <3>2
    <2>4. Codec!Find(t, "://", 1) \in 1..n
        <3>1. \E i \in 1..Len(t) : t[i] = "://"
            BY <2>2, <2>3, LenProperties DEF Codec!HasAuthority
        <3>2. IsFirst(t, "://", 1, Codec!Find(t, "://", 1))
            BY <2>3, <3>1, FoundFirst
        <3> QED BY <2>3, <3>2 DEF IsFirst
    <2>5. /\ Codec!Find(s, "://", 1) = Codec!Find(t, "://", 1)
          /\ s[Codec!Find(s, "://", 1)] = "://"
        BY <1>1, <1>3, <2>4, FoundBeforeCut
    <2>6. Codec!AuthorityStart(s) = b /\ b \in Nat /\ 1 <= b
        BY <2>4, <2>5 DEF Codec!AuthorityStart
    <2>7. Codec!HasAuthority(s)
        BY <1>1, <1>3, <2>4, <2>5, LenProperties DEF Codec!HasAuthority
    <2>8. Codec!AuthorityEnd(s) = e /\ e \in b..n
        <3>1. Codec!Find(t, "/", b) <= n
            BY <2>2 DEF Codec!AuthorityEnd
        <3> HIDE DEF b
        <3>2. Codec!Find(s, "/", b) = Codec!Find(t, "/", b) /\ Codec!Find(s, "/", b) \in b..n
            BY <1>1, <1>3, <2>6, <3>1, FoundBeforeCut
        <3> QED BY <2>6, <3>2 DEF Codec!AuthorityEnd, b
    <2>9. SubSeq(t, b, e - 1) = SubSeq(s, b, e - 1)
        <3> HIDE DEF t, b, e
        <3>1. \A i \in b..(e - 1) : i \in 1..n /\ i \in 1..Len(s) /\ t[i] = s[i]
            BY <1>1, <1>3, <2>3, <2>6, <2>8
        <3>2. \A i \in b..(e - 1) : s[i] \in S /\ t[i] \in S
            BY <3>1, ElementOfSeq
        <3> QED BY <2>6, <2>8, <3>1, <3>2, SubSeqProperties, SeqEqual
    <2> HIDE DEF t, b, e
    <2> QED BY <2>2, <2>6, <2>7, <2>8, <2>9 DEF Codec!IsHost
<1> QED BY <1>1, <1>2, <1>3

(* What an address is written with here. *)
Characters == {"absent", "null", "s", "://", "h", "H", "/"}

(* What the headers of a request are, and that they are texts.             *)
HeaderInv == text.for = "origin" => text.origin \in Seq(Characters) /\ text.referer \in Seq(Characters)

LEMMA SourcesAreTexts == Codec!Sources \subseteq Seq(Characters)
<1>1. Codec!Texts({"h", "H"}) \subseteq Seq(Characters)
    <2> SUFFICES ASSUME NEW x \in Codec!Texts({"h", "H"}) PROVE x \in Seq(Characters)
        OBVIOUS
    <2>1. PICK m \in 0..MaxText : x \in [1..m -> {"h", "H"}]
        BY DEF Codec!Texts
    <2>2. {"h", "H"} \subseteq Characters
        BY DEF Characters
    <2>3. MaxText \in Nat /\ m \in Nat
        BY TextAssumption DEF Codec!BoundsAssumption
    <2>4. x \in [1..m -> Characters]
        BY <2>1, <2>2
    <2>5. x \in UNION {[1..i -> Characters] : i \in Nat}
        BY <2>3, <2>4
    <2> QED BY <2>3, <2>4
<1>2. /\ Codec!Absent \in Seq(Characters) /\ <<"null">> \in Seq(Characters) /\ <<"://">> \in Seq(Characters)
      /\ <<"s">> \in Seq(Characters) /\ <<"s", "s", "s">> \in Seq(Characters) /\ <<"h", "h", "h">> \in Seq(Characters)
      /\ << >> \in Seq(Characters) /\ <<"/">> \in Seq(Characters) /\ <<"/", "h">> \in Seq(Characters)
    BY DEF Codec!Absent, Characters
<1>3. ASSUME NEW a \in Seq(Characters), NEW b \in Seq(Characters), NEW c \in Seq(Characters), NEW d \in Seq(Characters)
      PROVE  a \o b \o c \o d \in Seq(Characters)
    BY <1>3, ConcatProperties
<1>4. ASSUME NEW scheme \in {<<"s">>, <<"s", "s", "s">>},
             NEW authority \in Codec!Texts({"h", "H"}) \cup {<<"h", "h", "h">>},
             NEW path \in {<< >>, <<"/">>, <<"/", "h">>}
      PROVE  scheme \o <<"://">> \o authority \o path \in Seq(Characters)
    <2>1. scheme \in Seq(Characters) /\ authority \in Seq(Characters) /\ path \in Seq(Characters)
        BY <1>1, <1>2
    <2> QED BY <1>2, <1>3, <2>1
<1> SUFFICES ASSUME NEW x \in Codec!Sources PROVE x \in Seq(Characters)
    OBVIOUS
<1>5. CASE x \in {Codec!Absent, <<"null">>}
    BY <1>2, <1>5
<1>6. CASE \E address \in {<<"s">>, <<"s", "s", "s">>} \X (Codec!Texts({"h", "H"}) \cup {<<"h", "h", "h">>})
                             \X {<< >>, <<"/">>, <<"/", "h">>} :
                 x = address[1] \o <<"://">> \o address[2] \o address[3]
    BY <1>4, <1>6
<1> QED BY <1>5, <1>6 DEF Codec!Sources

LEMMA HeaderInit == Init => HeaderInv
<1> SUFFICES ASSUME Init, text.for = "origin" PROVE text.origin \in Seq(Characters) /\ text.referer \in Seq(Characters)
    BY DEF HeaderInv
<1>1. Codec!Init
    BY DEF Init
<1>2. PICK origin \in Codec!Sources, referer \in Codec!Sources,
           host \in Codec!Texts({"h", "H"}) \cup {Codec!Absent} :
              text = [for |-> "origin", origin |-> origin, referer |-> referer, host |-> host]
    BY <1>1 DEF Codec!Init
<1> QED BY <1>2, SourcesAreTexts

(* A source that the buffer holds is judged as it is, and of one it cuts   *)
(* the authority is there in full or the request is refused.               *)
LEMMA HeadersJudged == HeaderInv => Codec!SourceJudgedWhole
<1> SUFFICES ASSUME HeaderInv, text.for = "origin", Len(text.host) <= HOST_SIZE
             PROVE  /\ Codec!isSameOrigin(text) => Codec!Source(text) = Codec!Absent
                        \/ (text.host # Codec!Absent /\ Codec!IsHost(Codec!Source(text), text.host))
                    /\ Codec!Source(text) = Codec!Absent => Codec!isSameOrigin(text)
                    /\ Len(Codec!Source(text)) <= SOURCE_SIZE /\ text.host # Codec!Absent
                       /\ Codec!IsHost(Codec!Source(text), text.host) => Codec!isSameOrigin(text)
    BY DEF Codec!SourceJudgedWhole
<1> DEFINE s == Codec!Source(text)
<1>1. s \in Seq(Characters)
    BY DEF HeaderInv, Codec!Source
<1> HIDE DEF s
<1>2. Codec!isSameOrigin(text) <=> \/ s = Codec!Absent
                                  \/ /\ text.host # Codec!Absent /\ Len(text.host) <= HOST_SIZE
                                     /\ Codec!EndSeen(s) /\ Codec!IsHost(Codec!Seen(s), text.host)
    BY DEF s, Codec!isSameOrigin
<1>3. ASSUME Codec!EndSeen(s), Codec!IsHost(Codec!Seen(s), text.host)
      PROVE  Codec!IsHost(s, text.host)
    BY <1>1, <1>3, TextAssumption, SeenIsWhole
<1>4. ASSUME Len(s) <= SOURCE_SIZE PROVE Codec!EndSeen(s) /\ Codec!Seen(s) = s
    <2>1. Codec!EndSeen(s)
        BY <1>4 DEF Codec!EndSeen
    <2>2. Len(s) \in Nat /\ SOURCE_SIZE \in Nat
        BY <1>1, TextAssumption, LenProperties DEF Codec!BoundsAssumption
    <2>3. Codec!Seen(s) = SubSeq(s, 1, Len(s))
        BY <1>4, <2>2 DEF Codec!Seen
    <2> QED BY <1>1, <2>1, <2>3, SubSeqFull
<1>5. Codec!isSameOrigin(text) => s = Codec!Absent \/ (text.host # Codec!Absent /\ Codec!IsHost(s, text.host))
    BY <1>2, <1>3
<1>6. Len(s) <= SOURCE_SIZE /\ text.host # Codec!Absent /\ Codec!IsHost(s, text.host) => Codec!isSameOrigin(text)
    BY <1>2, <1>4
<1> QED BY <1>2, <1>5, <1>6 DEF s

(* A request counts as the device's own only when its whole source names   *)
(* the host it was sent to, wherever the buffer cut it (isSameOrigin).     *)
THEOREM SourcesAreJudged == Spec => []Codec!SourceJudgedWhole
<1>1. Init => HeaderInv
    BY HeaderInit
<1>2. HeaderInv /\ [Next]_vars => HeaderInv'
    BY DEF HeaderInv, Next, UploadRuns, BodyRuns, QueryRuns, BrowserRuns, vars
<1>3. HeaderInv => Codec!SourceJudgedWhole
    BY HeadersJudged
<1> QED BY <1>1, <1>2, <1>3, PTL DEF Spec

-----------------------------------------------------------------------------
(* Walks through a text, and texts behind each other. *)

(* Where a walk may go from every place of a text. *)
Goes(in, next) == \A i \in 1..Len(in) : next[i] \in (i + 1)..(Len(in) + 6)

(* A walk is what its recursion says. *)
LEMMA WalkStep ==
    ASSUME NEW S, NEW in \in Seq(S), NEW reads, NEW next, Goes(in, next),
           NEW i \in 1..(Len(in) + 6)
    PROVE  Codec!Walk(in, reads, next)[i] =
              IF i > Len(in) THEN <<>> ELSE reads[i] \o Codec!Walk(in, reads, next)[next[i]]
<1> DEFINE n == Len(in)
           m == n + 6
           Place(f, j) == IF j > n THEN <<>> ELSE reads[j] \o f[next[j]]
           Def(f, k) == f = [j \in k..m |-> Place(f, j)]
           walk == CHOOSE f : Def(f, 1)
           T == {d \in 0..m : ~ \E f : Def(f, m + 1 - d)}
<1>1. n \in Nat
    BY LenProperties
<1>2. \A j \in 1..n : next[j] \in (j + 1)..m
    BY DEF Goes
<1>3. ASSUME NEW d \in 1..m, NEW f, Def(f, m + 2 - d)
      PROVE  \E g : Def(g, m + 1 - d)
    <2> DEFINE k == m + 1 - d
               g == [j \in k..m |-> Place(f, j)]
    <2>1. k \in 1..m /\ m + 2 - d = k + 1
        BY <1>1
    <2>2. ASSUME NEW j \in k..m, j <= n PROVE g[next[j]] = f[next[j]]
        <3>1. next[j] \in (k + 1)..m
            BY <1>1, <1>2, <2>1, <2>2
        <3>2. f[next[j]] = Place(f, next[j])
            BY <1>3, <2>1, <3>1
        <3> QED BY <2>1, <3>1, <3>2
    <2>3. ASSUME NEW j \in k..m PROVE Place(g, j) = Place(f, j)
        <3>1. CASE j > n
            BY <3>1
        <3>2. CASE ~(j > n)
            <4>1. j <= n
                BY <1>1, <2>1, <3>2
            <4> HIDE DEF g
            <4> QED BY <2>2, <3>2, <4>1
        <3> QED BY <3>1, <3>2
    <2>4. Def(g, k)
        <3>1. g = [j \in k..m |-> Place(f, j)]
            OBVIOUS
        <3> HIDE DEF g, Place, k
        <3> QED BY <2>3, <3>1
    <2> QED BY <2>4
<1>4. T = {}
    <2> HIDE DEF Def
    <2> SUFFICES ASSUME T # {} PROVE FALSE
        OBVIOUS
    <2>1. T \in SUBSET Nat
        BY <1>1
    <2>2. PICK d \in T : \A y \in T : d <= y
        BY <2>1, LeastNatural
    <2>3. CASE d = 0
        <3>1. Def([j \in {} |-> <<>>], m + 1)
            <4>1. (m + 1)..m = {}
                BY <1>1
            <4> QED BY <4>1 DEF Def
        <3> QED BY <1>1, <2>2, <2>3, <3>1
    <2>4. CASE d # 0
        <3>1. d \in 1..m /\ d - 1 \in 0..m /\ m + 1 - (d - 1) = m + 2 - d
            BY <1>1, <2>2, <2>4
        <3>2. d - 1 \notin T
            BY <1>1, <2>2, <3>1
        <3>3. PICK f : Def(f, m + 2 - d)
            BY <3>1, <3>2
        <3> QED BY <1>3, <2>2, <3>1, <3>3
    <2> QED BY <2>3, <2>4
<1>5. Def(walk, 1)
    <2>1. m \in 0..m /\ m + 1 - m = 1
        BY <1>1
    <2>2. \E f : Def(f, 1)
        <3> HIDE DEF Def
        <3> QED BY <1>4, <2>1
    <2> HIDE DEF Def
    <2> QED BY <2>2
<1>6. Codec!Walk(in, reads, next) = walk
    BY DEF Codec!Walk
<1> HIDE DEF walk
<1>7. walk[i] = Place(walk, i)
    BY <1>5
<1> QED BY <1>6, <1>7

(* Where each of the sequences ss lies in w, which they make up.           *)
Lies(ss, n, off, w) ==
    /\ off \in [1..(n + 1) -> Nat] /\ off[1] = 0 /\ off[n + 1] = Len(w)
    /\ \A k \in 1..n : off[k + 1] = off[k] + Len(ss[k])
    /\ \A k \in 1..n : off[k + 1] <= Len(w)
    /\ \A k \in 1..n : \A j \in 1..Len(ss[k]) : w[off[k] + j] = ss[k][j]

(* FlattenSeq puts its texts behind each other, one at a time.             *)
LEMMA FlattenStep ==
    ASSUME NEW S, NEW ss \in Seq(Seq(S)), Len(ss) # 0
    PROVE  \E f : /\ Codec!FlattenSeq(ss) = f[Len(ss)]
                  /\ f = [i \in 1..Len(ss) |-> IF i = 1 THEN ss[i] ELSE f[i - 1] \o ss[i]]
<1> DEFINE n == Len(ss)
           Place(f, j) == IF j = 1 THEN ss[j] ELSE f[j - 1] \o ss[j]
           Def(f, k) == f = [j \in 1..k |-> Place(f, j)]
           flatten == CHOOSE f : Def(f, n)
           T == {d \in 0..n : ~ \E f : Def(f, d)}
<1>1. n \in Nat
    BY LenProperties
<1>2. ASSUME NEW d \in 1..n, NEW f, Def(f, d - 1)
      PROVE  \E g : Def(g, d)
    <2> DEFINE g == [j \in 1..d |-> Place(f, j)]
    <2>1. ASSUME NEW j \in 1..(d - 1) PROVE g[j] = f[j]
        <3>1. f[j] = Place(f, j)
            BY <1>2
        <3> QED BY <1>2, <3>1
    <2>2. ASSUME NEW j \in 1..d PROVE Place(g, j) = Place(f, j)
        <3>1. CASE j = 1
            BY <3>1
        <3>2. CASE j # 1
            <4>1. j - 1 \in 1..(d - 1)
                BY <1>1, <3>2
            <4> HIDE DEF g
            <4> QED BY <2>1, <3>2, <4>1
        <3> QED BY <3>1, <3>2
    <2>3. g = [j \in 1..d |-> Place(f, j)]
        OBVIOUS
    <2>4. Def(g, d)
        <3> HIDE DEF g, Place
        <3> QED BY <2>2, <2>3
    <2> QED BY <2>4
<1>3. T = {}
    <2> HIDE DEF Def
    <2> SUFFICES ASSUME T # {} PROVE FALSE
        OBVIOUS
    <2>1. T \in SUBSET Nat
        BY <1>1
    <2>2. PICK d \in T : \A y \in T : d <= y
        BY <2>1, LeastNatural
    <2>3. CASE d = 0
        <3>1. Def([j \in {} |-> <<>>], 0)
            <4>1. 1..0 = {}
                OBVIOUS
            <4> QED BY <4>1 DEF Def
        <3> QED BY <2>2, <2>3, <3>1
    <2>4. CASE d # 0
        <3>1. d \in 1..n /\ d - 1 \in 0..n
            BY <1>1, <2>2, <2>4
        <3>2. d - 1 \notin T
            <4> HIDE DEF T
            <4> QED BY <1>1, <2>2, <3>1
        <3>3. PICK f : Def(f, d - 1)
            BY <3>1, <3>2
        <3> QED BY <1>2, <2>2, <3>1, <3>3
    <2> QED BY <2>3, <2>4
<1>4. Def(flatten, n)
    <2>1. \E f : Def(f, n)
        <3> HIDE DEF Def
        <3> QED BY <1>1, <1>3
    <2> HIDE DEF Def
    <2> QED BY <2>1
<1>5. Codec!FlattenSeq(ss) = flatten[n]
    BY DEF Codec!FlattenSeq
<1> HIDE DEF flatten
<1> QED BY <1>4, <1>5

(* The sequences lie one behind the other.                                 *)
LEMMA FlattenLies ==
    ASSUME NEW S, NEW ss \in Seq(Seq(S))
    PROVE  /\ Codec!FlattenSeq(ss) \in Seq(S)
           /\ \E off : Lies(ss, Len(ss), off, Codec!FlattenSeq(ss))
<1> DEFINE n == Len(ss)
<1>1. n \in Nat /\ \A k \in 1..n : ss[k] \in Seq(S) /\ Len(ss[k]) \in Nat
    <2>1. \A k \in 1..n : ss[k] \in Seq(S)
        BY ElementOfSeq
    <2> QED BY <2>1, LenProperties
<1>2. CASE n = 0
    <2>1. ss = <<>>
        BY <1>2, EmptySeq
    <2>2. Codec!FlattenSeq(ss) = <<>>
        BY <1>2, <2>1 DEF Codec!FlattenSeq
    <2>3. Lies(ss, 0, [k \in 1..1 |-> 0], <<>>)
        BY DEF Lies
    <2> QED BY <1>2, <2>2, <2>3
<1>3. CASE n # 0
    <2>1. PICK f : /\ Codec!FlattenSeq(ss) = f[n]
                   /\ f = [i \in 1..n |-> IF i = 1 THEN ss[i] ELSE f[i - 1] \o ss[i]]
        BY <1>3, FlattenStep
    <2> DEFINE Good(d) == f[d] \in Seq(S) /\ \E off : Lies(ss, d, off, f[d])
               T == {d \in 1..n : ~Good(d)}
    <2>2. Good(1)
        <3>1. f[1] = ss[1] /\ ss[1] \in Seq(S) /\ Len(ss[1]) \in Nat
            BY <1>1, <1>3, <2>1
        <3> DEFINE off == [k \in 1..2 |-> IF k = 1 THEN 0 ELSE Len(ss[1])]
        <3>2. off \in [1..(1 + 1) -> Nat] /\ off[1] = 0 /\ off[1 + 1] = Len(ss[1]) /\ \A k \in 1..1 : k = 1
            BY <3>1
        <3> HIDE DEF off
        <3>3. Lies(ss, 1, off, f[1])
            BY <3>1, <3>2 DEF Lies
        <3> QED BY <3>1, <3>3
    <2>3. ASSUME NEW d \in 2..n, Good(d - 1) PROVE Good(d)
        <3> DEFINE v == f[d - 1]
        <3>1. PICK off : Lies(ss, d - 1, off, v)
            BY <2>3
        <3>2. f[d] = v \o ss[d] /\ v \in Seq(S) /\ ss[d] \in Seq(S) /\ Len(v) \in Nat /\ Len(ss[d]) \in Nat
            <4>1. d \in 1..n /\ d # 1
                BY <1>1
            <4>2. f[d] = v \o ss[d]
                BY <2>1, <4>1
            <4>3. v \in Seq(S)
                BY <2>3
            <4> QED BY <1>1, <4>1, <4>2, <4>3, LenProperties
        <3> HIDE DEF v
        <3> DEFINE w == v \o ss[d]
        <3>3. /\ w \in Seq(S) /\ Len(w) = Len(v) + Len(ss[d])
              /\ \A i \in 1..(Len(v) + Len(ss[d])) : w[i] = IF i <= Len(v) THEN v[i] ELSE ss[d][i - Len(v)]
            BY <3>2, ConcatProperties
        <3> HIDE DEF w
        <3> DEFINE to == [k \in 1..(d + 1) |-> IF k <= d THEN off[k] ELSE Len(v) + Len(ss[d])]
        <3>4. d \in Nat /\ d >= 2 /\ d - 1 + 1 = d /\ off \in [1..d -> Nat] /\ off[1] = 0 /\ off[d] = Len(v)
            BY <2>3, <3>1 DEF Lies
        <3>5. to \in [1..(d + 1) -> Nat] /\ to[1] = 0 /\ to[d + 1] = Len(w) /\ to[d] = Len(v)
              /\ \A k \in 1..d : to[k] = off[k]
            BY <3>2, <3>3, <3>4
        <3> HIDE DEF to
        <3>6. ASSUME NEW k \in 1..d
              PROVE  /\ to[k + 1] = to[k] + Len(ss[k]) /\ to[k + 1] <= Len(w)
                     /\ \A j \in 1..Len(ss[k]) : w[to[k] + j] = ss[k][j]
            <4>1. CASE k = d
                <5>1. to[k] = Len(v) /\ to[k + 1] = Len(w) /\ Len(w) = Len(v) + Len(ss[k])
                    BY <3>3, <3>5, <4>1
                <5>2. ASSUME NEW j \in 1..Len(ss[k]) PROVE w[to[k] + j] = ss[k][j]
                    <6>1. /\ Len(v) + j \in 1..(Len(v) + Len(ss[k])) /\ ~(Len(v) + j <= Len(v))
                          /\ Len(v) + j - Len(v) = j
                        BY <3>2, <4>1
                    <6> QED BY <3>3, <4>1, <5>1, <6>1
                <5>3. Len(w) <= Len(w)
                    BY <3>2, <3>3
                <5> QED BY <5>1, <5>2, <5>3
            <4>2. CASE k # d
                <5>1. k \in 1..(d - 1) /\ k + 1 \in 1..d
                    BY <3>4, <4>2
                <5>2. /\ off[k + 1] = off[k] + Len(ss[k]) /\ off[k + 1] <= Len(v)
                      /\ \A j \in 1..Len(ss[k]) : v[off[k] + j] = ss[k][j]
                    BY <3>1, <5>1 DEF Lies
                <5>3. Len(ss[k]) \in Nat /\ off[k] \in Nat /\ off[k + 1] \in Nat
                    BY <1>1, <2>3, <3>4, <5>1
                <5>4. to[k] = off[k] /\ to[k + 1] = off[k + 1]
                    BY <3>5, <5>1
                <5>5. ASSUME NEW j \in 1..Len(ss[k]) PROVE w[to[k] + j] = ss[k][j]
                    <6>1. off[k] + j \in 1..(Len(v) + Len(ss[d])) /\ off[k] + j <= Len(v)
                        <7>1. Len(v) \in Nat /\ Len(ss[d]) \in Nat
                            BY <3>2
                        <7>2. off[k] + Len(ss[k]) <= Len(v)
                            BY <5>2
                        <7>3. j \in Nat /\ 1 <= j /\ j <= Len(ss[k])
                            BY <5>3
                        <7> DEFINE o == off[k]
                                   l == Len(ss[k])
                                   lv == Len(v)
                                   ld == Len(ss[d])
                        <7>4. o \in Nat /\ l \in Nat /\ lv \in Nat /\ ld \in Nat /\ o + l <= lv /\ j <= l
                            BY <5>3, <7>1, <7>2, <7>3
                        <7> HIDE DEF o, l, lv, ld
                        <7>5. o + j \in 1..(lv + ld) /\ o + j <= lv
                            BY <7>3, <7>4
                        <7> QED BY <7>5 DEF o, lv, ld
                    <6> QED BY <3>3, <5>2, <5>4, <6>1
                <5>6. to[k + 1] <= Len(w)
                    BY <3>2, <3>3, <5>2, <5>3, <5>4
                <5> QED BY <5>2, <5>4, <5>5, <5>6
            <4> QED BY <4>1, <4>2
        <3>7. Lies(ss, d, to, w)
            BY <3>5, <3>6 DEF Lies
        <3> QED BY <3>2, <3>3, <3>7 DEF w
    <2>4. T = {}
        <3> HIDE DEF Good
        <3> SUFFICES ASSUME T # {} PROVE FALSE
            OBVIOUS
        <3>1. T \in SUBSET Nat
            BY <1>1
        <3>2. PICK d \in T : \A y \in T : d <= y
            BY <3>1, LeastNatural
        <3>3. d \in 2..n /\ d - 1 \in 1..n
            BY <1>1, <2>2, <3>2
        <3>4. d - 1 \notin T
            BY <1>1, <3>2, <3>3
        <3> QED BY <2>3, <3>2, <3>3, <3>4
    <2>5. Good(n)
        <3>1. n \in 1..n
            BY <1>1, <1>3
        <3> HIDE DEF Good
        <3> QED BY <2>4, <3>1
    <2> QED BY <2>1, <2>5
<1> QED BY <1>2, <1>3

(* What is read from a place on, in a walk that ends behind the text.      *)
Recurs(w, in, reads, next) == \A i \in 1..Len(in) : w[i] = reads[i] \o w[next[i]]

(* A walk follows its recursion from every place.                          *)
LEMMA WalkRecurs ==
    ASSUME NEW S, NEW in \in Seq(S), NEW reads, NEW next, Goes(in, next)
    PROVE  Recurs(Codec!Walk(in, reads, next), in, reads, next)
<1>0. Len(in) \in Nat
    BY LenProperties
<1> SUFFICES ASSUME NEW i \in 1..Len(in)
             PROVE  Codec!Walk(in, reads, next)[i] = reads[i] \o Codec!Walk(in, reads, next)[next[i]]
    BY Zenon DEF Recurs
<1>1. i \in 1..(Len(in) + 6)
    BY <1>0
<1>2. Codec!Walk(in, reads, next)[i] =
        IF i > Len(in) THEN <<>> ELSE reads[i] \o Codec!Walk(in, reads, next)[next[i]]
    BY <1>1, WalkStep
<1>3. ~(i > Len(in))
    BY <1>0
<1> QED BY <1>2, <1>3, Zenon

(* And nothing behind it.                                                  *)
LEMMA WalkEnds ==
    ASSUME NEW S, NEW in \in Seq(S), NEW reads, NEW next, Goes(in, next),
           NEW i \in (Len(in) + 1)..(Len(in) + 6)
    PROVE  Codec!Walk(in, reads, next)[i] = <<>>
<1>0. Len(in) \in Nat
    BY LenProperties
<1>1. i \in 1..(Len(in) + 6)
    BY <1>0
<1>2. Codec!Walk(in, reads, next)[i] =
        IF i > Len(in) THEN <<>> ELSE reads[i] \o Codec!Walk(in, reads, next)[next[i]]
    BY <1>1, WalkStep
<1>3. i > Len(in)
    BY <1>0
<1> QED BY <1>2, <1>3, Zenon

(* A walk's n places, what is read there, and what is read from each on.   *)
Along(reads, next, places, rest, n, last, D) ==
    \A k \in 1..n : /\ places[k] \in 1..last /\ next[places[k]] = places[k + 1]
                     /\ reads[places[k]] \in Seq(D) /\ rest[k] = reads[places[k]] \o rest[k + 1]

Rests(rest, n, D) == rest \in [1..(n + 1) -> Seq(D)] /\ rest[n + 1] = <<>>

(* Along a walk from place to place, what is read comes in front of what   *)
(* is read further on.                                                     *)
LEMMA WalkAlong ==
    ASSUME NEW in, NEW reads, NEW next, NEW w, Recurs(w, in, reads, next), NEW D, NEW end \in Seq(D),
           NEW n \in Nat, NEW places, NEW rest, Rests(rest, n, D), w[places[n + 1]] = end,
           Along(reads, next, places, rest, n, Len(in), D)
    PROVE  w[places[1]] = rest[1] \o end
<1> DEFINE Good(k) == w[places[k]] = rest[k] \o end
           T == {d \in 0..n : ~Good(n + 1 - d)}
<1>1. Good(n + 1)
    <2>1. rest[n + 1] \o end = end
        <3>1. <<>> \o end = end
            BY ConcatEmptySeq
        <3> QED BY <3>1, Zenon DEF Rests
    <2> QED BY <2>1
<1>2. ASSUME NEW k \in 1..n, Good(k + 1) PROVE Good(k)
    <2> DEFINE i == places[k]
               a == reads[i]
               b == rest[k + 1]
    <2>1. a \in Seq(D)
        BY Zenon DEF Along
    <2>2. i \in 1..Len(in)
        BY Zenon DEF Along
    <2>3. next[i] = places[k + 1] /\ rest[k] = a \o b
        BY Zenon DEF Along
    <2>4. b \in Seq(D)
        <3>1. k + 1 \in 1..(n + 1)
            OBVIOUS
        <3>2. rest \in [1..(n + 1) -> Seq(D)]
            BY Zenon DEF Rests
        <3> QED BY <3>1, <3>2
    <2>5. w[i] = a \o w[next[i]]
        BY <2>2, Zenon DEF Recurs
    <2> HIDE DEF a, b, i
    <2>6. w[next[i]] = b \o end
        BY <1>2, <2>3, Zenon DEF b
    <2>7. a \o (b \o end) = (a \o b) \o end
        BY <2>1, <2>4, ConcatAssociative
    <2>8. w[i] = rest[k] \o end
        BY <2>3, <2>5, <2>6, <2>7, Zenon
    <2> QED BY <2>8, Zenon DEF i
<1>3. T = {}
    <2> HIDE DEF Good
    <2> SUFFICES ASSUME T # {} PROVE FALSE
        OBVIOUS
    <2>1. T \in SUBSET Nat
        OBVIOUS
    <2>2. PICK d \in T : \A y \in T : d <= y
        BY <2>1, LeastNatural
    <2>3. d \in 1..n /\ d - 1 \in 0..n /\ n + 1 - d \in 1..n /\ n + 1 - (d - 1) = (n + 1 - d) + 1
        <3>1. d # 0
            BY <1>1, <2>2
        <3> QED BY <2>2, <3>1
    <2>4. d - 1 \notin T
        <3> HIDE DEF T
        <3> QED BY <2>2, <2>3
    <2> QED BY <1>2, <2>2, <2>3, <2>4
<1>4. Good(1)
    <2>1. n \in 0..n /\ n + 1 - n = 1
        OBVIOUS
    <2> HIDE DEF Good
    <2> QED BY <1>3, <2>1
<1> QED BY <1>4

Stands(in, i, piece) == i + Len(piece) - 1 <= Len(in) /\ \A j \in 1..Len(piece) : in[i + j - 1] = piece[j]

(* Where the characters of three texts behind each other are.              *)
LEMMA ThreeParts ==
    ASSUME NEW S, NEW p \in Seq(S), NEW x \in Seq(S), NEW q \in Seq(S)
    PROVE  /\ p \o x \o q \in Seq(S) /\ Len(p \o x \o q) = Len(p) + Len(x) + Len(q)
           /\ Len(p) \in Nat /\ Len(x) \in Nat /\ Len(q) \in Nat
           /\ \A i \in 1..Len(p) : (p \o x \o q)[i] = p[i]
           /\ \A i \in 1..Len(x) : (p \o x \o q)[Len(p) + i] = x[i]
           /\ \A i \in 1..Len(q) : (p \o x \o q)[Len(p) + Len(x) + i] = q[i]
<1>1. Len(p) \in Nat /\ Len(x) \in Nat /\ Len(q) \in Nat
    BY LenProperties
<1> DEFINE px == p \o x
<1>2. px \in Seq(S) /\ Len(px) = Len(p) + Len(x)
      /\ \A i \in 1..(Len(p) + Len(x)) : px[i] = IF i <= Len(p) THEN p[i] ELSE x[i - Len(p)]
    BY ConcatProperties
<1> HIDE DEF px
<1>3. px \o q \in Seq(S) /\ Len(px \o q) = Len(px) + Len(q)
      /\ \A i \in 1..(Len(px) + Len(q)) : (px \o q)[i] = IF i <= Len(px) THEN px[i] ELSE q[i - Len(px)]
    <2> DEFINE lpx == Len(px)
    <2>1. px \in Seq(S)
        BY <1>2
    <2> QED BY <2>1, ConcatProperties
<1> DEFINE w == px \o q
<1> HIDE DEF w
<1>4. /\ \A i \in 1..Len(p) : w[i] = p[i]
      /\ \A i \in 1..Len(x) : w[Len(p) + i] = x[i]
      /\ \A i \in 1..Len(q) : w[Len(p) + Len(x) + i] = q[i]
    <2> DEFINE lp == Len(p)
               lx == Len(x)
               lq == Len(q)
    <2>1. \A i \in 1..(lp + lx + lq) : w[i] = IF i <= lp + lx THEN px[i] ELSE q[i - (lp + lx)]
        BY <1>2, <1>3 DEF w
    <2>2. \A i \in 1..(lp + lx) : px[i] = IF i <= lp THEN p[i] ELSE x[i - lp]
        BY <1>2
    <2>3. lp \in Nat /\ lx \in Nat /\ lq \in Nat
        BY <1>1
    <2> HIDE DEF lp, lx, lq
    <2>4. ASSUME NEW i \in 1..lp PROVE w[i] = p[i]
        BY <2>1, <2>2, <2>3
    <2>5. ASSUME NEW i \in 1..lx PROVE w[lp + i] = x[i]
        <3> DEFINE j == lp + i
        <3>1. ~(j <= lp) /\ j - lp = i /\ j <= lp + lx
            BY <2>3
        <3>2. j \in 1..(lp + lx)
            BY <2>3
        <3>3. j \in 1..(lp + lx + lq)
            BY <2>3
        <3> HIDE DEF j
        <3>4. w[j] = IF j <= lp + lx THEN px[j] ELSE q[j - (lp + lx)]
            BY <2>1, <3>3, Zenon
        <3>5. px[j] = IF j <= lp THEN p[j] ELSE x[j - lp]
            BY <2>2, <3>2, Zenon
        <3>6. w[j] = x[i]
            BY <3>1, <3>4, <3>5, Zenon
        <3> QED BY <3>6 DEF j
    <2>6. ASSUME NEW i \in 1..lq PROVE w[lp + lx + i] = q[i]
        <3> DEFINE j == lp + lx + i
        <3>1. ~(j <= lp + lx) /\ j - (lp + lx) = i
            BY <2>3
        <3>2. j \in 1..(lp + lx + lq)
            BY <2>3
        <3> HIDE DEF j
        <3>3. w[j] = IF j <= lp + lx THEN px[j] ELSE q[j - (lp + lx)]
            BY <2>1, <3>2, Zenon
        <3>4. w[j] = q[i]
            BY <3>1, <3>3, Zenon
        <3> QED BY <3>4 DEF j
    <2> QED BY <2>4, <2>5, <2>6 DEF lp, lx, lq
<1> QED BY <1>1, <1>2, <1>3, <1>4 DEF w, px

(* Wherever one of the sequences stands, it is read as such.               *)
ReadsAll(in, reads, next, ss, rest, D) ==
    \A k \in 1..Len(ss) : \A i \in 1..Len(in) : Stands(in, i, ss[k]) =>
        /\ next[i] = i + Len(ss[k])
        /\ reads[i] \in Seq(D) /\ rest[k] = reads[i] \o rest[k + 1]

IsMade(in, p, x, q) == in = p \o x \o q

(* A walk through a text in which the sequences ss stand between p and q.  *)
Walks(S, p, ss, q, in, reads, next, w, D, end) ==
    /\ p \in Seq(S) /\ q \in Seq(S) /\ ss \in Seq(Seq(S)) /\ IsMade(in, p, Codec!FlattenSeq(ss), q)
    /\ Recurs(w, in, reads, next)
    /\ end \in Seq(D) /\ w[Len(p) + Len(Codec!FlattenSeq(ss)) + 1] = end
    /\ \A k \in 1..Len(ss) : Len(ss[k]) >= 1

(* A walk through a run of tokens reads what each stands for, and goes on  *)
(* behind them.                                                            *)
LEMMA WalkThrough ==
    ASSUME NEW S, NEW p, NEW ss, NEW q, NEW in, NEW reads, NEW next, NEW w, NEW D, NEW end,
           Walks(S, p, ss, q, in, reads, next, w, D, end),
           NEW rest, Rests(rest, Len(ss), D), ReadsAll(in, reads, next, ss, rest, D)
    PROVE  w[Len(p) + 1] = rest[1] \o end
<1>s. p \in Seq(S) /\ q \in Seq(S) /\ ss \in Seq(Seq(S)) /\ IsMade(in, p, Codec!FlattenSeq(ss), q)
    BY Zenon DEF Walks
<1>e. end \in Seq(D) /\ w[Len(p) + Len(Codec!FlattenSeq(ss)) + 1] = end /\ Recurs(w, in, reads, next)
    BY Zenon DEF Walks
<1>l. \A k \in 1..Len(ss) : Len(ss[k]) >= 1
    BY Zenon DEF Walks
<1> DEFINE x == Codec!FlattenSeq(ss)
           n == Len(ss)
           lp == Len(p)
<1>1. x \in Seq(S) /\ \E off : Lies(ss, n, off, x)
    BY <1>s, FlattenLies
<1>2. PICK off : Lies(ss, n, off, x)
    BY <1>1
<1>3. n \in Nat /\ \A k \in 1..n : ss[k] \in Seq(S) /\ Len(ss[k]) \in Nat
    <2>1. \A k \in 1..n : ss[k] \in Seq(S)
        BY <1>s, ElementOfSeq
    <2> QED BY <1>s, <2>1, LenProperties
<1>4. /\ in \in Seq(S) /\ Len(in) = lp + Len(x) + Len(q) /\ lp \in Nat /\ Len(x) \in Nat /\ Len(q) \in Nat
      /\ \A i \in 1..Len(x) : in[lp + i] = x[i]
    BY <1>s, <1>1, ThreeParts DEF IsMade
<1> HIDE DEF x, lp, n
<1> DEFINE to == [k \in 1..(n + 1) |-> lp + off[k] + 1]
<1>5. off \in [1..(n + 1) -> Nat] /\ off[1] = 0 /\ off[n + 1] = Len(x)
    BY <1>2 DEF Lies
<1>6. to \in [1..(n + 1) -> Nat] /\ to[1] = lp + 1 /\ to[n + 1] = lp + Len(x) + 1 /\ \A k \in 1..(n + 1) : to[k] = lp + off[k] + 1
    <2>1. \A k \in 1..(n + 1) : off[k] \in Nat /\ lp + off[k] + 1 \in Nat
        BY <1>4, <1>5
    <2>2. 1 \in 1..(n + 1) /\ n + 1 \in 1..(n + 1)
        BY <1>3
    <2>3. lp + 0 + 1 = lp + 1
        BY <1>4
    <2>4. \A k \in 1..(n + 1) : to[k] = lp + off[k] + 1
        OBVIOUS
    <2>5. to \in [1..(n + 1) -> Nat]
        BY <2>1
    <2> HIDE DEF to
    <2> QED BY <1>5, <2>2, <2>3, <2>4, <2>5
<1> HIDE DEF to
<1>7. ASSUME NEW k \in 1..n
      PROVE  /\ to[k] \in 1..Len(in) /\ next[to[k]] = to[k + 1]
             /\ reads[to[k]] \in Seq(D) /\ rest[k] = reads[to[k]] \o rest[k + 1]
    <2> DEFINE o == off[k]
               l == Len(ss[k])
               lx == Len(x)
    <2>1. /\ off[k + 1] = o + l /\ o + l <= lx
          /\ \A j \in 1..l : x[o + j] = ss[k][j]
        BY <1>2 DEF Lies
    <2>2. o \in Nat /\ l \in Nat /\ l >= 1 /\ lx \in Nat /\ k + 1 \in 1..(n + 1) /\ k \in 1..(n + 1)
        <3>1. k + 1 \in 1..(n + 1) /\ k \in 1..(n + 1)
            BY <1>3
        <3>2. l >= 1
            BY <1>l DEF n
        <3> QED BY <1>3, <1>4, <1>5, <3>1, <3>2
    <2>3. to[k] = lp + o + 1 /\ to[k + 1] = lp + (o + l) + 1
        BY <1>6, <2>1, <2>2
    <2>4. ASSUME NEW j \in 1..l PROVE in[to[k] + j - 1] = ss[k][j]
        <3> HIDE DEF o, l, lx
        <3>1. o + j \in 1..lx /\ to[k] + j - 1 = lp + (o + j)
            BY <1>4, <2>1, <2>2, <2>3
        <3>2. in[lp + (o + j)] = x[o + j]
            BY <1>4, <3>1 DEF lx
        <3> QED BY <2>1, <3>1, <3>2
    <2>5. to[k] \in 1..Len(in) /\ to[k] + l - 1 <= Len(in) /\ to[k + 1] = to[k] + l
        <3> HIDE DEF o, l
        <3>1. o + l <= lx /\ Len(in) = lp + lx + Len(q)
            BY <1>4, <2>1
        <3> HIDE DEF lx
        <3> QED BY <1>4, <2>2, <2>3, <3>1
    <2>6. Stands(in, to[k], ss[k])
        BY <2>4, <2>5 DEF Stands
    <2>7. next[to[k]] = to[k] + l /\ reads[to[k]] \in Seq(D) /\ rest[k] = reads[to[k]] \o rest[k + 1]
        <3>1. k \in 1..Len(ss) /\ to[k] \in 1..Len(in)
            BY <2>5 DEF n
        <3> QED BY <2>6, <3>1, Zenon DEF ReadsAll
    <2> QED BY <2>5, <2>7, Zenon
<1>8. w[to[n + 1]] = end
    BY <1>e, <1>6 DEF lp, x
<1>9. w[to[1]] = rest[1] \o end
    <2> SUFFICES ASSUME NEW m \in Nat, m = n PROVE w[to[1]] = rest[1] \o end
        BY <1>3
    <2>1. Rests(rest, m, D)
        BY DEF n
    <2>2. Along(reads, next, to, rest, m, Len(in), D)
        BY <1>7, Zenon DEF Along
    <2>3. w[to[m + 1]] = end
        BY <1>8
    <2> QED BY <1>e, <2>1, <2>2, <2>3, WalkAlong
<1> QED BY <1>6, <1>9 DEF lp, x

(* What is left of a text, from each of its places.                        *)
TailsOf(rest, t, D) ==
    /\ Rests(rest, Len(t), D) /\ rest[1] = t
    /\ \A k \in 1..Len(t) : <<t[k]>> \in Seq(D) /\ rest[k] = <<t[k]>> \o rest[k + 1]

(* Every text has its tails.                                               *)
LEMMA Tails ==
    ASSUME NEW D, NEW t \in Seq(D)
    PROVE  \E rest : TailsOf(rest, t, D)
<1> DEFINE n == Len(t)
           rest == [k \in 1..(n + 1) |-> SubSeq(t, k, n)]
<1>1. n \in Nat /\ \A k \in 1..n : t[k] \in D
    BY LenProperties, ElementOfSeq
<1>2. \A k \in 1..(n + 1) : SubSeq(t, k, n) \in Seq(D)
    <2> SUFFICES ASSUME NEW k \in 1..(n + 1) PROVE SubSeq(t, k, n) \in Seq(D)
        OBVIOUS
    <2>1. k \in Int /\ n \in Int /\ \A i \in k..n : t[i] \in D
        BY <1>1
    <2> HIDE DEF n
    <2> QED BY <2>1, SubSeqProperties
<1>3. rest \in [1..(n + 1) -> Seq(D)]
    BY <1>2
<1>4. rest[1] = t
    <2>1. 1 \in 1..(n + 1)
        BY <1>1
    <2>2. SubSeq(t, 1, n) = t
        BY SubSeqFull
    <2> QED BY <2>1, <2>2
<1>5. rest[n + 1] = <<>>
    <2>1. n + 1 \in 1..(n + 1) /\ n + 1 \in Int /\ n \in Int /\ n < n + 1
        BY <1>1
    <2>2. SubSeq(t, n + 1, n) = <<>>
        <3> HIDE DEF n
        <3> QED BY <2>1, SubSeqEmpty
    <2> QED BY <2>1, <2>2
<1>6. ASSUME NEW k \in 1..n PROVE <<t[k]>> \in Seq(D) /\ rest[k] = <<t[k]>> \o rest[k + 1]
    <2>1. k \in 1..(n + 1) /\ k + 1 \in 1..(n + 1) /\ n \in k..n
        BY <1>1
    <2>2. SubSeq(t, k, n) = <<t[k]>> \o SubSeq(t, k + 1, n)
        BY <2>1, SubSeqRecursiveFirst
    <2>3. <<t[k]>> \in Seq(D)
        BY <1>1
    <2> QED BY <2>1, <2>2, <2>3
<1> HIDE DEF rest
<1>7. Rests(rest, n, D)
    BY <1>3, <1>5, Zenon DEF Rests
<1>8. TailsOf(rest, t, D)
    BY <1>4, <1>6, <1>7, Zenon DEF TailsOf
<1> QED BY <1>8

ReadsEach(in, reads, next, ss, t) ==
    /\ Len(t) = Len(ss)
    /\ \A k \in 1..Len(ss) : \A i \in 1..Len(in) : Stands(in, i, ss[k]) =>
            next[i] = i + Len(ss[k]) /\ reads[i] = <<t[k]>>

(* A walk reads from each of the sequences its character.                  *)
LEMMA ReadThrough ==
    ASSUME NEW S, NEW p, NEW ss, NEW q, NEW in, NEW reads, NEW next, NEW w, NEW D, NEW end,
           Walks(S, p, ss, q, in, reads, next, w, D, end),
           NEW t \in Seq(D), ReadsEach(in, reads, next, ss, t)
    PROVE  w[Len(p) + 1] = t \o end
<1>1. PICK rest : TailsOf(rest, t, D)
    BY Tails
<1>2. Rests(rest, Len(ss), D)
    BY <1>1, Zenon DEF TailsOf, ReadsEach
<1>3. ReadsAll(in, reads, next, ss, rest, D)
    <2>1. \A k \in 1..Len(ss) : <<t[k]>> \in Seq(D) /\ rest[k] = <<t[k]>> \o rest[k + 1]
        BY <1>1, Zenon DEF TailsOf, ReadsEach
    <2> QED BY <2>1, Zenon DEF ReadsAll, ReadsEach
<1>4. w[Len(p) + 1] = rest[1] \o end
    BY <1>2, <1>3, WalkThrough
<1>5. rest[1] = t
    BY <1>1, Zenon DEF TailsOf
<1> QED BY <1>4, <1>5, Zenon

Skips(in, reads, next, ss) ==
    \A k \in 1..Len(ss) : \A i \in 1..Len(in) : Stands(in, i, ss[k]) =>
        next[i] = i + Len(ss[k]) /\ reads[i] = <<>>

(* A walk that reads nothing from the sequences.                           *)
LEMMA SkipThrough ==
    ASSUME NEW S, NEW p, NEW ss, NEW q, NEW in, NEW reads, NEW next, NEW w, NEW D, NEW end,
           Walks(S, p, ss, q, in, reads, next, w, D, end), Skips(in, reads, next, ss)
    PROVE  w[Len(p) + 1] = end
<1>s. ss \in Seq(Seq(S)) /\ end \in Seq(D)
    BY Zenon DEF Walks
<1> DEFINE rest == [k \in 1..(Len(ss) + 1) |-> <<>>]
<1>1. Len(ss) \in Nat /\ <<>> \in Seq(D)
    BY <1>s, LenProperties, EmptySeq
<1>2. <<>> = <<>> \o <<>> /\ <<>> \o end = end
    BY <1>s, <1>1, ConcatEmptySeq
<1>3. \A k \in 1..(Len(ss) + 1) : rest[k] = <<>>
    OBVIOUS
<1>4. Rests(rest, Len(ss), D)
    <2>1. Len(ss) + 1 \in 1..(Len(ss) + 1)
        BY <1>1
    <2> QED BY <1>1, <1>3, <2>1 DEF Rests
<1>5. \A k \in 1..Len(ss) : rest[k] = <<>> /\ rest[k + 1] = <<>>
    BY <1>1, <1>3
<1>6. rest[1] = <<>>
    BY <1>1, <1>3
<1> HIDE DEF rest
<1>7. ReadsAll(in, reads, next, ss, rest, D)
    BY <1>1, <1>2, <1>5, Zenon DEF ReadsAll, Skips
<1>8. w[Len(p) + 1] = rest[1] \o end
    BY <1>4, <1>7, WalkThrough
<1> QED BY <1>2, <1>6, <1>8, Zenon

(* The sequences themselves, with nothing around them.                     *)
LEMMA WalksAlone ==
    ASSUME NEW S, NEW ss \in Seq(Seq(S)), NEW in, in = Codec!FlattenSeq(ss),
           NEW reads, NEW next, Goes(in, next), NEW D,
           \A k \in 1..Len(ss) : Len(ss[k]) >= 1
    PROVE  /\ Walks(S, <<>>, ss, <<>>, in, reads, next, Codec!Walk(in, reads, next), D, <<>>)
           /\ \A t : Codec!Walk(in, reads, next)[Len(<<>>) + 1] = t => Codec!Walk(in, reads, next)[1] = t
<1>1. in \in Seq(S) /\ Len(in) \in Nat
    BY FlattenLies, LenProperties
<1>2. <<>> \in Seq(S) /\ <<>> \in Seq(D) /\ Len(<<>>) = 0
    BY EmptySeq
<1>3. IsMade(in, <<>>, Codec!FlattenSeq(ss), <<>>)
    <2>1. <<>> \o in = in /\ in \o <<>> = in
        BY <1>1, ConcatEmptySeq
    <2> QED BY <2>1 DEF IsMade
<1>4. Recurs(Codec!Walk(in, reads, next), in, reads, next)
    <2> HIDE DEF Goes
    <2> QED BY <1>1, WalkRecurs
<1>5. Codec!Walk(in, reads, next)[Len(<<>>) + Len(Codec!FlattenSeq(ss)) + 1] = <<>>
    <2>1. Len(in) + 1 \in (Len(in) + 1)..(Len(in) + 6)
        BY <1>1
    <2>2. Codec!Walk(in, reads, next)[Len(in) + 1] = <<>>
        BY <1>1, <2>1, WalkEnds
    <2>3. Len(<<>>) + Len(Codec!FlattenSeq(ss)) + 1 = Len(in) + 1
        BY <1>1, <1>2
    <2> QED BY <2>2, <2>3
<1>6. Walks(S, <<>>, ss, <<>>, in, reads, next, Codec!Walk(in, reads, next), D, <<>>)
    BY <1>2, <1>3, <1>4, <1>5, Zenon DEF Walks
<1>7. Len(<<>>) + 1 = 1
    BY <1>2
<1> QED BY <1>6, <1>7

(* What stands there, of one, two and three characters.                    *)
LEMMA StandsOne ==
    ASSUME NEW in, NEW i \in Nat, NEW c, Stands(in, i, <<c>>)
    PROVE  in[i] = c /\ Len(<<c>>) = 1
<1>1. Len(<<c>>) = 1 /\ 1 \in 1..Len(<<c>>) /\ <<c>>[1] = c /\ i + 1 - 1 = i
    OBVIOUS
<1> QED BY <1>1, Zenon DEF Stands

(* A pair of characters stands where both of them are.                     *)
LEMMA StandsTwo ==
    ASSUME NEW in, NEW i \in Nat, NEW c, NEW d, Stands(in, i, <<c, d>>)
    PROVE  in[i] = c /\ in[i + 1] = d /\ i + 1 <= Len(in) /\ Len(<<c, d>>) = 2
<1>1. /\ Len(<<c, d>>) = 2 /\ 1 \in 1..Len(<<c, d>>) /\ <<c, d>>[1] = c /\ i + 1 - 1 = i
      /\ 2 \in 1..Len(<<c, d>>) /\ <<c, d>>[2] = d /\ i + 2 - 1 = i + 1
    OBVIOUS
<1> QED BY <1>1, Zenon DEF Stands

(* Three characters stand where each of them is.                           *)
LEMMA StandsThree ==
    ASSUME NEW in, NEW i \in Nat, NEW c, NEW d, NEW e, Stands(in, i, <<c, d, e>>)
    PROVE  /\ in[i] = c /\ in[i + 1] = d /\ in[i + 2] = e /\ i + 2 <= Len(in)
           /\ Len(<<c, d, e>>) = 3
<1>1. /\ Len(<<c, d, e>>) = 3 /\ 1 \in 1..Len(<<c, d, e>>) /\ <<c, d, e>>[1] = c /\ i + 1 - 1 = i
      /\ 2 \in 1..Len(<<c, d, e>>) /\ <<c, d, e>>[2] = d /\ i + 2 - 1 = i + 1
      /\ 3 \in 1..Len(<<c, d, e>>) /\ <<c, d, e>>[3] = e /\ i + 3 - 1 = i + 2
    OBVIOUS
<1> QED BY <1>1, Zenon DEF Stands

(* How a character may be written in a form.                               *)
Decodes(s, c) ==
    \/ s = <<c>> /\ c \notin {"%", "+"}
    \/ s = <<"+">> /\ c = " "
    \/ \E x, y \in Codec!Hex : s = <<"%", x, y>> /\ Codec!Byte[<<x, y>>] = c

(* urlDecode reads back what was written of every character.               *)
LEMMA UrlDecodes ==
    ASSUME NEW S, NEW ss \in Seq(Seq(S)), NEW D, NEW t \in Seq(D), Len(t) = Len(ss),
           \A k \in 1..Len(ss) : Decodes(ss[k], t[k])
    PROVE  Codec!urlDecode(Codec!FlattenSeq(ss)) = t
<1> DEFINE in == Codec!FlattenSeq(ss)
           escape(i) == in[i] = "%" /\ i + 2 <= Len(in) /\ {in[i + 1], in[i + 2]} \subseteq Codec!Hex
           reads == [i \in DOMAIN in |-> IF escape(i) THEN <<Codec!Byte[<<in[i + 1], in[i + 2]>>]>>
                                         ELSE <<IF in[i] = "+" THEN " " ELSE in[i]>>]
           next == [i \in DOMAIN in |-> IF escape(i) THEN i + 3 ELSE i + 1]
<1>1. in \in Seq(S) /\ Len(in) \in Nat /\ DOMAIN in = 1..Len(in)
    BY FlattenLies, LenProperties
<1>2. Codec!urlDecode(in) = Codec!Walk(in, reads, next)[1]
    BY DEF Codec!urlDecode
<1>3. ASSUME NEW i \in 1..Len(in)
      PROVE  /\ escape(i) => next[i] = i + 3 /\ reads[i] = <<Codec!Byte[<<in[i + 1], in[i + 2]>>]>>
             /\ ~escape(i) => next[i] = i + 1 /\ reads[i] = <<IF in[i] = "+" THEN " " ELSE in[i]>>
    <2> HIDE DEF in, escape
    <2> QED BY <1>1
<1> HIDE DEF reads, next
<1>4. Goes(in, next)
    <2> HIDE DEF in
    <2> SUFFICES ASSUME NEW i \in 1..Len(in) PROVE next[i] \in (i + 1)..(Len(in) + 6)
        BY DEF Goes
    <2>1. next[i] = i + 3 \/ next[i] = i + 1
        BY <1>3
    <2> QED BY <1>1, <2>1
<1>5. ASSUME NEW k \in 1..Len(ss) PROVE Len(ss[k]) >= 1
    <2> DEFINE c == t[k]
               l == Len(ss[k])
    <2>1. Decodes(ss[k], c)
        OBVIOUS
    <2>2. Len(<<c>>) = 1 /\ Len(<<"+">>) = 1 /\ \A x, y : Len(<<"%", x, y>>) = 3
        OBVIOUS
    <2> HIDE DEF c
    <2>3. l = 1 \/ l = 3
        BY <2>1, <2>2, Zenon DEF Decodes
    <2> HIDE DEF l
    <2>4. l >= 1
        BY <2>3
    <2> QED BY <2>4 DEF l
<1>6. ReadsEach(in, reads, next, ss, t)
    <2> HIDE DEF in
    <2>0. \A i \in 1..Len(in) : i \in Nat
        BY <1>1
    <2> SUFFICES ASSUME NEW k \in 1..Len(ss), NEW i \in Nat, i \in 1..Len(in), Stands(in, i, ss[k])
                 PROVE  next[i] = i + Len(ss[k]) /\ reads[i] = <<t[k]>>
        BY <2>0, Zenon DEF ReadsEach
    <2> DEFINE c == t[k]
    <2>1. CASE ss[k] = <<c>> /\ c \notin {"%", "+"}
        <3>1. Stands(in, i, <<c>>)
            BY <2>1
        <3>2. in[i] = c /\ Len(ss[k]) = 1
            BY <2>1, <3>1, StandsOne, Zenon
        <3> QED BY <1>3, <2>1, <3>2
    <2>2. CASE ss[k] = <<"+">> /\ c = " "
        <3>1. Stands(in, i, <<"+">>)
            BY <2>2
        <3>2. in[i] = "+" /\ Len(ss[k]) = 1
            BY <2>2, <3>1, StandsOne, Zenon
        <3> QED BY <1>3, <2>2, <3>2
    <2>3. CASE \E x, y \in Codec!Hex : ss[k] = <<"%", x, y>> /\ Codec!Byte[<<x, y>>] = c
        <3>1. PICK x \in Codec!Hex, y \in Codec!Hex : ss[k] = <<"%", x, y>> /\ Codec!Byte[<<x, y>>] = c
            BY <2>3
        <3>2. in[i] = "%" /\ in[i + 1] = x /\ in[i + 2] = y /\ i + 2 <= Len(in) /\ Len(ss[k]) = 3
            <4>1. Stands(in, i, <<"%", x, y>>)
                BY <3>1
            <4>2. /\ in[i] = "%" /\ in[i + 1] = x /\ in[i + 2] = y /\ i + 2 <= Len(in)
                  /\ Len(<<"%", x, y>>) = 3
                <5>1. \A s : s = <<"%", x, y>> => Len(s) = 3 /\ s[1] = "%" /\ s[2] = x /\ s[3] = y
                    OBVIOUS
                <5>2. 1 \in 1..3 /\ 2 \in 1..3 /\ 3 \in 1..3 /\ i + 1 - 1 = i /\ i + 2 - 1 = i + 1 /\ i + 3 - 1 = i + 2
                    OBVIOUS
                <5> QED BY <4>1, <5>1, <5>2, Zenon DEF Stands
            <4> QED BY <3>1, <4>2, Zenon
        <3>3. escape(i)
            BY <3>2
        <3> QED BY <1>3, <3>1, <3>2, <3>3
    <2>4. Decodes(ss[k], t[k])
        OBVIOUS
    <2> QED BY <2>1, <2>2, <2>3, <2>4, Zenon DEF Decodes, c
<1>7. Walks(S, <<>>, ss, <<>>, in, reads, next, Codec!Walk(in, reads, next), D, <<>>)
    <2> HIDE DEF Goes
    <2> QED BY <1>4, <1>5, WalksAlone
<1>8. Codec!Walk(in, reads, next)[Len(<<>>) + 1] = t \o <<>>
    <2> HIDE DEF in
    <2> QED BY <1>6, <1>7, ReadThrough
<1>9. Codec!Walk(in, reads, next)[1] = t \o <<>>
    <2> HIDE DEF Goes
    <2> QED BY <1>4, <1>5, <1>8, WalksAlone
<1>10. t \o <<>> = t
    BY ConcatEmptySeq
<1> QED BY <1>2, <1>9, <1>10

(* A byte that has an escape is read back from it.                         *)
LEMMA PercentDecodes ==
    ASSUME NEW c, \E h \in Codec!Hex \X Codec!Hex : Codec!Byte[h] = c
    PROVE  \E x, y \in Codec!Hex : Codec!Percent(c) = <<"%", x, y>> /\ Codec!Byte[<<x, y>>] = c
<1> DEFINE h == CHOOSE h \in Codec!Hex \X Codec!Hex : Codec!Byte[h] = c
<1>1. h \in Codec!Hex \X Codec!Hex /\ Codec!Byte[h] = c
    OBVIOUS
<1>2. Codec!Percent(c) = <<"%", h[1], h[2]>>
    BY DEF Codec!Percent
<1> HIDE DEF h
<1>3. PICK x \in Codec!Hex, y \in Codec!Hex : h = <<x, y>>
    BY <1>1
<1>4. h[1] = x /\ h[2] = y
    BY <1>3
<1> QED BY <1>1, <1>2, <1>3, <1>4

(* The characters a form reserves have escapes.                            *)
LEMMA ReservedAreBytes ==
    ASSUME NEW c \in {"%", "&", "+", "="}
    PROVE  \E h \in Codec!Hex \X Codec!Hex : Codec!Byte[h] = c
<1>1. \A x, y \in Codec!Hex : <<x, y>> \in Codec!Hex \X Codec!Hex
    OBVIOUS
<1>2. {"0", "2", "3", "5", "6", "B", "C", "D", "F"} = Codec!Hex
    BY DEF Codec!Hex
<1>3. /\ <<"2", "5">> \in Codec!Hex \X Codec!Hex /\ <<"2", "6">> \in Codec!Hex \X Codec!Hex
      /\ <<"2", "B">> \in Codec!Hex \X Codec!Hex /\ <<"3", "D">> \in Codec!Hex \X Codec!Hex
    BY DEF Codec!Hex
<1>4. /\ Codec!Byte[<<"2", "5">>] = "%" /\ Codec!Byte[<<"2", "6">>] = "&"
      /\ Codec!Byte[<<"2", "B">>] = "+" /\ Codec!Byte[<<"3", "D">>] = "="
    BY <1>3 DEF Codec!Byte
<1> QED BY <1>3, <1>4

(* What the browser writes of a character decodes to it.                   *)
LEMMA EncodedDecodes ==
    ASSUME NEW c
    PROVE  Decodes(Codec!Encoded(c), c)
<1>1. CASE c = " "
    BY <1>1 DEF Codec!Encoded, Decodes
<1>2. CASE c \in {"%", "&", "+", "="}
    <2>1. Codec!Encoded(c) = Codec!Percent(c)
        BY <1>2 DEF Codec!Encoded
    <2>2. \E x, y \in Codec!Hex : Codec!Percent(c) = <<"%", x, y>> /\ Codec!Byte[<<x, y>>] = c
        <3>1. \E h \in Codec!Hex \X Codec!Hex : Codec!Byte[h] = c
            BY <1>2, ReservedAreBytes
        <3> QED BY <3>1, PercentDecodes
    <2> QED BY <2>1, <2>2, Zenon DEF Decodes
<1>3. CASE c # " " /\ c \notin {"%", "&", "+", "="}
    <2>1. Codec!Encoded(c) = <<c>>
        BY <1>3 DEF Codec!Encoded
    <2> QED BY <1>3, <2>1 DEF Decodes
<1> QED BY <1>1, <1>2, <1>3

(* A part of a text, between two places.                                   *)
LEMMA PartIs ==
    ASSUME NEW S, NEW in \in Seq(S), NEW T, NEW v \in Seq(T), NEW m \in Nat, m + Len(v) <= Len(in),
           \A i \in 1..Len(v) : in[m + i] = v[i]
    PROVE  SubSeq(in, m + 1, m + Len(v)) = v
<1> DEFINE l == Len(v)
           U == S \cup T
           a == m + 1
           b == m + l
           piece == SubSeq(in, a, b)
<1>1. l \in Nat /\ Len(in) \in Nat /\ v \in Seq(U) /\ in \in Seq(U)
    BY LenProperties, SeqMonotonic
<1>2. a \in Int /\ b \in Int /\ \A i \in a..b : in[i] \in U
    <2> SUFFICES ASSUME NEW i \in a..b PROVE in[i] \in U
        BY <1>1
    <2>1. i \in 1..Len(in)
        BY <1>1
    <2> QED BY <2>1, ElementOfSeq
<1>3. b <= Len(in) /\ \A i \in 1..l : in[m + i] = v[i]
    OBVIOUS
<1>4. b - a + 1 = l /\ \A i \in 1..l : a + i - 1 = m + i
    BY <1>1
<1> HIDE DEF l, U, a, b
<1>5. /\ piece \in Seq(U) /\ Len(piece) = IF a <= b THEN b - a + 1 ELSE 0
      /\ \A i \in 1..(b - a + 1) : piece[i] = in[a + i - 1]
    BY <1>2, SubSeqProperties
<1> HIDE DEF piece
<1>6. Len(piece) = l
    BY <1>1, <1>2, <1>4, <1>5
<1>7. \A i \in 1..l : piece[i] = v[i]
    BY <1>3, <1>4, <1>5
<1>8. piece = v
    <2>1. Len(piece) = Len(v) /\ \A i \in 1..Len(piece) : piece[i] = v[i]
        BY <1>6, <1>7 DEF l
    <2> QED BY <1>1, <1>5, <2>1, SeqEqual
<1> QED BY <1>8 DEF piece, l, a, b

(* Find returns the first place of a character.                            *)
LEMMA FindIs ==
    ASSUME NEW S, NEW s \in Seq(S), NEW c, NEW from \in Nat, NEW f \in Nat, from <= f, f <= Len(s), s[f] = c,
           \A j \in from..(f - 1) : s[j] # c
    PROVE  Codec!Find(s, c, from) = f
<1>1. Len(s) \in Nat
    BY LenProperties
<1>2. f \in from..Len(s)
    BY <1>1
<1>3. IsFirst(s, c, from, f)
    BY <1>2 DEF IsFirst
<1>4. IsFirst(s, c, from, Codec!Find(s, c, from))
    BY <1>2, FoundFirst
<1> QED BY <1>3, <1>4, FirstIsOne

(* Find returns the end, where the character is missing.                   *)
LEMMA FindNone ==
    ASSUME NEW S, NEW s \in Seq(S), NEW c, NEW from \in Nat, \A j \in from..Len(s) : s[j] # c
    PROVE  Codec!Find(s, c, from) = Len(s) + 1
    BY FoundFirst

(* Find never goes back.                                                   *)
LEMMA FindBounds ==
    ASSUME NEW S, NEW s \in Seq(S), NEW c, NEW from \in 1..Len(s)
    PROVE  Codec!Find(s, c, from) \in from..(Len(s) + 1)
<1>1. Len(s) \in Nat
    BY LenProperties
<1>2. from \in Nat
    BY <1>1
<1>3. CASE \E i \in from..Len(s) : s[i] = c
    BY <1>1, <1>2, <1>3, FoundFirst DEF IsFirst
<1>4. CASE ~(\E i \in from..Len(s) : s[i] = c)
    <2>1. Codec!Find(s, c, from) = Len(s) + 1
        BY <1>2, <1>4, FoundFirst
    <2> QED BY <1>1, <1>2, <2>1
<1> QED BY <1>3, <1>4

(* One text, flattened, is that text.                                      *)
LEMMA FlattenOne ==
    ASSUME NEW S, NEW s \in Seq(S)
    PROVE  Codec!FlattenSeq(<<s>>) = s
<1> DEFINE ss == <<s>>
<1>1. ss \in Seq(Seq(S)) /\ Len(ss) = 1 /\ Len(ss) # 0 /\ ss[1] = s
    OBVIOUS
<1> HIDE DEF ss
<1>2. PICK f : /\ Codec!FlattenSeq(ss) = f[Len(ss)]
               /\ f = [i \in 1..Len(ss) |-> IF i = 1 THEN ss[i] ELSE f[i - 1] \o ss[i]]
    BY <1>1, FlattenStep
<1>3. f = [i \in 1..1 |-> IF i = 1 THEN ss[i] ELSE f[i - 1] \o ss[i]]
    BY <1>1, <1>2
<1>4. f[1] = ss[1]
    BY <1>3
<1> QED BY <1>1, <1>2, <1>4 DEF ss

(* A name of one character that is no escape is read as it is.             *)
LEMMA NameDecodes ==
    ASSUME NEW c, c \notin {"%", "+"}
    PROVE  Codec!urlDecode(<<c>>) = <<c>>
<1>1. <<c>> \in Seq({c}) /\ Codec!FlattenSeq(<< <<c>> >>) = <<c>>
    <2>1. <<c>> \in Seq({c})
        OBVIOUS
    <2> QED BY <2>1, FlattenOne
<1>2. << <<c>> >> \in Seq(Seq({c})) /\ Len(<< <<c>> >>) = 1 /\ Len(<<c>>) = 1
    OBVIOUS
<1>3. ASSUME NEW k \in 1..1 PROVE Decodes(<< <<c>> >>[k], <<c>>[k])
    <2>1. k = 1 /\ << <<c>> >>[1] = <<c>> /\ <<c>>[1] = c
        OBVIOUS
    <2>2. Decodes(<<c>>, c)
        BY Zenon DEF Decodes
    <2> QED BY <2>1, <2>2, Zenon
<1>4. Codec!urlDecode(Codec!FlattenSeq(<< <<c>> >>)) = <<c>>
    <2> DEFINE ss == << <<c>> >>
               t == <<c>>
    <2>1. ss \in Seq(Seq({c})) /\ t \in Seq({c}) /\ Len(t) = Len(ss)
        BY <1>1, <1>2
    <2>2. \A k \in 1..Len(ss) : Decodes(ss[k], t[k])
        BY <1>2, <1>3
    <2> HIDE DEF ss, t
    <2>3. Codec!urlDecode(Codec!FlattenSeq(ss)) = t
        BY <2>1, <2>2, UrlDecodes
    <2> QED BY <2>3 DEF ss, t
<1> QED BY <1>1, <1>4

(* Where the two fields of a form stand.                                   *)
IsForm(S, T, form, va, vb, la, lb) ==
    /\ form \in Seq(S) /\ va \in Seq(T) /\ vb \in Seq(T) /\ la = Len(va) /\ lb = Len(vb)
    /\ la \in Nat /\ lb \in Nat /\ Len(form) = la + lb + 5
    /\ form[1] = "k" /\ form[2] = "=" /\ form[la + 3] = "&" /\ form[la + 4] = "n" /\ form[la + 5] = "="
    /\ \A i \in 1..la : form[2 + i] = va[i]
    /\ \A i \in 1..lb : form[la + 5 + i] = vb[i]

IsThree(S, w, p, x, q) ==
    /\ w \in Seq(S) /\ Len(w) = Len(p) + Len(x) + Len(q)
    /\ \A i \in 1..Len(p) : w[i] = p[i]
    /\ \A i \in 1..Len(x) : w[Len(p) + i] = x[i]
    /\ \A i \in 1..Len(q) : w[Len(p) + Len(x) + i] = q[i]

(* Three texts behind each other lie as IsThree says.                      *)
LEMMA ThreeLie ==
    ASSUME NEW S, NEW p \in Seq(S), NEW x \in Seq(S), NEW q \in Seq(S)
    PROVE  IsThree(S, p \o x \o q, p, x, q)
    BY ThreeParts DEF IsThree

IsFour(S, w, p, x, q, y) ==
    /\ w \in Seq(S) /\ Len(w) = Len(p) + Len(x) + Len(q) + Len(y)
    /\ \A i \in 1..Len(p) : w[i] = p[i]
    /\ \A i \in 1..Len(x) : w[Len(p) + i] = x[i]
    /\ \A i \in 1..Len(q) : w[Len(p) + Len(x) + i] = q[i]
    /\ \A i \in 1..Len(y) : w[Len(p) + Len(x) + Len(q) + i] = y[i]

(* Four texts behind each other lie as IsFour says.                        *)
LEMMA FourLie ==
    ASSUME NEW S, NEW p \in Seq(S), NEW x \in Seq(S), NEW q \in Seq(S), NEW y \in Seq(S)
    PROVE  IsFour(S, p \o x \o q \o y, p, x, q, y)
<1> DEFINE h == p \o x \o q
           e == <<>>
<1>1. /\ h \in Seq(S) /\ Len(h) = Len(p) + Len(x) + Len(q)
      /\ Len(p) \in Nat /\ Len(x) \in Nat /\ Len(q) \in Nat
      /\ \A i \in 1..Len(p) : h[i] = p[i]
      /\ \A i \in 1..Len(x) : h[Len(p) + i] = x[i]
      /\ \A i \in 1..Len(q) : h[Len(p) + Len(x) + i] = q[i]
    BY ThreeParts
<1> HIDE DEF h
<1>2. e \in Seq(S) /\ Len(e) = 0
    BY EmptySeq
<1> HIDE DEF e
<1>3. /\ h \o y \o e \in Seq(S) /\ Len(h \o y \o e) = Len(h) + Len(y) + Len(e) /\ Len(y) \in Nat
      /\ \A i \in 1..Len(h) : (h \o y \o e)[i] = h[i]
      /\ \A i \in 1..Len(y) : (h \o y \o e)[Len(h) + i] = y[i]
    <2>1. IsThree(S, h \o y \o e, h, y, e)
        BY <1>1, <1>2, ThreeLie
    <2> QED BY <2>1, LenProperties DEF IsThree
<1>4. h \o y \o e = h \o y
    <2>1. h \o y \in Seq(S)
        BY <1>1, ConcatProperties
    <2> QED BY <2>1, ConcatEmptySeq DEF e
<1> DEFINE w == h \o y
           lp == Len(p)
           lx == Len(x)
           lq == Len(q)
           ly == Len(y)
<1>5. /\ lp \in Nat /\ lx \in Nat /\ lq \in Nat /\ ly \in Nat
      /\ \A i \in 1..(lp + lx + lq) : w[i] = h[i]
      /\ \A i \in 1..lp : h[i] = p[i]
      /\ \A i \in 1..lx : h[lp + i] = x[i]
      /\ \A i \in 1..lq : h[lp + lx + i] = q[i]
    BY <1>1, <1>3, <1>4
<1>6. \A i \in 1..ly : w[lp + lx + lq + i] = y[i]
    BY <1>1, <1>3, <1>4
<1>7. w \in Seq(S) /\ Len(w) = lp + lx + lq + ly
    <2>1. Len(w) = Len(h) + ly + 0
        BY <1>2, <1>3, <1>4
    <2>2. Len(w) = lp + lx + lq + ly
        BY <1>1, <2>1, <1>5
    <2> QED BY <1>3, <1>4, <2>2
<1> HIDE DEF w, lp, lx, lq, ly
<1>8. /\ \A i \in 1..lp : w[i] = p[i]
      /\ \A i \in 1..lx : w[lp + i] = x[i]
      /\ \A i \in 1..lq : w[lp + lx + i] = q[i]
    <2>1. /\ \A i \in 1..lp : i \in 1..(lp + lx + lq)
          /\ \A i \in 1..lx : lp + i \in 1..(lp + lx + lq)
          /\ \A i \in 1..lq : lp + lx + i \in 1..(lp + lx + lq)
        BY <1>5
    <2> QED BY <1>5, <2>1, Zenon
<1>9. IsFour(S, w, p, x, q, y)
    BY <1>6, <1>7, <1>8, Zenon DEF IsFour, lp, lx, lq, ly
<1> QED BY <1>9 DEF w, h

(* Where a form's names, delimiters and values are.                        *)
LEMMA FormLayout ==
    ASSUME NEW T, NEW va \in Seq(T), NEW vb \in Seq(T), NEW S, T \subseteq S, {"k", "=", "&", "n"} \subseteq S
    PROVE  IsForm(S, T, <<"k", "=">> \o va \o <<"&", "n", "=">> \o vb, va, vb, Len(va), Len(vb))
<1> DEFINE p == <<"k", "=">>
           q == <<"&", "n", "=">>
           form == p \o va \o q \o vb
           la == Len(va)
           lb == Len(vb)
<1>1. /\ p \in Seq(S) /\ q \in Seq(S) /\ va \in Seq(S) /\ vb \in Seq(S)
      /\ Len(p) = 2 /\ Len(q) = 3 /\ p[1] = "k" /\ p[2] = "=" /\ q[1] = "&" /\ q[2] = "n" /\ q[3] = "="
    <2>1. va \in Seq(S) /\ vb \in Seq(S)
        BY SeqMonotonic
    <2>2. p \in Seq(S) /\ q \in Seq(S)
        OBVIOUS
    <2> QED BY <2>1, <2>2
<1> HIDE DEF p, q
<1>2. /\ form \in Seq(S) /\ Len(form) = Len(p) + la + Len(q) + lb
      /\ \A i \in 1..Len(p) : form[i] = p[i]
      /\ \A i \in 1..la : form[Len(p) + i] = va[i]
      /\ \A i \in 1..Len(q) : form[Len(p) + la + i] = q[i]
      /\ \A i \in 1..lb : form[Len(p) + la + Len(q) + i] = vb[i]
    <2>1. IsFour(S, form, p, va, q, vb)
        BY <1>1, FourLie
    <2> QED BY <2>1, Zenon DEF IsFour
<1>3. la \in Nat /\ lb \in Nat
    BY LenProperties
<1> HIDE DEF form, la, lb
<1>4. /\ form[1] = "k" /\ form[2] = "=" /\ \A i \in 1..la : form[2 + i] = va[i]
      /\ Len(form) = 2 + la + 3 + lb
      /\ \A i \in 1..3 : form[2 + la + i] = q[i]
      /\ \A i \in 1..lb : form[2 + la + 3 + i] = vb[i]
    BY <1>1, <1>2
<1>5. /\ 2 + la + 1 = la + 3 /\ 2 + la + 2 = la + 4 /\ 2 + la + 3 = la + 5
      /\ 2 + la + 3 + lb = la + lb + 5
    BY <1>3
<1>6. /\ Len(form) = la + lb + 5 /\ \A i \in 1..lb : form[la + 5 + i] = vb[i]
      /\ form[la + 3] = "&" /\ form[la + 4] = "n" /\ form[la + 5] = "="
    <2>1. 1 \in 1..3 /\ 2 \in 1..3 /\ 3 \in 1..3
        OBVIOUS
    <2> QED BY <1>1, <1>4, <1>5, <2>1, Zenon
<1>7. la = Len(va) /\ lb = Len(vb)
    BY DEF la, lb
<1>8. IsForm(S, T, form, va, vb, la, lb)
    BY <1>2, <1>3, <1>4, <1>6, <1>7, Zenon DEF IsForm
<1> QED BY <1>8 DEF form, p, q, la, lb

(* What is found in them.                                                  *)
FormFound(form, la, lb) ==
    /\ Codec!Find(form, "&", 1) = la + 3 /\ Codec!Find(form, "=", 1) = 2
    /\ Codec!Find(form, "&", la + 4) = la + lb + 6 /\ Codec!Find(form, "=", la + 4) = la + 5

(* The delimiters that formValue finds in a form are the form's own.       *)
LEMMA FormFinds ==
    ASSUME NEW T, "&" \notin T, "=" \notin T, NEW S, NEW va, NEW vb, NEW form, NEW la, NEW lb,
           IsForm(S, T, form, va, vb, la, lb)
    PROVE  FormFound(form, la, lb)
<1>0. form \in Seq(S) /\ va \in Seq(T) /\ vb \in Seq(T) /\ la = Len(va) /\ lb = Len(vb) /\ la \in Nat /\ lb \in Nat
    BY DEF IsForm
<1>1. /\ \A i \in 1..la : form[2 + i] # "&"
      /\ \A i \in 1..lb : form[la + 5 + i] # "&"
    <2>1. \A i \in 1..la : va[i] \in T
        BY <1>0, ElementOfSeq
    <2>2. \A i \in 1..lb : vb[i] \in T
        BY <1>0, ElementOfSeq
    <2> QED BY <1>0, <2>1, <2>2 DEF IsForm
<1>2. /\ Len(form) = la + lb + 5
      /\ form[1] = "k" /\ form[2] = "=" /\ form[la + 3] = "&" /\ form[la + 4] = "n" /\ form[la + 5] = "="
    BY <1>0 DEF IsForm
<1>3. ASSUME NEW j \in 1..(la + 2) PROVE form[j] # "&"
    <2>1. CASE j <= 2
        BY <1>0, <1>2, <2>1
    <2>2. CASE j > 2
        <3>1. j - 2 \in 1..la /\ 2 + (j - 2) = j
            BY <1>0, <2>2
        <3> QED BY <1>1, <3>1
    <2> QED BY <1>0, <2>1, <2>2
<1>4. ASSUME NEW j \in (la + 4)..(la + lb + 5) PROVE form[j] # "&"
    <2>1. CASE j = la + 4 \/ j = la + 5
        BY <1>0, <1>2, <2>1
    <2>2. CASE j > la + 5
        <3>1. j - (la + 5) \in 1..lb /\ la + 5 + (j - (la + 5)) = j
            BY <1>0, <2>2
        <3> QED BY <1>1, <3>1
    <2> QED BY <1>0, <2>1, <2>2
<1>5. Codec!Find(form, "&", 1) = la + 3
    <2> DEFINE f == la + 3
    <2>1. f - 1 = la + 2
        BY <1>0
    <2>2. f \in Nat /\ 1 <= f /\ f <= Len(form) /\ form[f] = "&" /\ \A j \in 1..(f - 1) : form[j] # "&"
        BY <1>0, <1>2, <1>3, <2>1
    <2> HIDE DEF f
    <2>3. Codec!Find(form, "&", 1) = f
        BY <1>0, <2>2, FindIs
    <2> QED BY <2>3 DEF f
<1>6. Codec!Find(form, "=", 1) = 2
    <2>1. 2 <= Len(form) /\ \A j \in 1..(2 - 1) : form[j] # "="
        BY <1>0, <1>2
    <2> QED BY <1>0, <1>2, <2>1, FindIs
<1>7. Codec!Find(form, "&", la + 4) = la + lb + 6
    <2> DEFINE m == la + 4
    <2>1. m \in Nat /\ \A j \in m..Len(form) : form[j] # "&"
        BY <1>0, <1>2, <1>4
    <2> HIDE DEF m
    <2>2. Codec!Find(form, "&", m) = Len(form) + 1
        BY <1>0, <2>1, FindNone
    <2> QED BY <1>0, <1>2, <2>2 DEF m
<1>8. Codec!Find(form, "=", la + 4) = la + 5
    <2> DEFINE m == la + 4
               f == la + 5
    <2>1. m \in Nat /\ f \in Nat /\ m <= f /\ f <= Len(form) /\ form[f] = "=" /\ \A j \in m..(f - 1) : form[j] # "="
        BY <1>0, <1>2
    <2> HIDE DEF m, f
    <2>2. Codec!Find(form, "=", m) = f
        BY <1>0, <2>1, FindIs
    <2> QED BY <2>2 DEF m, f
<1> QED BY <1>5, <1>6, <1>7, <1>8, Zenon DEF FormFound

(* The walk through a form, for each of its names.                         *)
FormCut(form, va, vb, la, lb) ==
    /\ SubSeq(form, 1, 1) = <<"k">> /\ SubSeq(form, 3, la + 2) = va
    /\ SubSeq(form, la + 4, la + 4) = <<"n">> /\ SubSeq(form, la + 6, la + lb + 5) = vb

(* What formValue cuts out of a form is a name or a value of it.           *)
LEMMA FieldsAre ==
    ASSUME NEW S, NEW T, NEW form, NEW va, NEW vb, NEW la, NEW lb, IsForm(S, T, form, va, vb, la, lb)
    PROVE  FormCut(form, va, vb, la, lb)
<1>0. form \in Seq(S) /\ va \in Seq(T) /\ vb \in Seq(T) /\ la = Len(va) /\ lb = Len(vb) /\ la \in Nat /\ lb \in Nat
    BY DEF IsForm
<1>1. /\ Len(form) = la + lb + 5 /\ form[1] = "k" /\ form[la + 4] = "n"
      /\ \A i \in 1..la : form[2 + i] = va[i]
      /\ \A i \in 1..lb : form[la + 5 + i] = vb[i]
    BY <1>0 DEF IsForm
<1>2. ASSUME NEW m \in Nat, NEW n \in Nat, n = m + 1, n <= Len(form), NEW c, form[n] = c
      PROVE  SubSeq(form, n, n) = <<c>>
    <2> DEFINE v == <<c>>
    <2>1. v \in Seq({c}) /\ Len(v) = 1 /\ v[1] = c
        OBVIOUS
    <2>2. m + Len(v) <= Len(form) /\ \A i \in 1..Len(v) : form[m + i] = v[i]
        BY <1>0, <1>2, <2>1
    <2>3. SubSeq(form, m + 1, m + Len(v)) = v
        <3> HIDE DEF v
        <3> QED BY <1>0, <2>1, <2>2, PartIs
    <2> QED BY <1>2, <2>1, <2>3
<1>3. SubSeq(form, 1, 1) = <<"k">>
    <2>1. 0 \in Nat /\ 1 \in Nat /\ 1 = 0 + 1 /\ 1 <= Len(form)
        BY <1>0, <1>1
    <2> QED BY <1>1, <1>2, <2>1, Zenon
<1>4. SubSeq(form, la + 4, la + 4) = <<"n">>
    <2>1. la + 3 \in Nat /\ la + 4 \in Nat /\ la + 4 = la + 3 + 1 /\ la + 4 <= Len(form)
        BY <1>0, <1>1
    <2> QED BY <1>1, <1>2, <2>1, Zenon
<1>5. SubSeq(form, 3, la + 2) = va
    <2>1. 2 + Len(va) <= Len(form) /\ \A i \in 1..Len(va) : form[2 + i] = va[i]
        BY <1>0, <1>1
    <2>2. SubSeq(form, 2 + 1, 2 + Len(va)) = va
        BY <1>0, <2>1, PartIs
    <2>3. 2 + Len(va) = la + 2
        BY <1>0
    <2> QED BY <2>2, <2>3
<1>6. SubSeq(form, la + 6, la + lb + 5) = vb
    <2> DEFINE m == la + 5
    <2>1. m \in Nat /\ m + Len(vb) <= Len(form) /\ \A i \in 1..Len(vb) : form[m + i] = vb[i]
        BY <1>0, <1>1
    <2> HIDE DEF m
    <2>2. SubSeq(form, m + 1, m + Len(vb)) = vb
        BY <1>0, <2>1, PartIs
    <2>3. m + Len(vb) = la + lb + 5 /\ m + 1 = la + 6
        BY <1>0 DEF m
    <2> QED BY <2>2, <2>3
<1> QED BY <1>3, <1>4, <1>5, <1>6, Zenon DEF FormCut

(* formValue returns what is decoded of the field that is asked for.       *)
LEMMA FormValues ==
    ASSUME NEW T, "&" \notin T, "=" \notin T, NEW S, NEW va, NEW vb, NEW form, NEW la, NEW lb,
           IsForm(S, T, form, va, vb, la, lb)
    PROVE  /\ Codec!formValue(form, <<"k">>) = Codec!urlDecode(va)
           /\ Codec!formValue(form, <<"n">>) = Codec!urlDecode(vb)
<1>0. form \in Seq(S) /\ la \in Nat /\ lb \in Nat /\ Len(form) = la + lb + 5
    BY DEF IsForm
<1>1. /\ Codec!Find(form, "&", 1) = la + 3 /\ Codec!Find(form, "=", 1) = 2
      /\ Codec!Find(form, "&", la + 4) = la + lb + 6 /\ Codec!Find(form, "=", la + 4) = la + 5
    <2>1. FormFound(form, la, lb)
        BY FormFinds
    <2> QED BY <2>1, Zenon DEF FormFound
<1>2. /\ SubSeq(form, 1, 1) = <<"k">> /\ SubSeq(form, 3, la + 2) = va
      /\ SubSeq(form, la + 4, la + 4) = <<"n">> /\ SubSeq(form, la + 6, la + lb + 5) = vb
    <2>1. FormCut(form, va, vb, la, lb)
        BY FieldsAre
    <2> QED BY <2>1, Zenon DEF FormCut
<1>3. Codec!urlDecode(<<"k">>) = <<"k">> /\ Codec!urlDecode(<<"n">>) = <<"n">>
    BY NameDecodes
<1>4. Len(form) = la + lb + 5 /\ DOMAIN form = 1..Len(form) /\ \A i \in 1..Len(form) : i \in Nat
    BY <1>0, LenProperties
<1> DEFINE amp(i) == Codec!Find(form, "&", i)
           eq(i) == Codec!Find(form, "=", i)
           named(i, key) == eq(i) < amp(i) /\ Codec!urlDecode(SubSeq(form, i, eq(i) - 1)) = key
           reads(key) == [i \in DOMAIN form |->
                            IF named(i, key) THEN <<Codec!urlDecode(SubSeq(form, eq(i) + 1, amp(i) - 1))>> ELSE <<>>]
           next == [i \in DOMAIN form |-> amp(i) + 1]
           w(key) == Codec!Walk(form, reads(key), next)
<1>5. \A key : Codec!formValue(form, key) = IF w(key)[1] = <<>> THEN <<>> ELSE w(key)[1][1]
    BY Zenon DEF Codec!formValue
<1>6. /\ 1 \in 1..Len(form) /\ la + 4 \in 1..Len(form)
      /\ 2 < la + 3 /\ 2 - 1 = 1 /\ 2 + 1 = 3 /\ la + 3 - 1 = la + 2 /\ la + 3 + 1 = la + 4
      /\ la + 5 < la + lb + 6 /\ la + 5 - 1 = la + 4 /\ la + 5 + 1 = la + 6
      /\ la + lb + 6 - 1 = la + lb + 5 /\ la + lb + 6 + 1 = Len(form) + 2
    BY <1>0, <1>4
<1> DEFINE x == Codec!urlDecode(va)
           y == Codec!urlDecode(vb)
<1>7. \A key : /\ reads(key)[1] = IF <<"k">> = key THEN <<x>> ELSE <<>>
               /\ reads(key)[la + 4] = IF <<"n">> = key THEN <<y>> ELSE <<>>
    <2> TAKE key
    <2>1. reads(key)[1] = IF named(1, key) THEN <<Codec!urlDecode(SubSeq(form, eq(1) + 1, amp(1) - 1))>> ELSE <<>>
        BY <1>4, <1>6, Zenon
    <2>2. reads(key)[la + 4] = IF named(la + 4, key)
                               THEN <<Codec!urlDecode(SubSeq(form, eq(la + 4) + 1, amp(la + 4) - 1))>> ELSE <<>>
        BY <1>4, <1>6, Zenon
    <2>3. named(1, key) <=> <<"k">> = key
        <3>1. eq(1) < amp(1) /\ eq(1) - 1 = 1
            BY <1>1, <1>6, Zenon
        <3>2. SubSeq(form, 1, eq(1) - 1) = <<"k">>
            BY <1>2, <3>1, Zenon
        <3> QED BY <1>3, <3>1, <3>2, Zenon
    <2>4. named(la + 4, key) <=> <<"n">> = key
        <3>1. eq(la + 4) < amp(la + 4) /\ eq(la + 4) - 1 = la + 4
            <4>1. eq(la + 4) = la + 5 /\ amp(la + 4) = la + lb + 6
                BY <1>1, Zenon
            <4> HIDE DEF eq, amp
            <4> QED BY <1>0, <4>1
        <3>2. SubSeq(form, la + 4, eq(la + 4) - 1) = <<"n">>
            BY <1>2, <3>1, Zenon
        <3> QED BY <1>3, <3>1, <3>2, Zenon
    <2>5. /\ Codec!urlDecode(SubSeq(form, eq(1) + 1, amp(1) - 1)) = x
          /\ Codec!urlDecode(SubSeq(form, eq(la + 4) + 1, amp(la + 4) - 1)) = y
        <3>1. /\ eq(1) + 1 = 3 /\ amp(1) - 1 = la + 2
              /\ eq(la + 4) + 1 = la + 6 /\ amp(la + 4) - 1 = la + lb + 5
            <4>1. eq(1) = 2 /\ amp(1) = la + 3 /\ eq(la + 4) = la + 5 /\ amp(la + 4) = la + lb + 6
                BY <1>1, Zenon
            <4> HIDE DEF eq, amp
            <4> QED BY <1>0, <4>1
        <3> QED BY <1>2, <3>1, Zenon
    <2> QED BY <2>1, <2>2, <2>3, <2>4, <2>5, Zenon
<1>8. Goes(form, next)
    <2> SUFFICES ASSUME NEW i \in 1..Len(form) PROVE next[i] \in (i + 1)..(Len(form) + 6)
        BY Zenon DEF Goes
    <2>1. next[i] = amp(i) + 1
        BY <1>4, Zenon
    <2>2. amp(i) \in i..(Len(form) + 1)
        BY <1>0, FindBounds
    <2> HIDE DEF next, amp
    <2> QED BY <1>4, <2>1, <2>2
<1>9. next[1] = la + 4 /\ next[la + 4] = Len(form) + 2
    BY <1>1, <1>4, <1>6, Zenon
<1> HIDE DEF reads, next, x, y
<1>10. \A key : /\ w(key)[1] = reads(key)[1] \o w(key)[la + 4]
                /\ w(key)[la + 4] = reads(key)[la + 4] \o w(key)[Len(form) + 2]
                /\ w(key)[Len(form) + 2] = <<>>
    <2> TAKE key
    <2> DEFINE r == reads(key)
    <2> HIDE DEF r
    <2>1. Recurs(Codec!Walk(form, r, next), form, r, next)
        BY <1>0, <1>8, WalkRecurs
    <2>2. Len(form) + 2 \in (Len(form) + 1)..(Len(form) + 6)
        BY <1>4
    <2>3. Codec!Walk(form, r, next)[Len(form) + 2] = <<>>
        BY <1>0, <1>8, <2>2, WalkEnds
    <2> QED BY <1>6, <1>9, <2>1, <2>3, Zenon DEF Recurs, r
<1> HIDE DEF w
<1>11. <<"k">> # <<"n">> /\ <<x>> # <<>> /\ <<y>> # <<>>
    OBVIOUS
<1>12. <<x>> \o (<<>> \o <<>>) = <<x>> /\ <<>> \o (<<y>> \o <<>>) = <<y>> /\ <<x>>[1] = x /\ <<y>>[1] = y
    OBVIOUS
<1>13. Codec!formValue(form, <<"k">>) = x
    BY <1>5, <1>7, <1>10, <1>11, <1>12, Zenon
<1>14. Codec!formValue(form, <<"n">>) = y
    BY <1>5, <1>7, <1>10, <1>11, <1>12, Zenon
<1> QED BY <1>13, <1>14 DEF x, y

(* A function on 1..n to texts is a sequence of n texts.                   *)
LEMMA TextsLine ==
    ASSUME NEW T, NEW n \in Nat, NEW ss \in [1..n -> Seq(T)]
    PROVE  ss \in Seq(Seq(T)) /\ Len(ss) = n
<1> DEFINE U == Seq(T)
<1>1. ss \in [1..n -> U]
    OBVIOUS
<1> HIDE DEF U
<1>2. ss \in Seq(U) /\ Len(ss) = n
    BY <1>1
<1> QED BY <1>2 DEF U

(* Texts of one, two and three characters.                                 *)
LEMMA ShortTexts ==
    ASSUME NEW T, NEW c \in T, NEW d \in T, NEW e \in T
    PROVE  <<c>> \in Seq(T) /\ <<c, d>> \in Seq(T) /\ <<c, d, e>> \in Seq(T)
    OBVIOUS

(* What the browser writes of a character separates no fields.             *)
FormWritten(A) == (A \ {" ", "%", "&", "+", "="}) \cup {"%", "+"} \cup Codec!Hex

(* What the browser writes of a character holds no delimiter of a form.    *)
LEMMA EncodedIsWritten ==
    ASSUME NEW A, NEW c \in A
    PROVE  Codec!Encoded(c) \in Seq(FormWritten(A))
<1> DEFINE T == FormWritten(A)
<1>1. "%" \in T /\ "+" \in T /\ Codec!Hex \subseteq T /\ (c \notin {" ", "%", "&", "+", "="} => c \in T)
    BY DEF FormWritten
<1> HIDE DEF T
<1>2. CASE c = " "
    <2>1. Codec!Encoded(c) = <<"+">>
        BY <1>2 DEF Codec!Encoded
    <2>2. <<"+">> \in Seq(T)
        BY <1>1, ShortTexts
    <2> QED BY <2>1, <2>2, Zenon DEF T
<1>3. CASE c \in {"%", "&", "+", "="}
    <2>1. Codec!Encoded(c) = Codec!Percent(c)
        BY <1>3 DEF Codec!Encoded
    <2>2. PICK x \in Codec!Hex, y \in Codec!Hex : Codec!Percent(c) = <<"%", x, y>> /\ Codec!Byte[<<x, y>>] = c
        <3>1. \E h \in Codec!Hex \X Codec!Hex : Codec!Byte[h] = c
            BY <1>3, ReservedAreBytes
        <3> QED BY <3>1, PercentDecodes
    <2>3. x \in T /\ y \in T
        BY <1>1
    <2>4. <<"%", x, y>> \in Seq(T)
        BY <1>1, <2>3, ShortTexts
    <2> QED BY <2>1, <2>2, <2>4, Zenon DEF T
<1>4. CASE c # " " /\ c \notin {"%", "&", "+", "="}
    <2>1. Codec!Encoded(c) = <<c>>
        BY <1>4 DEF Codec!Encoded
    <2>2. <<c>> \in Seq(T)
        BY <1>1, <1>4, ShortTexts
    <2> QED BY <2>1, <2>2, Zenon DEF T
<1> QED BY <1>2, <1>3, <1>4

(* What the browser writes of a value holds no delimiter, and urlDecode    *)
(* returns the value.                                                      *)
LEMMA EncodedText ==
    ASSUME NEW A, NEW a \in Seq(A)
    PROVE  /\ Codec!Each(a, Codec!Encoded) \in Seq(FormWritten(A))
           /\ Codec!urlDecode(Codec!Each(a, Codec!Encoded)) = a
<1> DEFINE T == FormWritten(A)
           ss == [i \in DOMAIN a |-> Codec!Encoded(a[i])]
           n == Len(a)
<1>1. n \in Nat /\ DOMAIN a = 1..n /\ \A i \in 1..n : a[i] \in A
    BY LenProperties, ElementOfSeq
<1>2. \A i \in 1..n : Codec!Encoded(a[i]) \in Seq(T) /\ Decodes(Codec!Encoded(a[i]), a[i])
    BY <1>1, EncodedIsWritten, EncodedDecodes
<1> HIDE DEF n, T
<1>3. ss \in [1..n -> Seq(T)] /\ \A i \in 1..n : ss[i] = Codec!Encoded(a[i])
    BY <1>1, <1>2
<1>4. Codec!Each(a, Codec!Encoded) = Codec!FlattenSeq(ss)
    BY DEF Codec!Each
<1> HIDE DEF ss
<1>5. ss \in Seq(Seq(T)) /\ Len(ss) = n
    BY <1>1, <1>3, TextsLine
<1>6. Codec!FlattenSeq(ss) \in Seq(T)
    BY <1>5, FlattenLies
<1>7. Codec!urlDecode(Codec!FlattenSeq(ss)) = a
    <2>1. Len(a) = Len(ss) /\ \A k \in 1..Len(ss) : Decodes(ss[k], a[k])
        BY <1>2, <1>3, <1>5 DEF n
    <2> QED BY <1>5, <2>1, UrlDecodes
<1> QED BY <1>4, <1>6, <1>7 DEF T

(* The device reads from a form what was typed into it, whatever that is.  *)
LEMMA FormsAreRead ==
    ASSUME NEW A, NEW a \in Seq(A), NEW b \in Seq(A)
    PROVE  /\ Codec!formValue(Codec!Form(a, b), <<"k">>) = a
           /\ Codec!formValue(Codec!Form(a, b), <<"n">>) = b
<1> DEFINE T == FormWritten(A)
           S == T \cup {"k", "=", "&", "n"}
           va == Codec!Each(a, Codec!Encoded)
           vb == Codec!Each(b, Codec!Encoded)
           form == <<"k", "=">> \o va \o <<"&", "n", "=">> \o vb
<1>1. va \in Seq(T) /\ vb \in Seq(T) /\ Codec!urlDecode(va) = a /\ Codec!urlDecode(vb) = b
    BY EncodedText
<1>2. "&" \notin T /\ "=" \notin T
    BY DEF FormWritten, Codec!Hex
<1>3. Codec!Form(a, b) = form
    BY DEF Codec!Form
<1>4. T \subseteq S /\ {"k", "=", "&", "n"} \subseteq S
    OBVIOUS
<1> HIDE DEF va, vb, T, S
<1>5. IsForm(S, T, form, va, vb, Len(va), Len(vb))
    BY <1>1, <1>4, FormLayout
<1> HIDE DEF form
<1>6. /\ Codec!formValue(form, <<"k">>) = Codec!urlDecode(va)
      /\ Codec!formValue(form, <<"n">>) = Codec!urlDecode(vb)
    BY <1>2, <1>5, FormValues
<1> QED BY <1>1, <1>3, <1>6

(* A form of one field.                                                    *)
IsQuery(S, T, form, va, la) ==
    /\ form \in Seq(S) /\ va \in Seq(T) /\ la = Len(va) /\ la \in Nat /\ Len(form) = la + 2
    /\ form[1] = "n" /\ form[2] = "=" /\ \A i \in 1..la : form[2 + i] = va[i]

(* Where the name and the value of a form of one field are.                *)
LEMMA QueryLayout ==
    ASSUME NEW T, NEW va \in Seq(T), NEW S, T \subseteq S, {"n", "="} \subseteq S
    PROVE  IsQuery(S, T, <<"n", "=">> \o va, va, Len(va))
<1> DEFINE p == <<"n", "=">>
           q == <<>>
           form == p \o va
           la == Len(va)
<1>1. p \in Seq(S) /\ va \in Seq(S) /\ q \in Seq(S) /\ Len(p) = 2 /\ p[1] = "n" /\ p[2] = "=" /\ Len(q) = 0
    <2>1. va \in Seq(S)
        BY SeqMonotonic
    <2> QED BY <2>1
<1>2. form \o q = form
    <2> HIDE DEF p
    <2>1. form \in Seq(S)
        BY <1>1, ConcatProperties
    <2> QED BY <2>1, ConcatEmptySeq
<1> HIDE DEF p, q
<1>3. IsThree(S, p \o va \o q, p, va, q)
    BY <1>1, ThreeLie
<1>4. IsThree(S, form, p, va, q)
    BY <1>2, <1>3
<1>5. la \in Nat
    BY LenProperties
<1> HIDE DEF form
<1>6. /\ form \in Seq(S) /\ Len(form) = Len(p) + la + Len(q)
      /\ \A i \in 1..Len(p) : form[i] = p[i]
      /\ \A i \in 1..la : form[Len(p) + i] = va[i]
    BY <1>4, Zenon DEF IsThree
<1>7. la = Len(va)
    OBVIOUS
<1> HIDE DEF la
<1>8. Len(form) = la + 2 /\ form[1] = "n" /\ form[2] = "=" /\ \A i \in 1..la : form[2 + i] = va[i]
    BY <1>1, <1>5, <1>6
<1>9. IsQuery(S, T, form, va, la)
    BY <1>5, <1>6, <1>7, <1>8, Zenon DEF IsQuery
<1> QED BY <1>9 DEF form, p, la

(* formValue returns what is decoded of the only field.                    *)
LEMMA QueryValues ==
    ASSUME NEW T, "&" \notin T, "=" \notin T, NEW S, NEW va, NEW form, NEW la, IsQuery(S, T, form, va, la)
    PROVE  Codec!formValue(form, <<"n">>) = Codec!urlDecode(va)
<1>0. /\ form \in Seq(S) /\ va \in Seq(T) /\ la = Len(va) /\ la \in Nat /\ Len(form) = la + 2
      /\ form[1] = "n" /\ form[2] = "=" /\ \A i \in 1..la : form[2 + i] = va[i]
    BY Zenon DEF IsQuery
<1>1. Codec!Find(form, "&", 1) = la + 3 /\ Codec!Find(form, "=", 1) = 2
    <2>1. \A i \in 1..la : va[i] \in T
        BY <1>0, ElementOfSeq
    <2>2. ASSUME NEW j \in 1..Len(form) PROVE form[j] # "&"
        <3>1. CASE j <= 2
            BY <1>0, <3>1
        <3>2. CASE j > 2
            <4>1. j - 2 \in 1..la /\ 2 + (j - 2) = j
                BY <1>0, <3>2
            <4> QED BY <1>0, <2>1, <4>1
        <3> QED BY <1>0, <3>1, <3>2
    <2>3. 1 \in Nat /\ Len(form) + 1 = la + 3
        BY <1>0
    <2>4. Codec!Find(form, "&", 1) = Len(form) + 1
        BY <1>0, <2>2, FindNone
    <2>5. 2 <= Len(form) /\ \A j \in 1..(2 - 1) : form[j] # "="
        BY <1>0
    <2>6. Codec!Find(form, "=", 1) = 2
        BY <1>0, <2>5, FindIs
    <2> QED BY <2>3, <2>4, <2>6
<1>2. SubSeq(form, 1, 1) = <<"n">> /\ SubSeq(form, 3, la + 2) = va
    <2> DEFINE v == <<"n">>
    <2>1. v \in Seq({"n"}) /\ Len(v) = 1 /\ v[1] = "n"
        OBVIOUS
    <2>2. 0 \in Nat /\ 0 + Len(v) <= Len(form) /\ \A i \in 1..Len(v) : form[0 + i] = v[i]
        BY <1>0, <2>1
    <2>3. SubSeq(form, 0 + 1, 0 + Len(v)) = v
        <3> HIDE DEF v
        <3> QED BY <1>0, <2>1, <2>2, PartIs
    <2>4. 2 \in Nat /\ 2 + Len(va) <= Len(form) /\ \A i \in 1..Len(va) : form[2 + i] = va[i]
        BY <1>0
    <2>5. SubSeq(form, 2 + 1, 2 + Len(va)) = va
        BY <1>0, <2>4, PartIs
    <2>6. 2 + Len(va) = la + 2 /\ 2 + 1 = 3 /\ 0 + 1 = 1 /\ 0 + Len(v) = 1
        BY <1>0, <2>1
    <2> QED BY <2>3, <2>5, <2>6
<1>3. Codec!urlDecode(<<"n">>) = <<"n">>
    BY NameDecodes
<1>4. DOMAIN form = 1..Len(form) /\ \A i \in 1..Len(form) : i \in Nat
    BY <1>0, LenProperties
<1> DEFINE amp(i) == Codec!Find(form, "&", i)
           eq(i) == Codec!Find(form, "=", i)
           named(i) == eq(i) < amp(i) /\ Codec!urlDecode(SubSeq(form, i, eq(i) - 1)) = <<"n">>
           reads == [i \in DOMAIN form |->
                       IF named(i) THEN <<Codec!urlDecode(SubSeq(form, eq(i) + 1, amp(i) - 1))>> ELSE <<>>]
           next == [i \in DOMAIN form |-> amp(i) + 1]
           w == Codec!Walk(form, reads, next)
           x == Codec!urlDecode(va)
<1>5. Codec!formValue(form, <<"n">>) = IF w[1] = <<>> THEN <<>> ELSE w[1][1]
    BY Zenon DEF Codec!formValue
<1>6. 1 \in 1..Len(form)
    BY <1>0
<1>7. reads[1] = <<x>> /\ next[1] = Len(form) + 2
    <2>1. reads[1] = IF named(1) THEN <<Codec!urlDecode(SubSeq(form, eq(1) + 1, amp(1) - 1))>> ELSE <<>>
        BY <1>4, <1>6, Zenon
    <2>2. next[1] = amp(1) + 1
        BY <1>4, <1>6, Zenon
    <2>3. eq(1) < amp(1) /\ eq(1) - 1 = 1 /\ eq(1) + 1 = 3 /\ amp(1) - 1 = la + 2 /\ amp(1) + 1 = Len(form) + 2
        <3>1. eq(1) = 2 /\ amp(1) = la + 3
            BY <1>1, Zenon
        <3> HIDE DEF eq, amp
        <3> QED BY <1>0, <3>1
    <2>4. SubSeq(form, 1, eq(1) - 1) = <<"n">> /\ SubSeq(form, eq(1) + 1, amp(1) - 1) = va
        BY <1>2, <2>3, Zenon
    <2>5. named(1)
        BY <1>3, <2>3, <2>4, Zenon
    <2> QED BY <2>1, <2>2, <2>3, <2>4, <2>5, Zenon
<1>8. Goes(form, next)
    <2> SUFFICES ASSUME NEW i \in 1..Len(form) PROVE next[i] \in (i + 1)..(Len(form) + 6)
        BY Zenon DEF Goes
    <2>1. next[i] = amp(i) + 1
        BY <1>4, Zenon
    <2>2. amp(i) \in i..(Len(form) + 1)
        BY <1>0, FindBounds
    <2>3. Len(form) \in Nat
        BY <1>0
    <2> HIDE DEF next, amp
    <2> QED BY <2>1, <2>2, <2>3
<1> HIDE DEF reads, next, x
<1>9. w[1] = reads[1] \o w[Len(form) + 2] /\ w[Len(form) + 2] = <<>>
    <2>1. Recurs(Codec!Walk(form, reads, next), form, reads, next)
        BY <1>0, <1>8, WalkRecurs
    <2>2. Len(form) + 2 \in (Len(form) + 1)..(Len(form) + 6)
        BY <1>0
    <2>3. Codec!Walk(form, reads, next)[Len(form) + 2] = <<>>
        BY <1>0, <1>8, <2>2, WalkEnds
    <2> QED BY <1>6, <1>7, <2>1, <2>3, Zenon DEF Recurs
<1> HIDE DEF w
<1>10. <<x>> # <<>> /\ <<x>> \o <<>> = <<x>> /\ <<x>>[1] = x
    OBVIOUS
<1>11. Codec!formValue(form, <<"n">>) = x
    BY <1>5, <1>7, <1>9, <1>10, Zenon
<1> QED BY <1>11 DEF x

(* What a path may hold: what urlEncode keeps, and the bytes it escapes.   *)
PathCharacters == {"a", "/"} \cup {Codec!Byte[h] : h \in Codec!Hex \X Codec!Hex}
PathWritten == {"a", "/", "%"} \cup Codec!Hex

(* What the page writes of a path's character holds no delimiter and       *)
(* decodes to it.                                                          *)
LEMMA UrlEncodedIsWritten ==
    ASSUME NEW c \in PathCharacters
    PROVE  Codec!UrlEncoded(c) \in Seq(PathWritten) /\ Decodes(Codec!UrlEncoded(c), c)
<1> DEFINE T == PathWritten
<1>1. "%" \in T /\ "a" \in T /\ "/" \in T /\ Codec!Hex \subseteq T
    BY DEF PathWritten
<1> HIDE DEF T
<1>2. CASE c \in {"a", "/"}
    <2>1. Codec!UrlEncoded(c) = <<c>>
        BY <1>2 DEF Codec!UrlEncoded
    <2>2. <<c>> \in Seq(T)
        <3>1. c \in T
            BY <1>1, <1>2
        <3> QED BY <3>1, ShortTexts
    <2>3. c \notin {"%", "+"}
        BY <1>2
    <2> QED BY <2>1, <2>2, <2>3, Zenon DEF T, Decodes
<1>3. CASE c \notin {"a", "/"}
    <2>1. Codec!UrlEncoded(c) = Codec!Percent(c)
        BY <1>3 DEF Codec!UrlEncoded
    <2>2. PICK x \in Codec!Hex, y \in Codec!Hex : Codec!Percent(c) = <<"%", x, y>> /\ Codec!Byte[<<x, y>>] = c
        <3>1. \E h \in Codec!Hex \X Codec!Hex : Codec!Byte[h] = c
            BY <1>3 DEF PathCharacters
        <3> QED BY <3>1, PercentDecodes
    <2>3. x \in T /\ y \in T
        BY <1>1
    <2>4. <<"%", x, y>> \in Seq(T)
        BY <1>1, <2>3, ShortTexts
    <2> QED BY <2>1, <2>2, <2>4, Zenon DEF T, Decodes
<1> QED BY <1>2, <1>3

(* What the page writes of a path holds no delimiter, and urlDecode        *)
(* returns the path.                                                       *)
LEMMA UrlEncodedText ==
    ASSUME NEW a \in Seq(PathCharacters)
    PROVE  Codec!urlEncode(a) \in Seq(PathWritten) /\ Codec!urlDecode(Codec!urlEncode(a)) = a
<1> DEFINE T == PathWritten
           ss == [i \in DOMAIN a |-> Codec!UrlEncoded(a[i])]
           n == Len(a)
<1>1. n \in Nat /\ DOMAIN a = 1..n /\ \A i \in 1..n : a[i] \in PathCharacters
    BY LenProperties, ElementOfSeq
<1>2. \A i \in 1..n : Codec!UrlEncoded(a[i]) \in Seq(T) /\ Decodes(Codec!UrlEncoded(a[i]), a[i])
    BY <1>1, UrlEncodedIsWritten
<1> HIDE DEF n, T
<1>3. ss \in [1..n -> Seq(T)] /\ \A i \in 1..n : ss[i] = Codec!UrlEncoded(a[i])
    BY <1>1, <1>2
<1>4. Codec!urlEncode(a) = Codec!FlattenSeq(ss)
    BY DEF Codec!Each, Codec!urlEncode
<1> HIDE DEF ss
<1>5. ss \in Seq(Seq(T)) /\ Len(ss) = n
    BY <1>1, <1>3, TextsLine
<1>6. Codec!FlattenSeq(ss) \in Seq(T)
    BY <1>5, FlattenLies
<1>7. Codec!urlDecode(Codec!FlattenSeq(ss)) = a
    <2>1. Len(a) = Len(ss) /\ \A k \in 1..Len(ss) : Decodes(ss[k], a[k])
        BY <1>2, <1>3, <1>5 DEF n
    <2> QED BY <1>5, <2>1, UrlDecodes
<1> QED BY <1>4, <1>6, <1>7 DEF T

(* The page that asks for the sign-in gets back the path it was given.     *)
LEMMA PathsReturn ==
    ASSUME NEW a \in Seq(PathCharacters)
    PROVE  Codec!formValue(Codec!LoginQuery(a), <<"n">>) = a
<1> DEFINE T == PathWritten
           S == T \cup {"n", "="}
           va == Codec!urlEncode(a)
           form == <<"n", "=">> \o va
<1>1. va \in Seq(T) /\ Codec!urlDecode(va) = a
    BY UrlEncodedText
<1>2. "&" \notin T /\ "=" \notin T
    BY DEF PathWritten, Codec!Hex
<1>3. Codec!LoginQuery(a) = form
    BY DEF Codec!LoginQuery
<1>4. T \subseteq S /\ {"n", "="} \subseteq S
    OBVIOUS
<1> HIDE DEF va, T, S
<1>5. IsQuery(S, T, form, va, Len(va))
    BY <1>1, <1>4, QueryLayout
<1> HIDE DEF form
<1>6. Codec!formValue(form, <<"n">>) = Codec!urlDecode(va)
    BY <1>2, <1>5, QueryValues
<1> QED BY <1>1, <1>3, <1>6

-----------------------------------------------------------------------------
(* The settings as JSON. *)

(* The characters that end a JSON string and an object.                    *)
Quote == "\""
Brace == "}"

(* A quote is none of the characters that an escape is made of.            *)
LEMMA QuoteIsNone == Quote # "\\" /\ Quote # "\n" /\ Quote # "SOH" /\ Quote # "n" /\ Quote # "u"
BY Zenon DEF Quote

(* How a character may be written in a JSON string.                        *)
JsonDecodes(s, c) ==
    \/ s = <<c>> /\ c \notin {"\\", Quote}
    \/ s = <<"\\", c>> /\ c \notin {"n", "u"}
    \/ s = <<"\\", "n">> /\ c = "\n"
    \/ s = <<"\\", "u", "0", "0", "0", "1">> /\ c = "SOH"

JsonWritten(A) == A \cup {"\\", "n", "u", "0", "1"}

(* What jsonEscape writes of a character stands for it.                    *)
LEMMA JsonEscapedIsWritten ==
    ASSUME NEW A, NEW c \in A
    PROVE  Codec!JsonEscaped(c) \in Seq(JsonWritten(A)) /\ JsonDecodes(Codec!JsonEscaped(c), c)
<1> DEFINE T == JsonWritten(A)
<1>1. "\\" \in T /\ "n" \in T /\ "u" \in T /\ "0" \in T /\ "1" \in T /\ c \in T
    BY DEF JsonWritten
<1> HIDE DEF T
<1>2. CASE c \in {"\\", Quote}
    <2>1. Codec!JsonEscaped(c) = <<"\\", c>>
        BY <1>2, QuoteIsNone, Zenon DEF Codec!JsonEscaped, Quote
    <2>2. <<"\\", c>> \in Seq(T)
        BY <1>1, ShortTexts
    <2>3. c \notin {"n", "u"}
        BY <1>2, QuoteIsNone
    <2> QED BY <2>1, <2>2, <2>3, Zenon DEF T, JsonDecodes
<1>3. CASE c = "\n"
    <2>1. Codec!JsonEscaped(c) = <<"\\", "n">>
        BY <1>3 DEF Codec!JsonEscaped
    <2>2. <<"\\", "n">> \in Seq(T)
        BY <1>1, ShortTexts
    <2> QED BY <1>3, <2>1, <2>2, Zenon DEF T, JsonDecodes
<1>4. CASE c = "SOH"
    <2>1. Codec!JsonEscaped(c) = <<"\\", "u", "0", "0", "0", "1">>
        BY <1>4 DEF Codec!JsonEscaped
    <2>2. <<"\\", "u", "0", "0", "0", "1">> \in Seq(T)
        BY <1>1
    <2> QED BY <1>4, <2>1, <2>2, Zenon DEF T, JsonDecodes
<1>5. CASE c \notin {"\\", Quote, "\n", "SOH"}
    <2>1. Codec!JsonEscaped(c) = <<c>>
        BY <1>5, Zenon DEF Codec!JsonEscaped, Quote
    <2>2. <<c>> \in Seq(T)
        BY <1>1, ShortTexts
    <2>3. c \notin {"\\", Quote}
        BY <1>5
    <2> QED BY <2>1, <2>2, <2>3, Zenon DEF T, JsonDecodes
<1> QED BY <1>2, <1>3, <1>4, <1>5

(* jsonEscape writes at least one character for each.                      *)
LEMMA JsonTokens ==
    ASSUME NEW s, NEW c, JsonDecodes(s, c)
    PROVE  Len(s) >= 1
<1>1. CASE s = <<c>>
    BY <1>1
<1>2. CASE s = <<"\\", c>>
    BY <1>2
<1>3. CASE s = <<"\\", "n">>
    BY <1>3
<1>4. CASE s = <<"\\", "u", "0", "0", "0", "1">>
    BY <1>4
<1> QED BY <1>1, <1>2, <1>3, <1>4, Zenon DEF JsonDecodes

JsonSpells(ss, t) == Len(t) = Len(ss) /\ \A k \in 1..Len(ss) : JsonDecodes(ss[k], t[k])

(* JSON.parse reads what each token stands for, up to the quote that ends  *)
(* the string.                                                             *)
LEMMA JsonReads ==
    ASSUME NEW S, NEW ss \in Seq(Seq(S)), NEW D, NEW t \in Seq(D), Quote \in S, Brace \in S, JsonSpells(ss, t)
    PROVE  Codec!JsonParsed(Codec!FlattenSeq(ss) \o <<Quote, Brace>>) = t
<1> DEFINE e == Codec!FlattenSeq(ss)
           q == <<Quote, Brace>>
           in == e \o q
           escape(i) == in[i] = "\\" /\ i < Len(in)
           reads == [i \in DOMAIN in |->
                       IF in[i] = Quote THEN <<>> ELSE IF ~escape(i) THEN <<in[i]>>
                       ELSE CASE in[i + 1] = "n" -> <<"\n">> [] in[i + 1] = "u" -> <<"SOH">> [] OTHER -> <<in[i + 1]>>]
           next == [i \in DOMAIN in |->
                       IF in[i] = Quote THEN Len(in) + 1 ELSE IF ~escape(i) THEN i + 1
                       ELSE IF in[i + 1] = "u" THEN i + 6 ELSE i + 2]
<1>1. e \in Seq(S) /\ q \in Seq(S) /\ Len(q) = 2 /\ q[1] = Quote /\ Len(e) \in Nat
    <2>1. e \in Seq(S)
        BY FlattenLies
    <2>2. q \in Seq(S) /\ Len(q) = 2 /\ q[1] = Quote
        BY ShortTexts
    <2> QED BY <2>1, <2>2, LenProperties
<1>2. Codec!JsonParsed(in) = Codec!Walk(in, reads, next)[1]
    BY Zenon DEF Codec!JsonParsed, Quote
<1>3. IsMade(in, <<>>, e, q)
    <2>1. <<>> \o e = e
        BY <1>1, ConcatEmptySeq
    <2> HIDE DEF e, q
    <2> QED BY <2>1, Zenon DEF IsMade
<1>4. IsThree(S, in, <<>>, e, q)
    <2>1. <<>> \in Seq(S)
        BY EmptySeq
    <2> HIDE DEF e, q, in
    <2> QED BY <1>1, <1>3, <2>1, ThreeLie DEF IsMade
<1>5. in \in Seq(S) /\ Len(in) = Len(e) + 2 /\ in[Len(e) + 1] = Quote /\ DOMAIN in = 1..Len(in)
    <2>1. Len(<<>>) = 0
        OBVIOUS
    <2> HIDE DEF e, q, in
    <2>2. in \in Seq(S) /\ Len(in) = 0 + Len(e) + 2 /\ in[0 + Len(e) + 1] = q[1]
        <3>1. 1 \in 1..Len(q)
            BY <1>1
        <3> QED BY <1>1, <1>4, <2>1, <3>1, Zenon DEF IsThree
    <2>3. 0 + Len(e) + 2 = Len(e) + 2 /\ 0 + Len(e) + 1 = Len(e) + 1
        BY <1>1
    <2> QED BY <1>1, <2>2, <2>3, LenProperties
<1> HIDE DEF e, q, in
<1>6. ASSUME NEW i \in 1..Len(in)
      PROVE  /\ in[i] = Quote => next[i] = Len(in) + 1 /\ reads[i] = <<>>
             /\ in[i] # Quote /\ ~escape(i) => next[i] = i + 1 /\ reads[i] = <<in[i]>>
             /\ in[i] # Quote /\ escape(i) /\ in[i + 1] = "n" => next[i] = i + 2 /\ reads[i] = <<"\n">>
             /\ in[i] # Quote /\ escape(i) /\ in[i + 1] = "u" => next[i] = i + 6 /\ reads[i] = <<"SOH">>
             /\ in[i] # Quote /\ escape(i) /\ in[i + 1] \notin {"n", "u"} => next[i] = i + 2 /\ reads[i] = <<in[i + 1]>>
    <2> HIDE DEF escape
    <2> QED BY <1>5
<1> HIDE DEF reads, next
<1>7. Len(in) \in Nat
    BY <1>1, <1>5
<1>8. Goes(in, next)
    <2> SUFFICES ASSUME NEW i \in 1..Len(in) PROVE next[i] \in (i + 1)..(Len(in) + 6)
        BY DEF Goes
    <2>1. next[i] = Len(in) + 1 \/ next[i] = i + 1 \/ next[i] = i + 2 \/ next[i] = i + 6
        <3> HIDE DEF escape
        <3> QED BY <1>6
    <2> QED BY <1>7, <2>1
<1>9. ReadsEach(in, reads, next, ss, t)
    <2>0. \A i \in 1..Len(in) : i \in Nat
        BY <1>7
    <2> SUFFICES ASSUME NEW k \in 1..Len(ss), NEW i \in Nat, i \in 1..Len(in), Stands(in, i, ss[k])
                 PROVE  next[i] = i + Len(ss[k]) /\ reads[i] = <<t[k]>>
        BY <2>0, Zenon DEF ReadsEach, JsonSpells
    <2> DEFINE c == t[k]
               s == ss[k]
    <2>1. \A m \in 1..Len(s) : in[i + m - 1] = s[m]
        BY Zenon DEF Stands
    <2>2. i + Len(s) - 1 <= Len(in)
        BY Zenon DEF Stands
    <2>3. JsonDecodes(s, c)
        BY Zenon DEF JsonSpells
    <2>4. i + 1 - 1 = i /\ i + 2 - 1 = i + 1
        OBVIOUS
    <2> HIDE DEF c, s
    <2>5. CASE s = <<c>> /\ c \notin {"\\", Quote}
        <3>1. Len(s) = 1 /\ 1 \in 1..Len(s) /\ s[1] = c
            BY <2>5
        <3>2. in[i] = c
            BY <2>1, <2>4, <3>1, Zenon
        <3>3. next[i] = i + 1 /\ reads[i] = <<c>>
            BY <1>6, <2>5, <3>2
        <3> QED BY <3>1, <3>3 DEF c, s
    <2>6. CASE s = <<"\\", c>> /\ c \notin {"n", "u"}
        <3>1. Len(s) = 2 /\ 1 \in 1..Len(s) /\ 2 \in 1..Len(s) /\ s[1] = "\\" /\ s[2] = c
            BY <2>6
        <3>2. in[i] = "\\" /\ in[i + 1] = c
            BY <2>1, <2>4, <3>1, Zenon
        <3>3. escape(i)
            BY <1>7, <2>2, <3>1, <3>2
        <3>4. next[i] = i + 2 /\ reads[i] = <<c>>
            <4> HIDE DEF escape
            <4> QED BY <1>6, <2>6, <3>2, <3>3, QuoteIsNone
        <3> QED BY <3>1, <3>4 DEF c, s
    <2>7. CASE s = <<"\\", "n">> /\ c = "\n"
        <3>1. Len(s) = 2 /\ 1 \in 1..Len(s) /\ 2 \in 1..Len(s) /\ s[1] = "\\" /\ s[2] = "n"
            BY <2>7
        <3>2. in[i] = "\\" /\ in[i + 1] = "n"
            BY <2>1, <2>4, <3>1, Zenon
        <3>3. escape(i)
            BY <1>7, <2>2, <3>1, <3>2
        <3>4. next[i] = i + 2 /\ reads[i] = <<"\n">>
            <4> HIDE DEF escape
            <4> QED BY <1>6, <3>2, <3>3, QuoteIsNone
        <3> QED BY <2>7, <3>1, <3>4 DEF c, s
    <2>8. CASE s = <<"\\", "u", "0", "0", "0", "1">> /\ c = "SOH"
        <3>1. Len(s) = 6 /\ 1 \in 1..Len(s) /\ 2 \in 1..Len(s) /\ s[1] = "\\" /\ s[2] = "u"
            BY <2>8
        <3>2. in[i] = "\\" /\ in[i + 1] = "u"
            BY <2>1, <2>4, <3>1, Zenon
        <3>3. escape(i)
            BY <1>7, <2>2, <3>1, <3>2
        <3>4. next[i] = i + 6 /\ reads[i] = <<"SOH">>
            <4> HIDE DEF escape
            <4> QED BY <1>6, <3>2, <3>3, QuoteIsNone
        <3> QED BY <2>8, <3>1, <3>4 DEF c, s
    <2> QED BY <2>3, <2>5, <2>6, <2>7, <2>8, Zenon DEF JsonDecodes
<1> DEFINE w == Codec!Walk(in, reads, next)
<1>10. Recurs(w, in, reads, next)
    BY <1>5, <1>8, WalkRecurs
<1>11. w[Len(<<>>) + Len(e) + 1] = <<>>
    <2>1. Len(e) + 1 \in 1..Len(in) /\ Len(in) + 1 \in (Len(in) + 1)..(Len(in) + 6)
        BY <1>1, <1>5, <1>7
    <2>2. w[Len(in) + 1] = <<>>
        BY <1>5, <1>8, <2>1, WalkEnds
    <2> HIDE DEF w, escape
    <2>3. next[Len(e) + 1] = Len(in) + 1 /\ reads[Len(e) + 1] = <<>>
        BY <1>5, <1>6, <2>1, Zenon
    <2>4. w[Len(e) + 1] = <<>> \o <<>>
        BY <1>10, <2>1, <2>2, <2>3, Zenon DEF Recurs
    <2>5. Len(<<>>) + Len(e) + 1 = Len(e) + 1 /\ <<>> \o <<>> = <<>>
        BY <1>1
    <2> QED BY <2>4, <2>5, Zenon
<1>12. ASSUME NEW k \in 1..Len(ss) PROVE Len(ss[k]) >= 1
    BY JsonTokens DEF JsonSpells
<1> HIDE DEF w
<1> DEFINE p == <<>>
           end == <<>>
<1>13. Walks(S, p, ss, q, in, reads, next, w, D, end)
    <2>1. <<>> \in Seq(S) /\ <<>> \in Seq(D)
        BY EmptySeq
    <2>2. IsMade(in, <<>>, Codec!FlattenSeq(ss), q)
        BY <1>3 DEF e
    <2>3. w[Len(<<>>) + Len(Codec!FlattenSeq(ss)) + 1] = <<>>
        BY <1>11 DEF e
    <2> QED BY <1>1, <1>10, <1>12, <2>1, <2>2, <2>3, Zenon DEF Walks
<1>14. w[Len(p) + 1] = t \o end
    <2> HIDE DEF p, end, escape
    <2> QED BY <1>9, <1>13, ReadThrough
<1>15. t \o <<>> = t /\ Len(<<>>) + 1 = 1
    BY ConcatEmptySeq
<1>16. Codec!JsonParsed(in) = t
    BY <1>2, <1>14, <1>15 DEF w
<1> QED BY <1>16 DEF in, e, q

(* JSON.parse returns the text that jsonEscape wrote.                      *)
LEMMA JsonText ==
    ASSUME NEW A, NEW a \in Seq(A)
    PROVE  Codec!JsonParsed(Codec!jsonEscape(a) \o <<Quote, Brace>>) = a
<1> DEFINE T == JsonWritten(A)
           S == T \cup {Quote, Brace}
           ss == [i \in DOMAIN a |-> Codec!JsonEscaped(a[i])]
           n == Len(a)
<1>1. n \in Nat /\ DOMAIN a = 1..n /\ \A i \in 1..n : a[i] \in A
    BY LenProperties, ElementOfSeq
<1>2. \A i \in 1..n : Codec!JsonEscaped(a[i]) \in Seq(T) /\ JsonDecodes(Codec!JsonEscaped(a[i]), a[i])
    BY <1>1, JsonEscapedIsWritten
<1>3. T \subseteq S /\ Quote \in S /\ Brace \in S
    OBVIOUS
<1> HIDE DEF n, T, S
<1>4. \A i \in 1..n : Codec!JsonEscaped(a[i]) \in Seq(S)
    <2> SUFFICES ASSUME NEW i \in 1..n PROVE Codec!JsonEscaped(a[i]) \in Seq(S)
        OBVIOUS
    <2>1. Codec!JsonEscaped(a[i]) \in Seq(T)
        BY <1>2
    <2> QED BY <1>3, <2>1, SeqMonotonic
<1>5. ss \in [1..n -> Seq(S)] /\ \A i \in 1..n : ss[i] = Codec!JsonEscaped(a[i])
    BY <1>1, <1>4
<1>6. Codec!jsonEscape(a) = Codec!FlattenSeq(ss)
    BY DEF Codec!Each, Codec!jsonEscape
<1> HIDE DEF ss
<1>7. ss \in Seq(Seq(S)) /\ Len(ss) = n
    BY <1>1, <1>5, TextsLine
<1>8. JsonSpells(ss, a)
    BY <1>2, <1>5, <1>7 DEF JsonSpells, n
<1>9. Codec!JsonParsed(Codec!FlattenSeq(ss) \o <<Quote, Brace>>) = a
    BY <1>3, <1>7, <1>8, JsonReads
<1> QED BY <1>6, <1>9

-----------------------------------------------------------------------------
(* Where a walk reads character by character.                              *)
PlainFrom(in, reads, next, m, t) ==
    \A k \in 1..Len(t) : m + k \in 1..Len(in) /\ next[m + k] = m + k + 1 /\ reads[m + k] = <<t[k]>>

PlainWalks(in, reads, next, w, D, t, m, end) ==
    /\ m \in Nat /\ t \in Seq(D) /\ end \in Seq(D) /\ Recurs(w, in, reads, next)
    /\ PlainFrom(in, reads, next, m, t) /\ w[m + Len(t) + 1] = end

(* A walk that copies a stretch of a text returns it, and goes on behind   *)
(* it.                                                                     *)
LEMMA PlainThrough ==
    ASSUME NEW in, NEW reads, NEW next, NEW w, NEW D, NEW t, NEW m, NEW end,
           PlainWalks(in, reads, next, w, D, t, m, end)
    PROVE  w[m + 1] = t \o end
<1>a. m \in Nat /\ t \in Seq(D) /\ end \in Seq(D)
    BY Zenon DEF PlainWalks
<1>b. Recurs(w, in, reads, next)
    BY Zenon DEF PlainWalks
<1>c. PlainFrom(in, reads, next, m, t) /\ w[m + Len(t) + 1] = end
    BY Zenon DEF PlainWalks
<1>1. PICK rest : TailsOf(rest, t, D)
    BY <1>a, Tails
<1>2. PICK n \in Nat : n = Len(t)
    BY <1>a, LenProperties
<1> DEFINE places == [k \in 1..(n + 1) |-> m + k]
<1>3. 1 \in 1..(n + 1) /\ n + 1 \in 1..(n + 1) /\ m + (n + 1) = m + n + 1
      /\ \A k \in 1..n : k \in 1..(n + 1) /\ k + 1 \in 1..(n + 1) /\ m + (k + 1) = m + k + 1
    BY <1>a
<1>4. places[1] = m + 1 /\ places[n + 1] = m + n + 1
      /\ \A k \in 1..n : places[k] = m + k /\ places[k + 1] = m + k + 1
    BY <1>3
<1> HIDE DEF places
<1>5. Rests(rest, n, D)
    BY <1>1, <1>2, Zenon DEF TailsOf
<1>6. Along(reads, next, places, rest, n, Len(in), D)
    <2> SUFFICES ASSUME NEW k \in 1..n
                 PROVE  /\ places[k] \in 1..Len(in) /\ next[places[k]] = places[k + 1]
                        /\ reads[places[k]] \in Seq(D) /\ rest[k] = reads[places[k]] \o rest[k + 1]
        BY Zenon DEF Along
    <2>1. m + k \in 1..Len(in) /\ next[m + k] = m + k + 1 /\ reads[m + k] = <<t[k]>>
        BY <1>2, <1>c, Zenon DEF PlainFrom
    <2>2. <<t[k]>> \in Seq(D) /\ rest[k] = <<t[k]>> \o rest[k + 1]
        BY <1>1, <1>2, Zenon DEF TailsOf
    <2> QED BY <1>4, <2>1, <2>2, Zenon
<1>7. w[places[n + 1]] = end
    BY <1>2, <1>4, <1>c, Zenon
<1>8. w[places[1]] = rest[1] \o end
    BY <1>a, <1>b, <1>5, <1>6, <1>7, WalkAlong
<1>9. rest[1] = t
    BY <1>1, Zenon DEF TailsOf
<1> QED BY <1>4, <1>8, <1>9, Zenon

(* Where two characters stand.                                             *)
LEMMA HoldsTwo ==
    ASSUME NEW S, NEW in \in Seq(S), NEW i \in Nat, i \in 1..Len(in), NEW c, NEW d
    PROVE  Codec!Holds(in, i, <<c, d>>) <=> i + 1 <= Len(in) /\ in[i] = c /\ in[i + 1] = d
<1> DEFINE v == <<c, d>>
           b == i + 1
<1>1. Len(v) = 2 /\ v[1] = c /\ v[2] = d /\ v \in Seq({c, d})
    OBVIOUS
<1> HIDE DEF v
<1>2. i + Len(v) - 1 = b
    BY <1>1
<1>3. Codec!Holds(in, i, v) <=> b <= Len(in) /\ SubSeq(in, i, b) = v
    BY <1>2, Zenon DEF Codec!Holds
<1>4. Len(in) \in Nat
    BY LenProperties
<1>5. ASSUME b <= Len(in), SubSeq(in, i, b) = v PROVE in[i] = c /\ in[b] = d
    <2>1. \A j \in i..b : in[j] \in S
        <3> SUFFICES ASSUME NEW j \in i..b PROVE in[j] \in S
            OBVIOUS
        <3>1. j \in 1..Len(in)
            BY <1>4, <1>5
        <3> QED BY <3>1, ElementOfSeq
    <2>2. i \in Int /\ b \in Int /\ b - i + 1 = 2 /\ i + 1 - 1 = i /\ i + 2 - 1 = b
        OBVIOUS
    <2> HIDE DEF b
    <2>3. \A j \in 1..(b - i + 1) : SubSeq(in, i, b)[j] = in[i + j - 1]
        BY <2>1, <2>2, SubSeqProperties
    <2>4. 1 \in 1..(b - i + 1) /\ 2 \in 1..(b - i + 1)
        BY <2>2
    <2>5. v[1] = in[i] /\ v[2] = in[b]
        BY <1>5, <2>2, <2>3, <2>4, Zenon
    <2> QED BY <1>1, <2>5
<1>6. ASSUME b <= Len(in), in[i] = c, in[b] = d PROVE SubSeq(in, i, b) = v
    <2> DEFINE m == i - 1
    <2>1. m \in Nat /\ m + Len(v) <= Len(in) /\ m + 1 = i /\ m + Len(v) = b
        BY <1>1, <1>6
    <2>2. \A j \in 1..Len(v) : in[m + j] = v[j]
        BY <1>1, <1>6
    <2> HIDE DEF m, b
    <2>3. SubSeq(in, m + 1, m + Len(v)) = v
        BY <1>1, <2>1, <2>2, PartIs
    <2> QED BY <2>1, <2>3
<1> QED BY <1>3, <1>5, <1>6 DEF v, b

-----------------------------------------------------------------------------
(* The page that confirms a save. *)

(* A token that stands in a text once is replaced, and nothing else.       *)
Replaces(S, p, c, d, q, value) ==
    /\ p \in Seq(S) /\ q \in Seq(S) /\ value \in Seq(S) /\ c \in S /\ d \in S
    /\ \A i \in 1..Len(p) : p[i] # c
    /\ \A i \in 1..Len(q) : ~(i + 1 <= Len(q) /\ q[i] = c /\ q[i + 1] = d)

(* in is a text with the token v between p and q.                          *)
ReplacesIn(S, in, v, p, c, d, q, value) == in = p \o v \o q /\ v = <<c, d>> /\ Replaces(S, p, c, d, q, value)

(* replaceAll replaces the one token that a text holds.                    *)
LEMMA ReplacesOne ==
    ASSUME NEW S, NEW in, NEW v, NEW p, NEW c, NEW d, NEW q, NEW value, ReplacesIn(S, in, v, p, c, d, q, value)
    PROVE  Codec!replaceAll(in, v, value) = p \o (value \o q)
<1> DEFINE held(i) == Codec!Holds(in, i, v)
           reads == [i \in DOMAIN in |-> IF held(i) THEN value ELSE <<in[i]>>]
           next == [i \in DOMAIN in |-> IF held(i) THEN i + Len(v) ELSE i + 1]
           w == Codec!Walk(in, reads, next)
           lp == Len(p)
           lq == Len(q)
<1>1. /\ p \in Seq(S) /\ q \in Seq(S) /\ value \in Seq(S) /\ c \in S /\ d \in S
      /\ \A i \in 1..lp : p[i] # c
      /\ \A i \in 1..lq : ~(i + 1 <= lq /\ q[i] = c /\ q[i + 1] = d)
    BY Zenon DEF Replaces, ReplacesIn
<1>m. in = p \o v \o q
    BY Zenon DEF ReplacesIn
<1>t. v = <<c, d>>
    BY Zenon DEF ReplacesIn
<1>2. v \in Seq(S) /\ Len(v) = 2 /\ v[1] = c /\ v[2] = d
    <2>1. <<c, d>> \in Seq(S) /\ Len(<<c, d>>) = 2 /\ <<c, d>>[1] = c /\ <<c, d>>[2] = d
        BY <1>1, ShortTexts
    <2> QED BY <1>t, <2>1, Zenon
<1>3. lp \in Nat /\ lq \in Nat
    BY <1>1, LenProperties
<1>4. Codec!replaceAll(in, v, value) = w[1]
    BY Zenon DEF Codec!replaceAll
<1>5. \A i \in Nat : i \in 1..Len(in) => (held(i) <=> i + 1 <= Len(in) /\ in[i] = c /\ in[i + 1] = d)
    <2> SUFFICES ASSUME NEW i \in Nat, i \in 1..Len(in)
                 PROVE  held(i) <=> i + 1 <= Len(in) /\ in[i] = c /\ in[i + 1] = d
        OBVIOUS
    <2>1. in \in Seq(S)
        <3>1. IsThree(S, p \o v \o q, p, v, q)
            BY <1>1, <1>2, ThreeLie
        <3> QED BY <1>m, <3>1, Zenon DEF IsThree
    <2>2. Codec!Holds(in, i, <<c, d>>) <=> i + 1 <= Len(in) /\ in[i] = c /\ in[i + 1] = d
        BY <2>1, HoldsTwo
    <2> QED BY <1>t, <2>2, Zenon
<1>6. IsThree(S, in, p, v, q)
    <2>1. IsThree(S, p \o v \o q, p, v, q)
        BY <1>1, <1>2, ThreeLie
    <2> QED BY <1>m, <2>1, Zenon
<1>7. /\ in \in Seq(S) /\ Len(in) = lp + Len(v) + lq
      /\ \A i \in 1..lp : in[i] = p[i]
      /\ \A i \in 1..Len(v) : in[lp + i] = v[i]
      /\ \A i \in 1..lq : in[lp + Len(v) + i] = q[i]
    BY <1>6, Zenon DEF IsThree
<1> HIDE DEF lp, lq, held
<1>8. /\ Len(in) = lp + lq + 2 /\ in[lp + 1] = c /\ in[lp + 2] = d
      /\ \A i \in 1..lq : in[lp + 2 + i] = q[i]
    BY <1>2, <1>3, <1>7
<1>9. DOMAIN in = 1..Len(in) /\ Len(in) \in Nat /\ \A i \in 1..Len(in) : i \in Nat
    BY <1>7, LenProperties
<1>10. ASSUME NEW i \in 1..Len(in)
       PROVE  /\ held(i) => next[i] = i + 2 /\ reads[i] = value
              /\ ~held(i) => next[i] = i + 1 /\ reads[i] = <<in[i]>>
    BY <1>2, <1>9
<1> HIDE DEF reads, next
<1>11. Goes(in, next)
    <2> SUFFICES ASSUME NEW i \in 1..Len(in) PROVE next[i] \in (i + 1)..(Len(in) + 6)
        BY Zenon DEF Goes
    <2>1. next[i] = i + 1 \/ next[i] = i + 2
        BY <1>10
    <2> QED BY <1>9, <2>1
<1>12. Recurs(w, in, reads, next)
    BY <1>7, <1>11, WalkRecurs
<1>13. w[Len(in) + 1] = <<>>
    <2>1. Len(in) + 1 \in (Len(in) + 1)..(Len(in) + 6)
        BY <1>9
    <2> QED BY <1>7, <1>11, <2>1, WalkEnds
<1> HIDE DEF w
<1>14. ASSUME NEW i \in 1..lq
       PROVE  /\ lp + 2 + i \in 1..Len(in) /\ next[lp + 2 + i] = lp + 2 + i + 1 /\ reads[lp + 2 + i] = <<q[i]>>
    <2> DEFINE j == lp + 2 + i
    <2>1. j \in 1..Len(in) /\ in[j] = q[i] /\ (j + 1 <= Len(in) => i + 1 \in 1..lq /\ j + 1 = lp + 2 + (i + 1))
        BY <1>3, <1>8
    <2>2. j + 1 <= Len(in) => in[j + 1] = q[i + 1] /\ i + 1 <= lq
        BY <1>3, <1>8, <2>1
    <2>3. ~held(j)
        <3> HIDE DEF j
        <3> QED BY <1>1, <1>5, <1>9, <2>1, <2>2, Zenon DEF lq
    <2> HIDE DEF j
    <2>4. next[j] = j + 1 /\ reads[j] = <<q[i]>>
        BY <1>10, <2>1, <2>3
    <2> QED BY <2>1, <2>4 DEF j
<1>15. w[lp + 3] = q
    <2> DEFINE m == lp + 2
               end == <<>>
    <2>1. PlainFrom(in, reads, next, m, q)
        BY <1>14, Zenon DEF PlainFrom, lq
    <2>2. end \in Seq(S) /\ m \in Nat /\ m + lq + 1 = Len(in) + 1 /\ m + 1 = lp + 3
        BY <1>3, <1>8
    <2>3. w[m + Len(q) + 1] = end
        BY <1>13, <2>2 DEF lq
    <2>4. q \o end = q
        BY <1>1, ConcatEmptySeq
    <2> HIDE DEF m, end
    <2>5. PlainWalks(in, reads, next, w, S, q, m, end)
        BY <1>1, <1>12, <2>1, <2>2, <2>3, Zenon DEF PlainWalks
    <2>6. w[m + 1] = q \o end
        BY <2>5, PlainThrough
    <2> QED BY <2>2, <2>4, <2>6, Zenon DEF end
<1>16. w[lp + 1] = value \o q
    <2> DEFINE j == lp + 1
    <2>1. j \in 1..Len(in) /\ j + 1 <= Len(in) /\ in[j] = c /\ in[j + 1] = d /\ j + 2 = lp + 3
        <3>1. j + 1 = lp + 2
            BY <1>3
        <3> QED BY <1>3, <1>8, <3>1
    <2> HIDE DEF j
    <2>2. held(j)
        BY <1>5, <1>9, <2>1, Zenon
    <2>3. next[j] = lp + 3 /\ reads[j] = value
        BY <1>10, <2>1, <2>2, Zenon
    <2>4. w[j] = value \o q
        BY <1>12, <1>15, <2>1, <2>3, Zenon DEF Recurs
    <2> QED BY <2>4 DEF j
<1>17. ASSUME NEW i \in 1..lp
       PROVE  0 + i \in 1..Len(in) /\ next[0 + i] = 0 + i + 1 /\ reads[0 + i] = <<p[i]>>
    <2>1. i \in 1..Len(in) /\ in[i] = p[i] /\ in[i] # c
        BY <1>1, <1>3, <1>7, <1>8 DEF lp
    <2>2. ~held(i)
        BY <1>5, <1>9, <2>1, Zenon
    <2>3. next[i] = i + 1 /\ reads[i] = <<p[i]>>
        BY <1>10, <2>1, <2>2
    <2>4. 0 + i = i
        OBVIOUS
    <2> QED BY <2>1, <2>3, <2>4
<1>18. w[1] = p \o (value \o q)
    <2> DEFINE m == 0
               end == value \o q
    <2>1. PlainFrom(in, reads, next, m, p)
        BY <1>17, Zenon DEF PlainFrom, lp
    <2>2. m \in Nat /\ m + 1 = 1 /\ m + Len(p) + 1 = lp + 1
        BY <1>3 DEF lp
    <2>3. end \in Seq(S)
        BY <1>1, ConcatProperties
    <2> HIDE DEF m, end
    <2>4. w[m + Len(p) + 1] = end
        BY <1>16, <2>2 DEF end
    <2>5. PlainWalks(in, reads, next, w, S, p, m, end)
        BY <1>1, <1>12, <2>1, <2>2, <2>3, <2>4, Zenon DEF PlainWalks
    <2>6. w[m + 1] = p \o end
        BY <2>5, PlainThrough
    <2> QED BY <2>2, <2>6, Zenon DEF end
<1> QED BY <1>4, <1>18

(* A text of which each character is written as it is.                     *)
LEMMA FlatSingles ==
    ASSUME NEW S, NEW t \in Seq(S), NEW ss \in Seq(Seq(S)), Len(ss) = Len(t), \A k \in 1..Len(t) : ss[k] = <<t[k]>>
    PROVE  Codec!FlattenSeq(ss) = t
<1>1. PICK n \in Nat : n = Len(t)
    BY LenProperties
<1> DEFINE x == Codec!FlattenSeq(ss)
<1>2. x \in Seq(S) /\ \E off : Lies(ss, Len(ss), off, x)
    BY FlattenLies
<1>3. PICK off : Lies(ss, n, off, x)
    BY <1>1, <1>2
<1>4. ASSUME NEW k \in 1..n PROVE Len(ss[k]) = 1 /\ ss[k][1] = t[k]
    <2>1. ss[k] = <<t[k]>>
        BY <1>1, Zenon
    <2> DEFINE c == t[k]
    <2>2. Len(<<c>>) = 1 /\ <<c>>[1] = c
        OBVIOUS
    <2> QED BY <2>1, <2>2, Zenon
<1> HIDE DEF x
<1>5. off \in [1..(n + 1) -> Nat] /\ off[1] = 0 /\ off[n + 1] = Len(x)
    BY <1>3 DEF Lies
<1>6. \A k \in 1..n : off[k + 1] = off[k] + 1 /\ x[off[k] + 1] = t[k]
    <2> SUFFICES ASSUME NEW k \in 1..n PROVE off[k + 1] = off[k] + 1 /\ x[off[k] + 1] = t[k]
        OBVIOUS
    <2>1. off[k + 1] = off[k] + Len(ss[k]) /\ \A j \in 1..Len(ss[k]) : x[off[k] + j] = ss[k][j]
        BY <1>3, Zenon DEF Lies
    <2>2. Len(ss[k]) = 1 /\ ss[k][1] = t[k]
        BY <1>4
    <2>3. 1 \in 1..1
        OBVIOUS
    <2> QED BY <2>1, <2>2, <2>3, Zenon
<1> DEFINE T == {k \in 1..(n + 1) : off[k] # k - 1}
<1>7. T = {}
    <2> SUFFICES ASSUME T # {} PROVE FALSE
        OBVIOUS
    <2>1. T \in SUBSET Nat
        OBVIOUS
    <2>2. PICK d \in T : \A y \in T : d <= y
        BY <2>1, LeastNatural
    <2>3. d \in 1..(n + 1) /\ d # 1 /\ off[d] # d - 1
        BY <1>5, <2>2
    <2>4. d - 1 \in 1..n /\ d - 1 \in 1..(n + 1) /\ d - 1 + 1 = d
        BY <2>3
    <2>5. d - 1 \notin T
        <3> HIDE DEF T
        <3> QED BY <2>2, <2>3
    <2>6. off[d - 1] = d - 1 - 1
        BY <2>4, <2>5
    <2>7. off[d] = off[d - 1] + 1
        BY <1>6, <2>4, Zenon
    <2> QED BY <2>3, <2>6, <2>7
<1>8. \A k \in 1..(n + 1) : off[k] = k - 1
    BY <1>7
<1>9. Len(x) = n
    <2>1. n + 1 \in 1..(n + 1)
        OBVIOUS
    <2> QED BY <1>5, <1>8, <2>1
<1>10. \A k \in 1..n : x[k] = t[k]
    <2> SUFFICES ASSUME NEW k \in 1..n PROVE x[k] = t[k]
        OBVIOUS
    <2>1. off[k] + 1 = k
        BY <1>8
    <2> QED BY <1>6, <2>1
<1>11. x \in Seq(S)
    BY <1>2
<1> QED BY <1>1, <1>9, <1>10, <1>11, SeqEqual DEF x

(* What follows the ampersand in an entity.                                *)
AmpText == "amp;"
LtText == "lt;"

(* The two entities differ.                                                *)
LEMMA EntityTexts ==
    /\ AmpText # LtText /\ DOMAIN Codec!Entity = {"&", "<"}
    /\ Codec!Entity["&"] = <<"&", AmpText>> /\ Codec!Entity["<"] = <<"&", LtText>>
<1>1. AmpText # LtText
    BY Zenon DEF AmpText, LtText
<1>2. Codec!Entity = [c \in {"&", "<"} |-> IF c = "&" THEN <<"&", AmpText>> ELSE <<"&", LtText>>]
    BY Zenon DEF AmpText, LtText, Codec!Entity
<1> QED BY <1>1, <1>2

Entities(in, i) == {c \in DOMAIN Codec!Entity : Codec!Holds(in, i, Codec!Entity[c])}

(* An entity is shown only where an ampersand and its name stand.          *)
LEMMA EntitiesAt ==
    ASSUME NEW S, NEW in \in Seq(S), NEW i \in Nat, i \in 1..Len(in)
    PROVE  /\ in[i] # "&" => Entities(in, i) = {}
           /\ in[i] = "&" /\ i + 1 <= Len(in) /\ in[i + 1] = AmpText => Entities(in, i) = {"&"}
           /\ in[i] = "&" /\ i + 1 <= Len(in) /\ in[i + 1] = LtText => Entities(in, i) = {"<"}
<1>1. Codec!Holds(in, i, <<"&", AmpText>>) <=> i + 1 <= Len(in) /\ in[i] = "&" /\ in[i + 1] = AmpText
    BY HoldsTwo
<1>2. Codec!Holds(in, i, <<"&", LtText>>) <=> i + 1 <= Len(in) /\ in[i] = "&" /\ in[i + 1] = LtText
    BY HoldsTwo
<1>3. \A c : c \in Entities(in, i) <=> c \in {"&", "<"} /\ Codec!Holds(in, i, Codec!Entity[c])
    BY EntityTexts, Zenon DEF Entities
<1>4. "&" \in Entities(in, i) <=> i + 1 <= Len(in) /\ in[i] = "&" /\ in[i + 1] = AmpText
    <2>1. "&" \in {"&", "<"}
        OBVIOUS
    <2> QED BY <1>1, <1>3, <2>1, EntityTexts, Zenon
<1>5. "<" \in Entities(in, i) <=> i + 1 <= Len(in) /\ in[i] = "&" /\ in[i + 1] = LtText
    <2>1. "<" \in {"&", "<"}
        OBVIOUS
    <2> QED BY <1>2, <1>3, <2>1, EntityTexts, Zenon
<1>6. AmpText # LtText /\ \A c \in Entities(in, i) : c = "&" \/ c = "<"
    BY <1>3, EntityTexts
<1> DEFINE es == Entities(in, i)
<1> HIDE DEF es
<1>7. "&" \in es <=> i + 1 <= Len(in) /\ in[i] = "&" /\ in[i + 1] = AmpText
    BY <1>4 DEF es
<1>8. "<" \in es <=> i + 1 <= Len(in) /\ in[i] = "&" /\ in[i + 1] = LtText
    BY <1>5 DEF es
<1>9. \A c \in es : c = "&" \/ c = "<"
    BY <1>6 DEF es
<1>10. in[i] # "&" => es = {}
    BY <1>7, <1>8, <1>9
<1>11. in[i] = "&" /\ i + 1 <= Len(in) /\ in[i + 1] = AmpText => es = {"&"}
    BY <1>6, <1>7, <1>8, <1>9
<1>12. in[i] = "&" /\ i + 1 <= Len(in) /\ in[i + 1] = LtText => es = {"<"}
    BY <1>6, <1>7, <1>8, <1>9
<1> QED BY <1>10, <1>11, <1>12 DEF es

(* A device name's normal form has no character that is written otherwise. *)
LabelCharacters == {"n", "u", "0", "-"}

(* A device name's label is made of a label's characters, whatever was     *)
(* typed.                                                                  *)
LEMMA LabelIsPlain ==
    ASSUME NEW A, NEW in \in Seq(A)
    PROVE  Codec!Label(in) \in Seq(LabelCharacters)
<1> DEFINE spaces == {" ", "\n"}
           kept == {i \in DOMAIN in : (\E j \in 1..i : in[j] \notin spaces) /\ (\E j \in i..Len(in) : in[j] \notin spaces)}
           plain == [i \in DOMAIN in |-> IF in[i] = "N" THEN "n" ELSE IF in[i] \in {"n", "u", "0"} THEN in[i] ELSE "-"]
           lo == CHOOSE i \in kept : \A j \in kept : i <= j
           hi == CHOOSE i \in kept : \A j \in kept : i >= j
           n == Len(in)
<1>1. Codec!Label(in) = IF kept = {} THEN <<>> ELSE SubSeq(plain, lo, hi)
    BY Zenon DEF Codec!Label
<1>2. n \in Nat /\ DOMAIN in = 1..n
    BY LenProperties
<1> HIDE DEF spaces
<1>3. kept \subseteq 1..n
    BY <1>2, Zenon
<1>4. \A i \in 1..n : plain[i] \in LabelCharacters
    BY <1>2 DEF LabelCharacters
<1> HIDE DEF kept, plain, n
<1>5. CASE kept = {}
    BY <1>1, <1>5
<1>6. CASE kept # {}
    <2>1. \E i \in kept : \A j \in kept : i <= j
        <3>1. kept \in SUBSET Nat
            BY <1>2, <1>3
        <3> QED BY <1>6, <3>1, LeastNatural
    <2>2. \E i \in kept : \A j \in kept : i >= j
        <3> DEFINE T == {d \in 0..n : n - d \in kept}
        <3>1. T \in SUBSET Nat
            OBVIOUS
        <3>2. T # {}
            <4>1. PICK i : i \in kept
                BY <1>6
            <4>2. i \in 1..n
                BY <1>3, <4>1
            <4>3. n - i \in 0..n /\ n - (n - i) = i
                BY <1>2, <4>2
            <4> QED BY <4>1, <4>3
        <3>3. PICK d \in T : \A y \in T : d <= y
            BY <3>1, <3>2, LeastNatural
        <3>4. n - d \in kept
            BY <3>3
        <3>5. ASSUME NEW j \in kept PROVE n - d >= j
            <4>1. j \in 1..n
                BY <1>3
            <4>2. n - j \in 0..n /\ n - (n - j) = j
                BY <1>2, <4>1
            <4>3. n - j \in T
                BY <4>2
            <4>4. d <= n - j /\ d \in 0..n
                BY <3>3, <4>3
            <4> QED BY <1>2, <4>1, <4>4
        <3> QED BY <3>4, <3>5
    <2>3. lo \in kept
        BY <2>1, Zenon
    <2>4. hi \in kept
        BY <2>2, Zenon
    <2> HIDE DEF lo, hi
    <2>5. lo \in 1..n /\ hi \in 1..n
        BY <1>3, <2>3, <2>4
    <2>6. lo \in Int /\ hi \in Int /\ \A i \in lo..hi : plain[i] \in LabelCharacters
        BY <1>2, <1>4, <2>5
    <2>7. SubSeq(plain, lo, hi) \in Seq(LabelCharacters)
        <3> HIDE DEF LabelCharacters
        <3> QED BY <2>6, SubSeqProperties
    <2> QED BY <1>1, <1>6, <2>7
<1> QED BY <1>5, <1>6

(* How a character may be written in a page.                               *)
HtmlDecodes(s, c) ==
    \/ s = <<c>> /\ c \notin {"&", "<"}
    \/ s = <<"&", AmpText>> /\ c = "&"
    \/ s = <<"&", LtText>> /\ c = "<"

HtmlWritten(A) == A \cup {"&", AmpText, LtText}
HtmlSpells(ss, t) == Len(t) = Len(ss) /\ \A k \in 1..Len(ss) : HtmlDecodes(ss[k], t[k])
NoEntity(t) == \A i \in 1..Len(t) : t[i] \notin {"&", "<"}

(* What htmlEscape writes of a character stands for it.                    *)
LEMMA HtmlEscapedIsWritten ==
    ASSUME NEW A, NEW c \in A
    PROVE  Codec!HtmlEscaped(c) \in Seq(HtmlWritten(A)) /\ HtmlDecodes(Codec!HtmlEscaped(c), c)
<1> DEFINE T == HtmlWritten(A)
<1>1. "&" \in T /\ AmpText \in T /\ LtText \in T /\ c \in T
    BY DEF HtmlWritten
<1> HIDE DEF T
<1>2. CASE c = "&"
    <2>1. Codec!HtmlEscaped(c) = <<"&", AmpText>>
        BY <1>2, EntityTexts DEF Codec!HtmlEscaped
    <2>2. <<"&", AmpText>> \in Seq(T)
        BY <1>1, ShortTexts
    <2> QED BY <1>2, <2>1, <2>2, Zenon DEF T, HtmlDecodes
<1>3. CASE c = "<"
    <2>1. Codec!HtmlEscaped(c) = <<"&", LtText>>
        BY <1>3, EntityTexts DEF Codec!HtmlEscaped
    <2>2. <<"&", LtText>> \in Seq(T)
        BY <1>1, ShortTexts
    <2> QED BY <1>3, <2>1, <2>2, Zenon DEF T, HtmlDecodes
<1>4. CASE c \notin {"&", "<"}
    <2>1. Codec!HtmlEscaped(c) = <<c>>
        BY <1>4, EntityTexts DEF Codec!HtmlEscaped
    <2>2. <<c>> \in Seq(T)
        BY <1>1, ShortTexts
    <2> QED BY <1>4, <2>1, <2>2, Zenon DEF T, HtmlDecodes
<1> QED BY <1>2, <1>3, <1>4

(* What htmlEscape writes of a text is a token for each of its characters. *)
LEMMA HtmlEscapedText ==
    ASSUME NEW A, NEW a \in Seq(A)
    PROVE  \E ss \in Seq(Seq(HtmlWritten(A))) : Codec!htmlEscape(a) = Codec!FlattenSeq(ss) /\ HtmlSpells(ss, a)
<1> DEFINE T == HtmlWritten(A)
           ss == [i \in DOMAIN a |-> Codec!HtmlEscaped(a[i])]
           n == Len(a)
<1>1. n \in Nat /\ DOMAIN a = 1..n /\ \A i \in 1..n : a[i] \in A
    BY LenProperties, ElementOfSeq
<1>2. \A i \in 1..n : Codec!HtmlEscaped(a[i]) \in Seq(T) /\ HtmlDecodes(Codec!HtmlEscaped(a[i]), a[i])
    BY <1>1, HtmlEscapedIsWritten
<1> HIDE DEF n, T
<1>3. ss \in [1..n -> Seq(T)] /\ \A i \in 1..n : ss[i] = Codec!HtmlEscaped(a[i])
    BY <1>1, <1>2
<1>4. Codec!htmlEscape(a) = Codec!FlattenSeq(ss)
    BY DEF Codec!Each, Codec!htmlEscape
<1> HIDE DEF ss
<1>5. ss \in Seq(Seq(T)) /\ Len(ss) = n
    BY <1>1, <1>3, TextsLine
<1>6. HtmlSpells(ss, a)
    BY <1>2, <1>3, <1>5 DEF HtmlSpells, n
<1> QED BY <1>4, <1>5, <1>6 DEF T

(* htmlEscape writes at least one character for each.                      *)
LEMMA HtmlTokens ==
    ASSUME NEW s, NEW c, HtmlDecodes(s, c)
    PROVE  Len(s) >= 1
<1>1. CASE s = <<c>>
    BY <1>1
<1>2. CASE s = <<"&", AmpText>>
    BY <1>2
<1>3. CASE s = <<"&", LtText>>
    BY <1>3
<1> QED BY <1>1, <1>2, <1>3, Zenon DEF HtmlDecodes

(* A page around a text: the parts in front of it and behind it are shown  *)
(* as they are, the text as it was before it was escaped.                  *)
IsPage(S, D, p, ss, q, t) ==
    /\ p \in Seq(S) /\ q \in Seq(S) /\ ss \in Seq(Seq(S))
    /\ p \in Seq(D) /\ q \in Seq(D) /\ t \in Seq(D)
    /\ NoEntity(p) /\ NoEntity(q) /\ HtmlSpells(ss, t)

(* A browser shows what is written between two plain stretches of a page   *)
(* as it was meant.                                                        *)
LEMMA HtmlShows ==
    ASSUME NEW S, NEW D, NEW p, NEW ss, NEW q, NEW t, IsPage(S, D, p, ss, q, t)
    PROVE  Codec!HtmlShown(p \o Codec!FlattenSeq(ss) \o q) = p \o (t \o q)
<1> DEFINE e == Codec!FlattenSeq(ss)
           in == p \o e \o q
           es(i) == Entities(in, i)
           reads == [i \in DOMAIN in |-> IF es(i) # {} THEN <<CHOOSE c \in es(i) : TRUE>>
                                      ELSE <<IF in[i] = "<" THEN "tag" ELSE in[i]>>]
           next == [i \in DOMAIN in |-> IF es(i) # {} THEN i + 2 ELSE i + 1]
           w == Codec!Walk(in, reads, next)
           lp == Len(p)
           le == Len(e)
           lq == Len(q)
<1>a. p \in Seq(S) /\ q \in Seq(S) /\ ss \in Seq(Seq(S))
    BY Zenon DEF IsPage
<1>b. p \in Seq(D) /\ q \in Seq(D) /\ t \in Seq(D)
    BY Zenon DEF IsPage
<1>c. /\ \A i \in 1..lp : p[i] \notin {"&", "<"}
      /\ \A i \in 1..lq : q[i] \notin {"&", "<"}
    BY Zenon DEF IsPage, NoEntity
<1>d. HtmlSpells(ss, t)
    BY Zenon DEF IsPage
<1>1. e \in Seq(S)
    BY <1>a, FlattenLies
<1>2. lp \in Nat /\ le \in Nat /\ lq \in Nat
    BY <1>a, <1>1, LenProperties
<1>3. Codec!HtmlShown(in) = w[1]
    BY Zenon DEF Codec!HtmlShown, Entities
<1> HIDE DEF e
<1>4. IsThree(S, in, p, e, q)
    BY <1>a, <1>1, ThreeLie
<1>5. IsMade(in, p, e, q)
    BY Zenon DEF IsMade
<1> HIDE DEF in, lp, le, lq
<1>6. /\ in \in Seq(S) /\ Len(in) = lp + le + lq
      /\ \A i \in 1..lp : in[i] = p[i]
      /\ \A i \in 1..lq : in[lp + le + i] = q[i]
    BY <1>4, Zenon DEF IsThree, lp, le, lq
<1>7. DOMAIN in = 1..Len(in) /\ Len(in) \in Nat /\ \A i \in 1..Len(in) : i \in Nat
    BY <1>6, LenProperties
<1>8. ASSUME NEW i \in 1..Len(in)
      PROVE  /\ in[i] # "&" => es(i) = {}
             /\ in[i] = "&" /\ i + 1 <= Len(in) /\ in[i + 1] = AmpText => es(i) = {"&"}
             /\ in[i] = "&" /\ i + 1 <= Len(in) /\ in[i + 1] = LtText => es(i) = {"<"}
    <2> SUFFICES ASSUME NEW k \in Nat, k \in 1..Len(in)
                 PROVE  /\ in[k] # "&" => es(k) = {}
                        /\ in[k] = "&" /\ k + 1 <= Len(in) /\ in[k + 1] = AmpText => es(k) = {"&"}
                        /\ in[k] = "&" /\ k + 1 <= Len(in) /\ in[k + 1] = LtText => es(k) = {"<"}
        BY <1>7, Zenon
    <2> QED BY <1>6, EntitiesAt
<1>9. ASSUME NEW i \in 1..Len(in)
      PROVE  /\ es(i) = {} => next[i] = i + 1
             /\ es(i) = {} /\ in[i] # "<" => reads[i] = <<in[i]>>
             /\ es(i) # {} => next[i] = i + 2
             /\ \A c : es(i) = {c} => reads[i] = <<c>>
    <2>1. \A c : (CHOOSE x \in {c} : TRUE) = c /\ {c} # {}
        OBVIOUS
    <2> HIDE DEF es
    <2> QED BY <1>7, <2>1
<1> HIDE DEF reads, next, es
<1>10. Goes(in, next)
    <2> SUFFICES ASSUME NEW i \in 1..Len(in) PROVE next[i] \in (i + 1)..(Len(in) + 6)
        BY Zenon DEF Goes
    <2>1. next[i] = i + 1 \/ next[i] = i + 2
        BY <1>9, Zenon
    <2> QED BY <1>7, <2>1
<1>11. Recurs(w, in, reads, next)
    BY <1>6, <1>10, WalkRecurs
<1>12. w[Len(in) + 1] = <<>>
    <2>1. Len(in) + 1 \in (Len(in) + 1)..(Len(in) + 6)
        BY <1>7
    <2> QED BY <1>6, <1>10, <2>1, WalkEnds
<1> HIDE DEF w
<1>13. \A i \in 1..Len(in) : in[i] \notin {"&", "<"} => next[i] = i + 1 /\ reads[i] = <<in[i]>>
    <2> SUFFICES ASSUME NEW i \in 1..Len(in), in[i] \notin {"&", "<"} PROVE next[i] = i + 1 /\ reads[i] = <<in[i]>>
        OBVIOUS
    <2>1. in[i] # "&" /\ in[i] # "<"
        OBVIOUS
    <2> QED BY <1>8, <1>9, <2>1, Zenon
<1>14. ReadsEach(in, reads, next, ss, t)
    <2> SUFFICES ASSUME NEW k \in 1..Len(ss), NEW i \in Nat, i \in 1..Len(in), Stands(in, i, ss[k])
                 PROVE  next[i] = i + Len(ss[k]) /\ reads[i] = <<t[k]>>
        BY <1>7, <1>d, Zenon DEF ReadsEach, HtmlSpells
    <2> DEFINE c == t[k]
               s == ss[k]
    <2>1. HtmlDecodes(s, c) /\ Stands(in, i, s)
        BY <1>d, Zenon DEF HtmlSpells
    <2> HIDE DEF c, s
    <2>2. CASE s = <<c>> /\ c \notin {"&", "<"}
        <3>1. Stands(in, i, <<c>>)
            BY <2>1, <2>2, Zenon
        <3>2. in[i] = c /\ Len(<<c>>) = 1
            BY <3>1, StandsOne
        <3>3. next[i] = i + 1 /\ reads[i] = <<c>>
            BY <1>13, <2>2, <3>2, Zenon
        <3> QED BY <2>2, <3>2, <3>3, Zenon DEF c, s
    <2>3. CASE s = <<"&", AmpText>> /\ c = "&"
        <3>1. Stands(in, i, <<"&", AmpText>>)
            BY <2>1, <2>3, Zenon
        <3>2. in[i] = "&" /\ in[i + 1] = AmpText /\ i + 1 <= Len(in) /\ Len(<<"&", AmpText>>) = 2
            BY <3>1, StandsTwo
        <3>3. es(i) = {"&"}
            BY <1>8, <3>2, Zenon
        <3>4. {"&"} # {}
            OBVIOUS
        <3>5. next[i] = i + 2 /\ reads[i] = <<"&">>
            BY <1>9, <3>3, <3>4, Zenon
        <3> QED BY <2>3, <3>2, <3>5, Zenon DEF c, s
    <2>4. CASE s = <<"&", LtText>> /\ c = "<"
        <3>1. Stands(in, i, <<"&", LtText>>)
            BY <2>1, <2>4, Zenon
        <3>2. in[i] = "&" /\ in[i + 1] = LtText /\ i + 1 <= Len(in) /\ Len(<<"&", LtText>>) = 2
            BY <3>1, StandsTwo
        <3>3. es(i) = {"<"}
            BY <1>8, <3>2, Zenon
        <3>4. {"<"} # {}
            OBVIOUS
        <3>5. next[i] = i + 2 /\ reads[i] = <<"<">>
            BY <1>9, <3>3, <3>4, Zenon
        <3> QED BY <2>4, <3>2, <3>5, Zenon DEF c, s
    <2> QED BY <2>1, <2>2, <2>3, <2>4, Zenon DEF HtmlDecodes
<1>15. w[lp + le + 1] = q
    <2> DEFINE m == lp + le
               end == <<>>
    <2>1. ASSUME NEW i \in 1..lq
          PROVE  m + i \in 1..Len(in) /\ next[m + i] = m + i + 1 /\ reads[m + i] = <<q[i]>>
        <3> DEFINE j == m + i
        <3>1. j \in 1..Len(in) /\ in[j] = q[i]
            BY <1>2, <1>6
        <3> HIDE DEF j
        <3>2. next[j] = j + 1 /\ reads[j] = <<q[i]>>
            BY <1>13, <1>c, <3>1, Zenon
        <3> QED BY <3>1, <3>2, Zenon DEF j
    <2>2. PlainFrom(in, reads, next, m, q)
        BY <2>1, Zenon DEF PlainFrom, lq
    <2>3. m \in Nat /\ end \in Seq(D) /\ m + lq + 1 = Len(in) + 1
        BY <1>2, <1>6
    <2>4. w[m + Len(q) + 1] = end
        BY <1>12, <2>3 DEF lq
    <2>5. q \o end = q
        BY <1>b, ConcatEmptySeq
    <2> HIDE DEF m, end
    <2>6. PlainWalks(in, reads, next, w, D, q, m, end)
        BY <1>b, <1>11, <2>2, <2>3, <2>4, Zenon DEF PlainWalks
    <2>7. w[m + 1] = q \o end
        BY <2>6, PlainThrough
    <2> QED BY <2>5, <2>7, Zenon DEF m
<1>16. w[lp + 1] = t \o q
    <2>1. \A k \in 1..Len(ss) : Len(ss[k]) >= 1
        BY <1>d, HtmlTokens DEF HtmlSpells
    <2>2. w[Len(p) + Len(Codec!FlattenSeq(ss)) + 1] = q
        BY <1>15, Zenon DEF lp, le, e
    <2>3. IsMade(in, p, Codec!FlattenSeq(ss), q)
        BY <1>5, Zenon DEF e
    <2>4. Walks(S, p, ss, q, in, reads, next, w, D, q)
        BY <1>a, <1>b, <1>11, <2>1, <2>2, <2>3, Zenon DEF Walks
    <2>5. w[Len(p) + 1] = t \o q
        BY <1>b, <1>14, <2>4, ReadThrough
    <2> QED BY <2>5 DEF lp
<1>17. w[1] = p \o (t \o q)
    <2> DEFINE m == 0
               end == t \o q
    <2>1. ASSUME NEW i \in 1..lp
          PROVE  m + i \in 1..Len(in) /\ next[m + i] = m + i + 1 /\ reads[m + i] = <<p[i]>>
        <3>1. i \in 1..Len(in) /\ in[i] = p[i] /\ m + i = i
            BY <1>2, <1>6
        <3>2. next[i] = i + 1 /\ reads[i] = <<p[i]>>
            BY <1>13, <1>c, <3>1, Zenon
        <3> QED BY <3>1, <3>2
    <2>2. PlainFrom(in, reads, next, m, p)
        BY <2>1, Zenon DEF PlainFrom, lp
    <2>3. m \in Nat /\ m + lp + 1 = lp + 1 /\ m + 1 = 1
        BY <1>2
    <2>4. end \in Seq(D)
        BY <1>b, ConcatProperties
    <2> HIDE DEF m, end
    <2>5. w[m + Len(p) + 1] = end
        BY <1>16, <2>3, Zenon DEF lp, end
    <2>6. PlainWalks(in, reads, next, w, D, p, m, end)
        BY <1>b, <1>11, <2>2, <2>3, <2>4, <2>5, Zenon DEF PlainWalks
    <2>7. w[m + 1] = p \o end
        BY <2>6, PlainThrough
    <2> QED BY <2>3, <2>7, Zenon DEF end
<1> QED BY <1>3, <1>17, Zenon DEF in, e

ThreeTexts(S, s, t, u) == s \in Seq(S) /\ t \in Seq(S) /\ u \in Seq(S)
Associate(S, s, t, u) == (s \o t) \o u = s \o (t \o u) /\ s \o t \in Seq(S) /\ t \o u \in Seq(S)

(* Three texts may be put behind each other in either order.               *)
LEMMA Associates ==
    ASSUME NEW S, NEW s, NEW t, NEW u, ThreeTexts(S, s, t, u)
    PROVE  Associate(S, s, t, u)
    BY ConcatAssociative, ConcatProperties DEF ThreeTexts, Associate

FiveTexts(S, x, l, y, v, z) ==
    x \in Seq(S) /\ l \in Seq(S) /\ y \in Seq(S) /\ v \in Seq(S) /\ z \in Seq(S)
Regrouped(x, l, y, v, z) == x \o (l \o (y \o v \o z)) = (x \o l \o y) \o v \o z

(* Nor does the order matter for a page's five.                            *)
LEMMA Regroup ==
    ASSUME NEW S, NEW x, NEW l, NEW y, NEW v, NEW z, FiveTexts(S, x, l, y, v, z)
    PROVE  Regrouped(x, l, y, v, z)
<1> DEFINE vz == v \o z
           ly == l \o y
           xly == x \o ly
<1>1. ThreeTexts(S, y, v, z) /\ ThreeTexts(S, x, l, y)
    BY Zenon DEF ThreeTexts, FiveTexts
<1>2. Associate(S, y, v, z) /\ Associate(S, x, l, y)
    BY <1>1, Associates
<1>3. (y \o v) \o z = y \o vz /\ (x \o l) \o y = xly /\ vz \in Seq(S) /\ ly \in Seq(S)
    BY <1>2, Zenon DEF Associate
<1> HIDE DEF vz, ly
<1>4. ThreeTexts(S, l, y, vz) /\ ThreeTexts(S, x, ly, vz)
    BY <1>3, Zenon DEF ThreeTexts, FiveTexts
<1>5. Associate(S, l, y, vz) /\ Associate(S, x, ly, vz)
    BY <1>4, Associates
<1>6. l \o (y \o vz) = (l \o y) \o vz /\ x \o (ly \o vz) = xly \o vz /\ xly \in Seq(S)
    BY <1>5, Zenon DEF Associate
<1> HIDE DEF xly
<1>7. (xly \o v) \o z = xly \o (v \o z)
    <2>1. ThreeTexts(S, xly, v, z)
        BY <1>6, Zenon DEF ThreeTexts, FiveTexts
    <2>2. Associate(S, xly, v, z)
        BY <2>1, Associates
    <2> QED BY <2>2, Zenon DEF Associate
<1>8. (l \o y) \o vz = ly \o vz /\ xly \o (v \o z) = xly \o vz
    BY Zenon DEF ly, vz
<1> QED BY <1>3, <1>6, <1>7, <1>8, Zenon DEF Regrouped

(* A label holds nothing to escape.                                        *)
LEMMA LabelIsShown ==
    ASSUME NEW l \in Seq(LabelCharacters)
    PROVE  Codec!htmlEscape(l) = l
<1> DEFINE S == LabelCharacters
           ss == [i \in DOMAIN l |-> Codec!HtmlEscaped(l[i])]
           n == Len(l)
<1>1. n \in Nat /\ DOMAIN l = 1..n /\ \A i \in 1..n : l[i] \in S
    BY LenProperties, ElementOfSeq
<1>2. ASSUME NEW i \in 1..n PROVE Codec!HtmlEscaped(l[i]) = <<l[i]>> /\ <<l[i]>> \in Seq(S)
    <2> DEFINE c == l[i]
    <2>1. c \in S /\ c \notin {"&", "<"}
        BY <1>1 DEF LabelCharacters
    <2> HIDE DEF c, S
    <2>2. Codec!HtmlEscaped(c) = <<c>>
        BY <2>1, EntityTexts DEF Codec!HtmlEscaped
    <2>3. <<c>> \in Seq(S)
        BY <2>1
    <2> QED BY <2>2, <2>3 DEF c
<1> HIDE DEF n, S
<1>3. ss \in [1..n -> Seq(S)] /\ \A i \in 1..n : ss[i] = <<l[i]>>
    BY <1>1, <1>2
<1>4. Codec!htmlEscape(l) = Codec!FlattenSeq(ss)
    BY DEF Codec!Each, Codec!htmlEscape
<1> HIDE DEF ss
<1>5. ss \in Seq(Seq(S)) /\ Len(ss) = n
    BY <1>1, <1>3, TextsLine
<1>6. Codec!FlattenSeq(ss) = l
    BY <1>3, <1>5, FlatSingles DEF n, S
<1> QED BY <1>4, <1>6

(* The page that confirms a save.                                          *)
PageCharacters(A) == HtmlWritten(A) \cup LabelCharacters \cup {"x", "y", "z", "%", "N", "W"}

(* The characters of the page that confirms a save.                        *)
LEMMA PageTexts ==
    ASSUME NEW A
    PROVE  LET S == PageCharacters(A) IN
           /\ <<"x">> \in Seq(S) /\ <<"y">> \in Seq(S) /\ <<"z">> \in Seq(S)
           /\ <<"y", "%", "W", "z">> \in Seq(S) /\ <<"%", "W">> \in Seq(S)
           /\ "%" \in S /\ "N" \in S /\ "W" \in S
           /\ HtmlWritten(A) \subseteq S /\ LabelCharacters \subseteq S
<1> DEFINE S == PageCharacters(A)
<1>1. /\ "x" \in S /\ "y" \in S /\ "z" \in S /\ "%" \in S /\ "N" \in S /\ "W" \in S
      /\ HtmlWritten(A) \subseteq S /\ LabelCharacters \subseteq S
    BY DEF PageCharacters
<1> HIDE DEF S
<1>2. <<"x">> \in Seq(S) /\ <<"y">> \in Seq(S) /\ <<"z">> \in Seq(S) /\ <<"%", "W">> \in Seq(S)
    BY <1>1, ShortTexts
<1>3. <<"y", "%", "W", "z">> \in Seq(S)
    BY <1>1
<1> QED BY <1>1, <1>2, <1>3 DEF S

(* The page with both values in it: no value is taken for a token.         *)
LEMMA SavedPageIs ==
    ASSUME NEW A, NEW l \in Seq(LabelCharacters), NEW b,
           Codec!htmlEscape(b) \in Seq(HtmlWritten(A))
    PROVE  Codec!SavedPage(l, b) = (<<"x">> \o l \o <<"y">>) \o (Codec!htmlEscape(b) \o <<"z">>)
<1> DEFINE S == PageCharacters(A)
           x == <<"x">>
           y == <<"y">>
           z == <<"z">>
           q == <<"y", "%", "W", "z">>
           t == <<"%", "W">>
           front == x \o l \o y
           v == Codec!htmlEscape(b)
<1>1. /\ x \in Seq(S) /\ y \in Seq(S) /\ z \in Seq(S) /\ q \in Seq(S) /\ t \in Seq(S)
      /\ "%" \in S /\ "N" \in S /\ "W" \in S
      /\ HtmlWritten(A) \subseteq S /\ LabelCharacters \subseteq S
    BY PageTexts
<1>v. v \in Seq(HtmlWritten(A))
    OBVIOUS
<1> HIDE DEF v
<1>2. l \in Seq(S) /\ v \in Seq(S)
    <2> HIDE DEF S
    <2> QED BY <1>v, <1>1, SeqMonotonic
<1>3. Codec!WIFI_SAVED_HTML = x \o <<"%", "N">> \o q
    BY DEF Codec!WIFI_SAVED_HTML, Codec!NameToken, Codec!WifiToken
<1>4. q = y \o t \o z
    OBVIOUS
<1>5. Replaces(S, x, "%", "N", q, l)
    <2>1. \A i \in 1..Len(x) : x[i] # "%"
        OBVIOUS
    <2>2. \A i \in 1..Len(q) : ~(i + 1 <= Len(q) /\ q[i] = "%" /\ q[i + 1] = "N")
        <3>1. Len(q) = 4 /\ q[1] = "y" /\ q[2] = "%" /\ q[3] = "W" /\ q[4] = "z"
            OBVIOUS
        <3> HIDE DEF q
        <3>2. ASSUME NEW i \in 1..Len(q) PROVE ~(i + 1 <= Len(q) /\ q[i] = "%" /\ q[i + 1] = "N")
            <4>1. i = 1 \/ i = 2 \/ i = 3 \/ i = 4
                BY <3>1
            <4>2. CASE i = 1
                BY <3>1, <4>2
            <4>3. CASE i = 2
                BY <3>1, <4>3
            <4>4. CASE i = 3
                BY <3>1, <4>4
            <4>5. CASE i = 4
                BY <3>1, <4>5
            <4> QED BY <4>1, <4>2, <4>3, <4>4, <4>5
        <3> QED BY <3>2
    <2> HIDE DEF x, q, S
    <2> QED BY <1>1, <1>2, <2>1, <2>2, Zenon DEF Replaces
<1>6. Codec!replaceAll(x \o <<"%", "N">> \o q, <<"%", "N">>, l) = x \o (l \o q)
    <2> DEFINE n == <<"%", "N">>
               in == x \o n \o q
    <2> HIDE DEF x, q, S
    <2>1. ReplacesIn(S, in, n, x, "%", "N", q, l)
        BY <1>5, Zenon DEF ReplacesIn
    <2> HIDE DEF n, in
    <2>2. Codec!replaceAll(in, n, l) = x \o (l \o q)
        BY <2>1, ReplacesOne
    <2> QED BY <2>2, Zenon DEF n, in
<1>7. x \o (l \o q) = front \o t \o z
    <2> HIDE DEF x, y, z, q, t, S
    <2>0. FiveTexts(S, x, l, y, t, z)
        BY <1>1, <1>2, Zenon DEF FiveTexts
    <2>1. x \o (l \o (y \o t \o z)) = (x \o l \o y) \o t \o z
        <3>1. Regrouped(x, l, y, t, z)
            BY <2>0, Regroup
        <3> QED BY <3>1, Zenon DEF Regrouped
    <2> QED BY <1>4, <2>1, Zenon
<1>8. front \in Seq(S) /\ \A i \in 1..Len(front) : front[i] # "%"
    <2>1. \A i \in 1..Len(l) : l[i] # "%"
        <3> SUFFICES ASSUME NEW i \in 1..Len(l) PROVE l[i] # "%"
            OBVIOUS
        <3>1. l[i] \in LabelCharacters
            BY ElementOfSeq
        <3> QED BY <3>1 DEF LabelCharacters
    <2>2. Len(x) = 1 /\ Len(y) = 1 /\ x[1] # "%" /\ y[1] # "%"
        OBVIOUS
    <2> HIDE DEF x, y, z, q, t, S
    <2>3. IsThree(S, front, x, l, y)
        BY <1>1, <1>2, ThreeLie
    <2> HIDE DEF front
    <2>4. /\ front \in Seq(S) /\ Len(front) = 1 + Len(l) + 1
          /\ front[1] = x[1] /\ front[1 + Len(l) + 1] = y[1]
          /\ \A i \in 1..Len(l) : front[1 + i] = l[i]
        <3>1. 1 \in 1..1
            OBVIOUS
        <3> QED BY <2>2, <2>3, <3>1, Zenon DEF IsThree
    <2>5. Len(l) \in Nat
        BY LenProperties
    <2> DEFINE n == Len(l)
    <2>6. ASSUME NEW i \in 1..Len(front) PROVE front[i] # "%"
        <3> HIDE DEF n
        <3>1. n \in Nat /\ Len(front) = n + 2 /\ front[n + 2] = y[1]
            <4>1. 1 + n + 1 = n + 2
                BY <2>5 DEF n
            <4> QED BY <2>4, <2>5, <4>1 DEF n
        <3>2. CASE i = 1
            BY <2>2, <2>4, <3>2
        <3>3. CASE i = n + 2
            BY <2>2, <3>1, <3>3
        <3>4. CASE i # 1 /\ i # n + 2
            <4>1. i - 1 \in 1..n /\ 1 + (i - 1) = i
                BY <3>1, <3>4
            <4>2. front[1 + (i - 1)] = l[i - 1]
                BY <2>4, <4>1 DEF n
            <4> QED BY <2>1, <4>1, <4>2 DEF n
        <3> QED BY <3>2, <3>3, <3>4
    <2> QED BY <2>4, <2>6
<1>9. Replaces(S, front, "%", "W", z, v)
    <2>1. \A i \in 1..Len(z) : ~(i + 1 <= Len(z) /\ z[i] = "%" /\ z[i + 1] = "W")
        OBVIOUS
    <2> HIDE DEF x, y, z, q, t, S, front
    <2> QED BY <1>1, <1>2, <1>8, <2>1, Zenon DEF Replaces
<1>10. Codec!replaceAll(front \o t \o z, t, v) = front \o (v \o z)
    <2> DEFINE in == front \o t \o z
    <2> HIDE DEF z, S, front
    <2>1. ReplacesIn(S, in, t, front, "%", "W", z, v)
        BY <1>9, Zenon DEF ReplacesIn
    <2> HIDE DEF t, in
    <2>2. Codec!replaceAll(in, t, v) = front \o (v \o z)
        BY <2>1, ReplacesOne
    <2> QED BY <2>2, Zenon DEF in
<1>11. Codec!SavedPage(l, b) = Codec!replaceAll(Codec!replaceAll(Codec!WIFI_SAVED_HTML, <<"%", "N">>, l), t, v)
    <2>1. Codec!htmlEscape(l) = l
        BY LabelIsShown
    <2> QED BY <2>1, Zenon DEF v, Codec!SavedPage, Codec!NameToken, Codec!WifiToken
<1> QED BY <1>3, <1>6, <1>7, <1>10, <1>11, Zenon DEF v

(* What is in front of the network's name holds no entity and no tag.      *)
LEMMA FrontHasNoEntity ==
    ASSUME NEW l \in Seq(LabelCharacters)
    PROVE  NoEntity(<<"x">> \o l \o <<"y">>)
<1> DEFINE F == LabelCharacters \cup {"x", "y"}
           x == <<"x">>
           y == <<"y">>
           front == x \o l \o y
<1>1. x \in Seq(F) /\ y \in Seq(F) /\ LabelCharacters \subseteq F
    OBVIOUS
<1>2. \A c \in F : c \notin {"&", "<"}
    BY DEF LabelCharacters
<1> HIDE DEF F
<1>3. l \in Seq(F)
    BY <1>1, SeqMonotonic
<1> HIDE DEF x, y
<1>4. IsThree(F, front, x, l, y)
    BY <1>1, <1>3, ThreeLie
<1> HIDE DEF front
<1>5. front \in Seq(F)
    BY <1>4, Zenon DEF IsThree
<1>6. \A i \in 1..Len(front) : front[i] \in F
    BY <1>5, ElementOfSeq
<1>7. NoEntity(front)
    BY <1>2, <1>6, Zenon DEF NoEntity
<1> QED BY <1>7 DEF front, x, y

(* The page that confirms a save shows the names that were stored: the     *)
(* device's in its normal form, the network's as it was typed.             *)
LEMMA SavedPageShows ==
    ASSUME NEW A, NEW a \in Seq(A), NEW b \in Seq(A)
    PROVE  Codec!HtmlShown(Codec!SavedPage(Codec!Label(a), b))
             = <<"x">> \o Codec!Label(a) \o <<"y">> \o b \o <<"z">>
<1> DEFINE l == Codec!Label(a)
           x == <<"x">>
           y == <<"y">>
           z == <<"z">>
           front == x \o l \o y
           S == PageCharacters(A)
           D == A \cup LabelCharacters \cup {"x", "y", "z"}
           v == Codec!htmlEscape(b)
<1>1. l \in Seq(LabelCharacters)
    BY LabelIsPlain
<1>2. PICK ss \in Seq(Seq(HtmlWritten(A))) : v = Codec!FlattenSeq(ss) /\ HtmlSpells(ss, b)
    BY HtmlEscapedText
<1>3. v \in Seq(HtmlWritten(A))
    <2>1. Codec!FlattenSeq(ss) \in Seq(HtmlWritten(A))
        BY FlattenLies
    <2> QED BY <1>2, <2>1, Zenon
<1>4. Codec!SavedPage(l, b) = front \o (v \o z)
    <2> HIDE DEF l
    <2> QED BY <1>1, <1>3, SavedPageIs
<1>5. x \in Seq(S) /\ y \in Seq(S) /\ z \in Seq(S) /\ HtmlWritten(A) \subseteq S /\ LabelCharacters \subseteq S
    BY PageTexts
<1>6. x \in Seq(D) /\ y \in Seq(D) /\ z \in Seq(D) /\ A \subseteq D /\ LabelCharacters \subseteq D
    <2>1. "x" \in D /\ "y" \in D /\ "z" \in D /\ A \subseteq D /\ LabelCharacters \subseteq D
        OBVIOUS
    <2> HIDE DEF D
    <2> QED BY <2>1, ShortTexts
<1>7. NoEntity(front) /\ NoEntity(z)
    <2>1. NoEntity(z)
        BY DEF NoEntity
    <2> HIDE DEF l
    <2>2. NoEntity(front)
        BY <1>1, FrontHasNoEntity
    <2> QED BY <2>1, <2>2
<1> HIDE DEF l, x, y, z, S, D, v
<1>8. front \in Seq(S)
    <2>1. l \in Seq(S)
        BY <1>1, <1>5, SeqMonotonic
    <2>2. IsThree(S, front, x, l, y)
        BY <1>5, <2>1, ThreeLie
    <2> QED BY <2>2, Zenon DEF IsThree
<1>9. front \in Seq(D)
    <2>1. l \in Seq(D)
        BY <1>1, <1>6, SeqMonotonic
    <2>2. IsThree(D, front, x, l, y)
        BY <1>6, <2>1, ThreeLie
    <2> QED BY <2>2, Zenon DEF IsThree
<1>10. b \in Seq(D)
    BY <1>6, SeqMonotonic
<1>11. v \in Seq(S)
    BY <1>3, <1>5, SeqMonotonic
<1>12. ss \in Seq(Seq(S))
    <2>1. Seq(HtmlWritten(A)) \subseteq Seq(S)
        BY <1>5, SeqMonotonic
    <2> QED BY <2>1, SeqMonotonic
<1> HIDE DEF front
<1>13. IsPage(S, D, front, ss, z, b)
    BY <1>2, <1>5, <1>6, <1>7, <1>8, <1>9, <1>10, <1>12, Zenon DEF IsPage
<1>14. Codec!HtmlShown(front \o Codec!FlattenSeq(ss) \o z) = front \o (b \o z)
    BY <1>13, HtmlShows
<1>15. (front \o v) \o z = front \o (v \o z)
    <2>1. ThreeTexts(S, front, v, z)
        BY <1>5, <1>8, <1>11, Zenon DEF ThreeTexts
    <2>2. Associate(S, front, v, z)
        BY <2>1, Associates
    <2> QED BY <2>2, Zenon DEF Associate
<1>16. (front \o b) \o z = front \o (b \o z)
    <2>1. ThreeTexts(D, front, b, z)
        BY <1>6, <1>9, <1>10, Zenon DEF ThreeTexts
    <2>2. Associate(D, front, b, z)
        BY <2>1, Associates
    <2> QED BY <2>2, Zenon DEF Associate
<1>17. Codec!HtmlShown(Codec!SavedPage(l, b)) = front \o b \o z
    BY <1>2, <1>4, <1>14, <1>15, <1>16, Zenon
<1> QED BY <1>17, Zenon DEF front, x, y, z, l

-----------------------------------------------------------------------------
(* The list of networks. *)

(* The character between the networks of a list.                           *)
Comma == ","

(* The comma is none of the other characters a list is written with.       *)
LEMMA Delimiters ==
    /\ Comma # "\\" /\ Comma # "|" /\ Comma # "-80" /\ Comma # "-40" /\ Comma # "0" /\ Comma # "1"
BY Zenon DEF Comma

(* How a character may be written in a list.                               *)
ListDecodes(s, c) ==
    \/ s = <<c>> /\ c \notin {"\\", "|", Comma}
    \/ s = <<"\\", c>> /\ c \in {"\\", "|", Comma}

ListWritten(A) == A \cup {"\\"}
ListSpells(ss, t) == Len(t) = Len(ss) /\ \A k \in 1..Len(ss) : ListDecodes(ss[k], t[k])

(* What listEscape writes of a character stands for it.                    *)
LEMMA ListEscapedIsWritten ==
    ASSUME NEW A, NEW c \in A
    PROVE  Codec!ListEscaped(c) \in Seq(ListWritten(A)) /\ ListDecodes(Codec!ListEscaped(c), c)
<1> DEFINE T == ListWritten(A)
<1>1. "\\" \in T /\ c \in T
    BY DEF ListWritten
<1> HIDE DEF T
<1>2. <<c>> \in Seq(T) /\ <<"\\", c>> \in Seq(T)
    BY <1>1, ShortTexts
<1>3. CASE c \in {"\\", "|", Comma}
    <2>1. c \in {"\\", Comma, "|"}
        BY <1>3
    <2>2. Codec!ListEscaped(c) = <<"\\", c>>
        BY <2>1, Zenon DEF Codec!ListEscaped, Comma
    <2> QED BY <1>2, <1>3, <2>2, Zenon DEF T, ListDecodes
<1>4. CASE c \notin {"\\", "|", Comma}
    <2>1. c \notin {"\\", Comma, "|"}
        BY <1>4
    <2>2. Codec!ListEscaped(c) = <<c>>
        BY <2>1, Zenon DEF Codec!ListEscaped, Comma
    <2> QED BY <1>2, <1>4, <2>2, Zenon DEF T, ListDecodes
<1> QED BY <1>3, <1>4

(* What listEscape writes of a name is a token for each of its characters. *)
LEMMA ListEscapedText ==
    ASSUME NEW A, NEW a \in Seq(A)
    PROVE  \E ss \in Seq(Seq(ListWritten(A))) : Codec!listEscape(a) = Codec!FlattenSeq(ss) /\ ListSpells(ss, a)
<1> DEFINE T == ListWritten(A)
           ss == [i \in DOMAIN a |-> Codec!ListEscaped(a[i])]
           n == Len(a)
<1>1. n \in Nat /\ DOMAIN a = 1..n /\ \A i \in 1..n : a[i] \in A
    BY LenProperties, ElementOfSeq
<1>2. \A i \in 1..n : Codec!ListEscaped(a[i]) \in Seq(T) /\ ListDecodes(Codec!ListEscaped(a[i]), a[i])
    BY <1>1, ListEscapedIsWritten
<1> HIDE DEF n, T
<1>3. ss \in [1..n -> Seq(T)] /\ \A i \in 1..n : ss[i] = Codec!ListEscaped(a[i])
    BY <1>1, <1>2
<1>4. Codec!listEscape(a) = Codec!FlattenSeq(ss)
    BY DEF Codec!Each, Codec!listEscape
<1> HIDE DEF ss
<1>5. ss \in Seq(Seq(T)) /\ Len(ss) = n
    BY <1>1, <1>3, TextsLine
<1>6. ListSpells(ss, a)
    BY <1>2, <1>3, <1>5 DEF ListSpells, n
<1> QED BY <1>4, <1>5, <1>6 DEF T

(* listEscape writes at least one character for each.                      *)
LEMMA ListTokens ==
    ASSUME NEW s, NEW c, ListDecodes(s, c)
    PROVE  Len(s) >= 1
<1>1. CASE s = <<c>>
    BY <1>1
<1>2. CASE s = <<"\\", c>>
    BY <1>2
<1> QED BY <1>1, <1>2, Zenon DEF ListDecodes

(* Where a character or an escape ends.                                    *)
LEMMA BehindIs ==
    ASSUME NEW S, NEW in \in Seq(S)
    PROVE  /\ \A i \in 1..Len(in) : in[i] # "\\" => Codec!Behind(in)[i] = i + 1
           /\ \A i \in 1..Len(in) : in[i] = "\\" /\ i < Len(in) => Codec!Behind(in)[i] = i + 2
           /\ Goes(in, Codec!Behind(in))
<1> DEFINE next == Codec!Behind(in)
<1>1. DOMAIN in = 1..Len(in) /\ Len(in) \in Nat
    BY LenProperties
<1>2. \A i \in 1..Len(in) : next[i] = IF in[i] = "\\" /\ i < Len(in) THEN i + 2 ELSE i + 1
    BY <1>1 DEF Codec!Behind
<1> HIDE DEF next
<1>3. \A i \in 1..Len(in) : next[i] \in (i + 1)..(Len(in) + 6)
    BY <1>1, <1>2
<1>4. Goes(in, next)
    BY <1>3 DEF Goes
<1> QED BY <1>2, <1>4 DEF next

(* What a page reads from a name in the list.                              *)
LEMMA ListNames ==
    ASSUME NEW A, NEW a \in Seq(A)
    PROVE  Codec!unescapeField(Codec!listEscape(a)) = a
<1>1. PICK ss \in Seq(Seq(ListWritten(A))) : Codec!listEscape(a) = Codec!FlattenSeq(ss) /\ ListSpells(ss, a)
    BY ListEscapedText
<1> DEFINE S == ListWritten(A)
           in == Codec!FlattenSeq(ss)
           next == Codec!Behind(in)
           reads == [i \in DOMAIN in |-> <<in[next[i] - 1]>>]
           w == Codec!Walk(in, reads, next)
<1>2. Codec!unescapeField(in) = w[1]
    BY Zenon DEF Codec!unescapeField
<1> HIDE DEF S
<1>3. in \in Seq(S)
    BY FlattenLies DEF S
<1> HIDE DEF in
<1>4. DOMAIN in = 1..Len(in) /\ Len(in) \in Nat /\ \A i \in 1..Len(in) : i \in Nat
    BY <1>3, LenProperties
<1>5. /\ \A i \in 1..Len(in) : in[i] # "\\" => next[i] = i + 1
      /\ \A i \in 1..Len(in) : in[i] = "\\" /\ i < Len(in) => next[i] = i + 2
      /\ Goes(in, next)
    BY <1>3, BehindIs
<1>6. \A i \in 1..Len(in) : reads[i] = <<in[next[i] - 1]>>
    BY <1>4
<1> HIDE DEF next, reads
<1>7. ReadsEach(in, reads, next, ss, a)
    <2> SUFFICES ASSUME NEW k \in 1..Len(ss), NEW i \in Nat, i \in 1..Len(in), Stands(in, i, ss[k])
                 PROVE  next[i] = i + Len(ss[k]) /\ reads[i] = <<a[k]>>
        BY <1>1, <1>4, Zenon DEF ReadsEach, ListSpells
    <2> DEFINE c == a[k]
               s == ss[k]
    <2>1. ListDecodes(s, c) /\ Stands(in, i, s)
        BY <1>1, Zenon DEF ListSpells
    <2> HIDE DEF c, s
    <2>2. CASE s = <<c>> /\ c \notin {"\\", "|", Comma}
        <3>1. Stands(in, i, <<c>>)
            BY <2>1, <2>2, Zenon
        <3>2. in[i] = c /\ Len(<<c>>) = 1
            BY <3>1, StandsOne
        <3>3. c # "\\" /\ i + 1 - 1 = i
            BY <2>2
        <3>4. next[i] = i + 1
            BY <1>5, <3>2, <3>3, Zenon
        <3> DEFINE j == next[i] - 1
        <3>5. j = i
            BY <3>4
        <3>6. reads[i] = <<in[j]>>
            BY <1>6, Zenon
        <3> HIDE DEF j
        <3>7. reads[i] = <<c>>
            BY <3>2, <3>5, <3>6, Zenon
        <3> QED BY <2>2, <3>2, <3>4, <3>7, Zenon DEF c, s
    <2>3. CASE s = <<"\\", c>>
        <3>1. Stands(in, i, <<"\\", c>>)
            BY <2>1, <2>3, Zenon
        <3>2. in[i] = "\\" /\ in[i + 1] = c /\ i + 1 <= Len(in) /\ Len(<<"\\", c>>) = 2
            BY <3>1, StandsTwo
        <3>3. i < Len(in) /\ i + 2 - 1 = i + 1
            BY <1>4, <3>2
        <3>4. next[i] = i + 2
            BY <1>5, <3>2, <3>3, Zenon
        <3> DEFINE j == next[i] - 1
        <3>5. j = i + 1
            BY <3>4
        <3>6. reads[i] = <<in[j]>>
            BY <1>6, Zenon
        <3> HIDE DEF j
        <3>7. reads[i] = <<c>>
            BY <3>2, <3>5, <3>6, Zenon
        <3> QED BY <2>3, <3>2, <3>4, <3>7, Zenon DEF c, s
    <2> QED BY <2>1, <2>2, <2>3, Zenon DEF ListDecodes
<1>8. \A k \in 1..Len(ss) : Len(ss[k]) >= 1
    BY <1>1, ListTokens DEF ListSpells
<1> DEFINE p == <<>>
           end == <<>>
<1>9. Walks(S, p, ss, p, in, reads, next, w, A, end) /\ (w[Len(p) + 1] = a => w[1] = a)
    <2>1. ss \in Seq(Seq(S))
        BY DEF S
    <2>2. in = Codec!FlattenSeq(ss)
        BY DEF in
    <2> QED BY <1>5, <1>8, <2>1, <2>2, WalksAlone
<1> HIDE DEF w
<1>10. w[Len(p) + 1] = a \o end
    <2> HIDE DEF p, end
    <2> QED BY <1>7, <1>9, ReadThrough
<1>11. a \o end = a
    BY ConcatEmptySeq
<1>12. w[1] = a
    BY <1>9, <1>10, <1>11, Zenon
<1> QED BY <1>1, <1>2, <1>12, Zenon DEF w, in

(* The walk that looks for the places where a text is cut.                 *)
ListWalks(S, in, delim, reads, next, w) ==
    /\ in \in Seq(S) /\ Recurs(w, in, reads, next)
    /\ \A i \in 1..Len(in) : in[i] # "\\" => next[i] = i + 1
    /\ \A i \in 1..Len(in) : in[i] = "\\" /\ i < Len(in) => next[i] = i + 2
    /\ \A i \in 1..Len(in) : in[i] # delim => reads[i] = <<>>
    /\ \A i \in 1..Len(in) : in[i] = delim => reads[i] = <<i>>

CutAt(in, cuts) ==
    LET ends == <<0>> \o cuts \o <<Len(in) + 1>>
    IN  [j \in 1..(Len(cuts) + 1) |-> SubSeq(in, ends[j] + 1, ends[j + 1] - 1)]

(* splitEscaped cuts where its walk finds a delimiter that is not escaped. *)
LEMMA Splits ==
    ASSUME NEW S, NEW in \in Seq(S), NEW delim
    PROVE  \E reads, next, w : /\ ListWalks(S, in, delim, reads, next, w) /\ w[Len(in) + 1] = <<>>
                               /\ Codec!splitEscaped(in, delim) = CutAt(in, w[1])
<1> DEFINE next == Codec!Behind(in)
           reads == [i \in DOMAIN in |-> IF in[i] = delim THEN <<i>> ELSE <<>>]
           w == Codec!Walk(in, reads, next)
<1>1. DOMAIN in = 1..Len(in) /\ Len(in) \in Nat
    BY LenProperties
<1>2. /\ \A i \in 1..Len(in) : in[i] # "\\" => next[i] = i + 1
      /\ \A i \in 1..Len(in) : in[i] = "\\" /\ i < Len(in) => next[i] = i + 2
      /\ Goes(in, next)
    BY BehindIs
<1>3. /\ \A i \in 1..Len(in) : in[i] # delim => reads[i] = <<>>
      /\ \A i \in 1..Len(in) : in[i] = delim => reads[i] = <<i>>
    BY <1>1
<1>4. Codec!splitEscaped(in, delim) = CutAt(in, w[1])
    BY Zenon DEF Codec!splitEscaped, CutAt
<1> HIDE DEF next, reads
<1>5. Recurs(w, in, reads, next)
    BY <1>2, WalkRecurs
<1>6. w[Len(in) + 1] = <<>>
    <2>1. Len(in) + 1 \in (Len(in) + 1)..(Len(in) + 6)
        BY <1>1
    <2> QED BY <1>2, <2>1, WalkEnds
<1> HIDE DEF w
<1>7. ListWalks(S, in, delim, reads, next, w)
    BY <1>2, <1>3, <1>5, Zenon DEF ListWalks
<1> QED BY <1>4, <1>6, <1>7, Zenon

(* An escaped name is passed without a cut.                                *)
ListHolds(S, in, p, ss, q, t) ==
    /\ p \in Seq(S) /\ q \in Seq(S) /\ ss \in Seq(Seq(S)) /\ IsMade(in, p, Codec!FlattenSeq(ss), q)
    /\ ListSpells(ss, t)

NamePassed(S, in, delim, reads, next, w, p, ss, q, t, end, D) ==
    /\ ListWalks(S, in, delim, reads, next, w) /\ delim \in {"|", Comma} /\ ListHolds(S, in, p, ss, q, t)
    /\ end \in Seq(D) /\ w[Len(p) + Len(Codec!FlattenSeq(ss)) + 1] = end

(* The walk passes an escaped name and finds no delimiter in it.           *)
LEMMA PassesName ==
    ASSUME NEW S, NEW in, NEW delim, NEW reads, NEW next, NEW w, NEW p, NEW ss, NEW q, NEW t, NEW end, NEW D,
           NamePassed(S, in, delim, reads, next, w, p, ss, q, t, end, D)
    PROVE  w[Len(p) + 1] = end
<1>0. /\ ListWalks(S, in, delim, reads, next, w) /\ delim \in {"|", Comma} /\ ListHolds(S, in, p, ss, q, t)
      /\ end \in Seq(D) /\ w[Len(p) + Len(Codec!FlattenSeq(ss)) + 1] = end
    BY Zenon DEF NamePassed
<1>1. p \in Seq(S) /\ q \in Seq(S) /\ ss \in Seq(Seq(S)) /\ IsMade(in, p, Codec!FlattenSeq(ss), q)
    BY <1>0, Zenon DEF ListHolds
<1>2. Len(t) = Len(ss) /\ \A k \in 1..Len(ss) : ListDecodes(ss[k], t[k])
    BY <1>0, Zenon DEF ListHolds, ListSpells
<1>3. /\ in \in Seq(S) /\ Recurs(w, in, reads, next)
      /\ \A i \in 1..Len(in) : in[i] # "\\" => next[i] = i + 1
      /\ \A i \in 1..Len(in) : in[i] = "\\" /\ i < Len(in) => next[i] = i + 2
      /\ \A i \in 1..Len(in) : in[i] # delim => reads[i] = <<>>
    BY <1>0, Zenon DEF ListWalks
<1>4. DOMAIN in = 1..Len(in) /\ Len(in) \in Nat /\ \A i \in 1..Len(in) : i \in Nat
    BY <1>3, LenProperties
<1>5. "\\" # delim /\ delim \in {"\\", "|", Comma}
    BY <1>0, Delimiters
<1>6. Skips(in, reads, next, ss)
    <2> SUFFICES ASSUME NEW k \in 1..Len(ss), NEW i \in Nat, i \in 1..Len(in), Stands(in, i, ss[k])
                 PROVE  next[i] = i + Len(ss[k]) /\ reads[i] = <<>>
        BY <1>4, Zenon DEF Skips
    <2> DEFINE c == t[k]
               s == ss[k]
    <2>1. ListDecodes(s, c) /\ Stands(in, i, s)
        BY <1>2, Zenon
    <2> HIDE DEF c, s
    <2>2. CASE s = <<c>> /\ c \notin {"\\", "|", Comma}
        <3>1. Stands(in, i, <<c>>)
            BY <2>1, <2>2, Zenon
        <3>2. in[i] = c /\ Len(<<c>>) = 1
            BY <3>1, StandsOne
        <3>3. c # "\\" /\ c # delim
            BY <1>5, <2>2
        <3>4. next[i] = i + 1 /\ reads[i] = <<>>
            BY <1>3, <3>2, <3>3, Zenon
        <3> QED BY <2>2, <3>2, <3>4, Zenon DEF s
    <2>3. CASE s = <<"\\", c>>
        <3>1. Stands(in, i, <<"\\", c>>)
            BY <2>1, <2>3, Zenon
        <3>2. in[i] = "\\" /\ i + 1 <= Len(in) /\ Len(<<"\\", c>>) = 2
            BY <3>1, StandsTwo
        <3>3. i < Len(in)
            BY <1>4, <3>2
        <3>4. next[i] = i + 2 /\ reads[i] = <<>>
            BY <1>3, <1>5, <3>2, <3>3, Zenon
        <3> QED BY <2>3, <3>2, <3>4, Zenon DEF s
    <2> QED BY <2>1, <2>2, <2>3, Zenon DEF ListDecodes
<1>7. \A k \in 1..Len(ss) : Len(ss[k]) >= 1
    BY <1>2, ListTokens
<1>8. Walks(S, p, ss, q, in, reads, next, w, D, end)
    BY <1>0, <1>1, <1>3, <1>7, Zenon DEF Walks
<1> QED BY <1>6, <1>8, SkipThrough

(* One character is passed, or cut at.                                     *)
IsPlace(S, in, delim, reads, next, w, i, e, D) ==
    /\ ListWalks(S, in, delim, reads, next, w) /\ i \in 1..Len(in) /\ in[i] # "\\"
    /\ w[i + 1] = e /\ e \in Seq(D)

(* It passes any other character that is no delimiter.                     *)
LEMMA PassesOne ==
    ASSUME NEW S, NEW in, NEW delim, NEW reads, NEW next, NEW w, NEW i, NEW e, NEW D,
           IsPlace(S, in, delim, reads, next, w, i, e, D), in[i] # delim
    PROVE  w[i] = e
<1>1. next[i] = i + 1 /\ w[i] = reads[i] \o w[next[i]]
    BY Zenon DEF IsPlace, ListWalks, Recurs
<1>2. reads[i] = <<>>
    BY Zenon DEF IsPlace, ListWalks
<1>3. w[i + 1] = e /\ e \in Seq(D)
    BY Zenon DEF IsPlace
<1>4. <<>> \o e = e
    BY <1>3, ConcatEmptySeq
<1> QED BY <1>1, <1>2, <1>3, <1>4, Zenon

IsCut(w, i, e) == w[i] = <<i>> \o e

(* And at a delimiter it cuts.                                             *)
LEMMA CutsOne ==
    ASSUME NEW S, NEW in, NEW delim, NEW reads, NEW next, NEW w, NEW i, NEW e, NEW D,
           IsPlace(S, in, delim, reads, next, w, i, e, D), in[i] = delim
    PROVE  IsCut(w, i, e)
<1>1. next[i] = i + 1 /\ w[i] = reads[i] \o w[next[i]]
    BY Zenon DEF IsPlace, ListWalks, Recurs
<1>2. reads[i] = <<i>>
    BY Zenon DEF IsPlace, ListWalks
<1>3. w[i + 1] = e
    BY Zenon DEF IsPlace
<1> QED BY <1>1, <1>2, <1>3, Zenon DEF IsCut

(* A text that is cut at one place, and at two.                            *)
CutsAt(in, cuts, x) == x \in Nat /\ Len(in) \in Nat /\ cuts = <<x>>
CutsAtBoth(in, cuts, x, y) == x \in Nat /\ y \in Nat /\ Len(in) \in Nat /\ cuts = <<x, y>>

(* The two parts of a text that is cut at one place.                       *)
LEMMA CutOnce ==
    ASSUME NEW in, NEW cuts, NEW x, CutsAt(in, cuts, x)
    PROVE  /\ Len(CutAt(in, cuts)) = 2 /\ DOMAIN CutAt(in, cuts) = 1..2
           /\ CutAt(in, cuts)[1] = SubSeq(in, 1, x - 1)
           /\ CutAt(in, cuts)[2] = SubSeq(in, x + 1, Len(in))
<1> DEFINE n == Len(in)
           ends == <<0>> \o <<x>> \o <<n + 1>>
           f == [j \in 1..2 |-> SubSeq(in, ends[j] + 1, ends[j + 1] - 1)]
<1>0. x \in Nat /\ n \in Nat
    BY Zenon DEF CutsAt
<1>c. cuts = <<x>>
    BY Zenon DEF CutsAt
<1>1. Len(<<x>>) + 1 = 2
    OBVIOUS
<1>2. CutAt(in, cuts) = f
    BY <1>1, <1>c, Zenon DEF CutAt
<1> HIDE DEF n
<1>3. ends[1] = 0 /\ ends[2] = x /\ ends[3] = n + 1
    OBVIOUS
<1> HIDE DEF ends
<1>4. f[1] = SubSeq(in, 0 + 1, x - 1) /\ f[2] = SubSeq(in, x + 1, n + 1 - 1)
    <2>1. 1 \in 1..2 /\ 2 \in 1..2
        OBVIOUS
    <2>2. /\ f[1] = SubSeq(in, ends[1] + 1, ends[1 + 1] - 1)
          /\ f[2] = SubSeq(in, ends[2] + 1, ends[2 + 1] - 1)
        BY <2>1, Zenon
    <2>3. ends[1 + 1] = x /\ ends[2 + 1] = n + 1
        BY <1>3
    <2> HIDE DEF f
    <2> QED BY <1>0, <1>3, <2>2, <2>3
<1>5. 0 + 1 = 1 /\ n + 1 - 1 = n
    BY <1>0
<1>6. Len(f) = 2 /\ DOMAIN f = 1..2
    OBVIOUS
<1> HIDE DEF f
<1> QED BY <1>2, <1>4, <1>5, <1>6, Zenon DEF n

(* The three parts of a text that is cut at two.                           *)
LEMMA CutTwice ==
    ASSUME NEW in, NEW cuts, NEW x, NEW y, CutsAtBoth(in, cuts, x, y)
    PROVE  /\ Len(CutAt(in, cuts)) = 3 /\ DOMAIN CutAt(in, cuts) = 1..3
           /\ CutAt(in, cuts)[1] = SubSeq(in, 1, x - 1)
           /\ CutAt(in, cuts)[2] = SubSeq(in, x + 1, y - 1)
           /\ CutAt(in, cuts)[3] = SubSeq(in, y + 1, Len(in))
<1> DEFINE n == Len(in)
           ends == <<0>> \o <<x, y>> \o <<n + 1>>
           f == [j \in 1..3 |-> SubSeq(in, ends[j] + 1, ends[j + 1] - 1)]
<1>0. x \in Nat /\ y \in Nat /\ n \in Nat
    BY Zenon DEF CutsAtBoth
<1>c. cuts = <<x, y>>
    BY Zenon DEF CutsAtBoth
<1>1. Len(<<x, y>>) + 1 = 3
    OBVIOUS
<1>2. CutAt(in, cuts) = f
    BY <1>1, <1>c, Zenon DEF CutAt
<1> HIDE DEF n
<1>3. ends[1] = 0 /\ ends[2] = x /\ ends[3] = y /\ ends[4] = n + 1
    OBVIOUS
<1> HIDE DEF ends
<1>4. f[1] = SubSeq(in, 0 + 1, x - 1) /\ f[2] = SubSeq(in, x + 1, y - 1) /\ f[3] = SubSeq(in, y + 1, n + 1 - 1)
    <2>1. 1 \in 1..3 /\ 2 \in 1..3 /\ 3 \in 1..3
        OBVIOUS
    <2>2. /\ f[1] = SubSeq(in, ends[1] + 1, ends[1 + 1] - 1)
          /\ f[2] = SubSeq(in, ends[2] + 1, ends[2 + 1] - 1)
          /\ f[3] = SubSeq(in, ends[3] + 1, ends[3 + 1] - 1)
        BY <2>1, Zenon
    <2>3. ends[1 + 1] = x /\ ends[2 + 1] = y /\ ends[3 + 1] = n + 1
        BY <1>3
    <2> HIDE DEF f
    <2> QED BY <1>0, <1>3, <2>2, <2>3
<1>5. 0 + 1 = 1 /\ n + 1 - 1 = n
    BY <1>0
<1>6. Len(f) = 3 /\ DOMAIN f = 1..3
    OBVIOUS
<1> HIDE DEF f
<1> QED BY <1>2, <1>4, <1>5, <1>6, Zenon DEF n

(* Behind a network's name, in its row: the signal and the lock.           *)
Values(in, m, s, o) ==
    /\ m \in Nat /\ m + 4 <= Len(in) /\ {s, o} \cap {"\\", "|", Comma} = {}
    /\ in[m + 1] = "|" /\ in[m + 2] = s /\ in[m + 3] = "|" /\ in[m + 4] = o

IsRow(S, in, v, s, o) ==
    /\ in \in Seq(S) /\ v \in Seq(S) /\ Len(in) = Len(v) + 4 /\ Values(in, Len(v), s, o)
    /\ \A i \in 1..Len(v) : in[i] = v[i]
    /\ in = v \o <<"|", s, "|", o>> /\ <<"|", s, "|", o>> \in Seq(S)

(* Where the delimiters and the values of a network's row are.             *)
LEMMA RowLayout ==
    ASSUME NEW S, NEW v \in Seq(S), "|" \in S, NEW s \in S, NEW o \in S, {s, o} \cap {"\\", "|", Comma} = {}
    PROVE  IsRow(S, v \o <<"|", s, "|", o>>, v, s, o)
<1> DEFINE q == <<"|", s, "|", o>>
           in == v \o q
           n == Len(v)
<1>1. q \in Seq(S) /\ Len(q) = 4 /\ q[1] = "|" /\ q[2] = s /\ q[3] = "|" /\ q[4] = o
    OBVIOUS
<1> HIDE DEF q
<1>2. /\ in \in Seq(S) /\ Len(in) = n + 4
      /\ \A i \in 1..(n + 4) : in[i] = IF i <= n THEN v[i] ELSE q[i - n]
    <2>1. Len(q) = 4 /\ q \in Seq(S)
        BY <1>1
    <2>2. /\ in \in Seq(S) /\ Len(in) = n + Len(q)
          /\ \A i \in 1..(n + Len(q)) : in[i] = IF i <= n THEN v[i] ELSE q[i - n]
        BY <2>1, ConcatProperties
    <2> QED BY <2>1, <2>2, Zenon
<1>3. n \in Nat
    BY LenProperties
<1>4. in = v \o q
    OBVIOUS
<1> HIDE DEF in, n
<1>5. \A i \in 1..n : in[i] = v[i]
    BY <1>2, <1>3
<1>6. ASSUME NEW j \in 1..4 PROVE in[n + j] = q[j]
    <2> DEFINE i == n + j
    <2>1. i \in 1..(n + 4) /\ ~(i <= n) /\ i - n = j
        BY <1>3
    <2> HIDE DEF i
    <2>2. in[i] = q[j]
        BY <1>2, <2>1, Zenon
    <2> QED BY <2>2 DEF i
<1>7. in[n + 1] = "|" /\ in[n + 2] = s /\ in[n + 3] = "|" /\ in[n + 4] = o
    <2>1. 1 \in 1..4 /\ 2 \in 1..4 /\ 3 \in 1..4 /\ 4 \in 1..4
        OBVIOUS
    <2> QED BY <1>1, <1>6, <2>1, Zenon
<1>8. n + 4 <= Len(in)
    BY <1>2, <1>3
<1>9. Values(in, n, s, o)
    BY <1>3, <1>7, <1>8, Zenon DEF Values
<1>10. IsRow(S, in, v, s, o)
    BY <1>1, <1>2, <1>4, <1>5, <1>9, Zenon DEF IsRow, n, q
<1> QED BY <1>10 DEF in, q

(* A signal and a flag are no delimiters.                                  *)
LEMMA NoValue ==
    ASSUME NEW s, NEW o, {s, o} \cap {"\\", "|", Comma} = {}
    PROVE  s \notin {"\\", "|", Comma} /\ o \notin {"\\", "|", Comma}
    OBVIOUS

(* What follows a network's name is passed, where its row is looked for.   *)
ValuesPassed(S, in, reads, next, w, m, s, o, end, D) ==
    /\ ListWalks(S, in, Comma, reads, next, w) /\ Values(in, m, s, o) /\ w[m + 5] = end /\ end \in Seq(D)

(* The walk for commas passes them too.                                    *)
LEMMA PassesValues ==
    ASSUME NEW S, NEW in, NEW reads, NEW next, NEW w, NEW m, NEW s, NEW o, NEW end, NEW D,
           ValuesPassed(S, in, reads, next, w, m, s, o, end, D)
    PROVE  w[m + 1] = end
<1>1. m \in Nat
    BY Zenon DEF Values, ValuesPassed
<1>l. ListWalks(S, in, Comma, reads, next, w)
    BY Zenon DEF ValuesPassed
<1>2. m + 4 <= Len(in) /\ {s, o} \cap {"\\", "|", Comma} = {}
    BY Zenon DEF Values, ValuesPassed
<1>3. in[m + 1] = "|" /\ in[m + 2] = s /\ in[m + 3] = "|" /\ in[m + 4] = o
    BY Zenon DEF Values, ValuesPassed
<1>4. Len(in) \in Nat
    <2>1. in \in Seq(S)
        BY <1>l, Zenon DEF ListWalks
    <2> QED BY <2>1, LenProperties
<1>5. s # "\\" /\ s # Comma /\ o # "\\" /\ o # Comma
    BY <1>2, NoValue
<1>6. "|" # "\\" /\ "|" # Comma
    BY Delimiters
<1> DEFINE a == m + 1
           b == m + 2
           c == m + 3
           d == m + 4
           e == m + 5
<1>7. a \in 1..Len(in) /\ b \in 1..Len(in) /\ c \in 1..Len(in) /\ d \in 1..Len(in)
      /\ a + 1 = b /\ b + 1 = c /\ c + 1 = d /\ d + 1 = e
    BY <1>1, <1>2, <1>4
<1>8. w[e] = end /\ end \in Seq(D) /\ in[a] = "|" /\ in[b] = s /\ in[c] = "|" /\ in[d] = o
    BY <1>3, Zenon DEF ValuesPassed
<1> HIDE DEF a, b, c, d, e
<1>9. w[d] = end
    <2>0. in[d] # Comma
        BY <1>5, <1>6, <1>8, Zenon
    <2>1. IsPlace(S, in, Comma, reads, next, w, d, end, D)
        BY <1>l, <1>5, <1>7, <1>8, Zenon DEF IsPlace
    <2> QED BY <2>0, <2>1, PassesOne
<1>10. w[c] = end
    <2>0. in[c] # Comma
        BY <1>5, <1>6, <1>8, Zenon
    <2>1. IsPlace(S, in, Comma, reads, next, w, c, end, D)
        BY <1>l, <1>6, <1>7, <1>8, <1>9, Zenon DEF IsPlace
    <2> QED BY <2>0, <2>1, PassesOne
<1>11. w[b] = end
    <2>0. in[b] # Comma
        BY <1>5, <1>6, <1>8, Zenon
    <2>1. IsPlace(S, in, Comma, reads, next, w, b, end, D)
        BY <1>l, <1>5, <1>7, <1>8, <1>9, <1>10, Zenon DEF IsPlace
    <2> QED BY <2>0, <2>1, PassesOne
<1>12. w[a] = end
    <2>0. in[a] # Comma
        BY <1>5, <1>6, <1>8, Zenon
    <2>1. IsPlace(S, in, Comma, reads, next, w, a, end, D)
        BY <1>l, <1>6, <1>7, <1>8, <1>9, <1>10, <1>11, Zenon DEF IsPlace
    <2> QED BY <2>0, <2>1, PassesOne
<1> QED BY <1>12, Zenon DEF a

(* A network's row, and what it is cut into.                               *)
RowSpelt(S, in, v, ss, t, s, o) ==
    /\ v = Codec!FlattenSeq(ss) /\ ss \in Seq(Seq(S)) /\ ListSpells(ss, t) /\ IsRow(S, in, v, s, o)

IsSplit(row, v, s, o) == Len(row) = 3 /\ row[1] = v /\ row[2] = <<s>> /\ row[3] = <<o>>

(* The part that is one character.                                         *)
LEMMA OnePart ==
    ASSUME NEW S, NEW in \in Seq(S), NEW m, m \in Nat, m + 1 <= Len(in), NEW c, in[m + 1] = c
    PROVE  SubSeq(in, m + 1, m + 1) = <<c>>
<1> DEFINE v == <<c>>
<1> SUFFICES ASSUME NEW k \in Nat, k = m PROVE SubSeq(in, k + 1, k + 1) = v
    OBVIOUS
<1>1. Len(v) = 1 /\ v[1] = c /\ v \in Seq({c})
    OBVIOUS
<1> HIDE DEF v
<1>2. k + Len(v) <= Len(in) /\ k + Len(v) = k + 1 /\ \A i \in 1..Len(v) : in[k + i] = v[i]
    BY <1>1
<1>3. SubSeq(in, k + 1, k + Len(v)) = v
    BY <1>1, <1>2, PartIs
<1> QED BY <1>2, <1>3

(* The part that a text begins with.                                       *)
LEMMA FirstPart ==
    ASSUME NEW S, NEW in \in Seq(S), NEW v \in Seq(S), Len(v) <= Len(in), \A i \in 1..Len(v) : in[i] = v[i]
    PROVE  SubSeq(in, 1, Len(v)) = v
<1> SUFFICES ASSUME NEW k \in Nat, k = 0 PROVE SubSeq(in, 1, Len(v)) = v
    OBVIOUS
<1>1. Len(v) \in Nat /\ Len(in) \in Nat
    BY LenProperties
<1> DEFINE n == Len(v)
<1>2. k + n = n /\ k + 1 = 1 /\ k + n <= Len(in) /\ \A i \in 1..n : in[k + i] = v[i]
    BY <1>1
<1>3. SubSeq(in, k + 1, k + n) = v
    BY <1>2, PartIs
<1> QED BY <1>2, <1>3

(* One or two places to cut at.                                            *)
LEMMA ShortCuts ==
    ASSUME NEW a, a \in Nat, NEW c, c \in Nat
    PROVE  <<c>> \in Seq(Nat) /\ <<a, c>> \in Seq(Nat) /\ <<c>> \o <<>> = <<c>> /\ <<a>> \o <<c>> = <<a, c>>
<1>1. <<c>> \in Seq(Nat) /\ <<a, c>> \in Seq(Nat)
    BY ShortTexts
<1>2. <<c>> \o <<>> = <<c>>
    BY <1>1, ConcatEmptySeq
<1> DEFINE s == <<a>>
           t == <<c>>
           u == <<a, c>>
           st == s \o t
<1>3. /\ s \in Seq(Nat) /\ t \in Seq(Nat) /\ u \in Seq(Nat) /\ Len(s) = 1 /\ Len(t) = 1 /\ Len(u) = 2
      /\ s[1] = a /\ t[1] = c /\ u[1] = a /\ u[2] = c
    BY ShortTexts
<1> HIDE DEF s, t, u
<1>4. st \in Seq(Nat) /\ Len(st) = 1 + 1 /\ \A i \in 1..(1 + 1) : st[i] = IF i <= 1 THEN s[i] ELSE t[i - 1]
    <2>1. s \in Seq(Nat) /\ t \in Seq(Nat)
        BY <1>3
    <2>2. st \in Seq(Nat) /\ Len(st) = Len(s) + Len(t)
          /\ \A i \in 1..(Len(s) + Len(t)) : st[i] = IF i <= Len(s) THEN s[i] ELSE t[i - Len(s)]
        BY <2>1, ConcatProperties
    <2>3. Len(s) = 1 /\ Len(t) = 1
        BY <1>3
    <2> HIDE DEF st
    <2> QED BY <2>2, <2>3, Zenon
<1> HIDE DEF st
<1>5. st[1] = a /\ st[2] = c /\ Len(st) = 2
    BY <1>3, <1>4
<1>6. \A i \in 1..Len(st) : st[i] = u[i]
    BY <1>3, <1>5
<1>7. st = u
    BY <1>3, <1>4, <1>5, <1>6, SeqEqual
<1> QED BY <1>1, <1>2, <1>7 DEF s, t, u, st

(* A row is cut into its name, its signal and its flag, whatever the name. *)
LEMMA RowIsSplit ==
    ASSUME NEW S, NEW in, NEW v, NEW ss, NEW t, NEW s, NEW o, RowSpelt(S, in, v, ss, t, s, o)
    PROVE  IsSplit(Codec!splitEscaped(in, "|"), v, s, o)
<1> DEFINE q == <<"|", s, "|", o>>
           bar == "|"
           n == Len(v)
           none == <<>>
<1>1. v = Codec!FlattenSeq(ss) /\ ss \in Seq(Seq(S)) /\ ListSpells(ss, t)
    BY Zenon DEF RowSpelt
<1>2. in \in Seq(S) /\ v \in Seq(S) /\ q \in Seq(S)
    BY Zenon DEF RowSpelt, IsRow
<1>3. Len(in) = n + 4 /\ Values(in, n, s, o) /\ \A i \in 1..n : in[i] = v[i]
    BY Zenon DEF RowSpelt, IsRow
<1>m. in = v \o q
    BY Zenon DEF RowSpelt, IsRow
<1>4. n \in Nat
    BY <1>2, LenProperties
<1>5. in[n + 1] = bar /\ in[n + 2] = s /\ in[n + 3] = bar /\ in[n + 4] = o /\ {s, o} \cap {"\\", "|", Comma} = {}
    BY <1>3, Zenon DEF Values
<1>6. s # "\\" /\ s # bar /\ o # "\\" /\ o # bar /\ bar # "\\" /\ bar \in {"|", Comma}
    BY <1>5, NoValue
<1>7. PICK reads, next, w : /\ ListWalks(S, in, bar, reads, next, w) /\ w[Len(in) + 1] = <<>>
                            /\ Codec!splitEscaped(in, bar) = CutAt(in, w[1])
    BY <1>2, Splits
<1>8. ListHolds(S, in, none, ss, q, t)
    <2>1. none \in Seq(S) /\ none \o v = v
        BY <1>2, EmptySeq, ConcatEmptySeq
    <2>2. IsMade(in, none, v, q)
        BY <1>m, <2>1, Zenon DEF IsMade
    <2>3. IsMade(in, none, Codec!FlattenSeq(ss), q)
        BY <1>1, <2>2, Zenon
    <2> QED BY <1>1, <1>2, <2>1, <2>3, Zenon DEF ListHolds
<1>9. Len(none) + Len(Codec!FlattenSeq(ss)) + 1 = n + 1 /\ Len(none) + 1 = 1
    <2>1. Len(none) = 0
        OBVIOUS
    <2> HIDE DEF none
    <2>2. Len(none) + Len(v) + 1 = n + 1 /\ Len(none) + 1 = 1
        BY <1>4, <2>1
    <2> QED BY <1>1, <2>2, Zenon
<1> HIDE DEF q, bar, none
<1> DEFINE a == n + 1
           b == n + 2
           c == n + 3
           d == n + 4
           e == n + 5
<1>10. /\ a \in 1..Len(in) /\ b \in 1..Len(in) /\ c \in 1..Len(in) /\ d \in 1..Len(in)
       /\ a + 1 = b /\ b + 1 = c /\ c + 1 = d /\ d + 1 = e /\ e = Len(in) + 1 /\ c \in Nat /\ a \in Nat
    BY <1>3, <1>4
<1>11. in[a] = bar /\ in[b] = s /\ in[c] = bar /\ in[d] = o
    BY <1>5, Zenon
<1>12. Len(in) \in Nat /\ n \in Nat
    BY <1>2, LenProperties
<1> HIDE DEF a, b, c, d, e
<1>13. w[e] = <<>> /\ <<>> \in Seq(Nat)
    <2>1. <<>> \in Seq(Nat)
        BY EmptySeq
    <2> QED BY <1>7, <1>10, <2>1, Zenon
<1>14. w[d] = none /\ none \in Seq(Nat)
    <2>1. in[d] # bar
        BY <1>6, <1>11, Zenon
    <2>2. IsPlace(S, in, bar, reads, next, w, d, none, Nat)
        BY <1>6, <1>7, <1>10, <1>11, <1>13, Zenon DEF IsPlace, none
    <2>3. w[d] = none
        BY <2>1, <2>2, PassesOne
    <2> QED BY <1>13, <2>3, Zenon DEF none
<1> DEFINE one == <<c>>
           two == <<a, c>>
<1>15. one \in Seq(Nat) /\ two \in Seq(Nat) /\ <<c>> \o <<>> = one /\ <<a>> \o <<c>> = two
    <2>1. c \in Nat /\ a \in Nat
        BY <1>10
    <2> QED BY <2>1, ShortCuts
<1> HIDE DEF one, two
<1>16. w[c] = one
    <2>1. in[c] = bar
        BY <1>11
    <2>2. IsPlace(S, in, bar, reads, next, w, c, none, Nat)
        BY <1>6, <1>7, <1>10, <1>11, <1>14, Zenon DEF IsPlace
    <2>3. IsCut(w, c, none)
        BY <2>1, <2>2, CutsOne
    <2> QED BY <1>15, <2>3, Zenon DEF IsCut, none
<1>17. w[b] = one
    <2>1. in[b] # bar
        BY <1>6, <1>11, Zenon
    <2>2. IsPlace(S, in, bar, reads, next, w, b, one, Nat)
        BY <1>6, <1>7, <1>10, <1>11, <1>15, <1>16, Zenon DEF IsPlace
    <2> QED BY <2>1, <2>2, PassesOne
<1>18. w[a] = two
    <2>1. in[a] = bar
        BY <1>11
    <2>2. IsPlace(S, in, bar, reads, next, w, a, one, Nat)
        BY <1>6, <1>7, <1>10, <1>11, <1>15, <1>17, Zenon DEF IsPlace
    <2>3. IsCut(w, a, one)
        BY <2>1, <2>2, CutsOne
    <2> QED BY <1>15, <2>3, Zenon DEF IsCut, one
<1>19. w[1] = two
    <2>1. w[Len(none) + Len(Codec!FlattenSeq(ss)) + 1] = two
        BY <1>9, <1>18, Zenon DEF a
    <2>2. w[Len(none) + 1] = two
        <3>1. NamePassed(S, in, bar, reads, next, w, none, ss, q, t, two, Nat)
            BY <1>6, <1>7, <1>8, <1>15, <2>1, Zenon DEF NamePassed
        <3> QED BY <3>1, PassesName
    <2> QED BY <1>9, <2>2, Zenon
<1>20. Codec!splitEscaped(in, bar) = CutAt(in, two)
    BY <1>7, <1>19, Zenon
<1> DEFINE cut == CutAt(in, two)
<1>21. /\ Len(cut) = 3 /\ cut[1] = SubSeq(in, 1, a - 1)
       /\ cut[2] = SubSeq(in, a + 1, c - 1)
       /\ cut[3] = SubSeq(in, c + 1, Len(in))
    <2>1. CutsAtBoth(in, two, a, c)
        BY <1>10, <1>12, Zenon DEF two, CutsAtBoth
    <2> QED BY <2>1, CutTwice
<1> HIDE DEF cut
<1>22. a - 1 = n /\ a + 1 = b /\ c - 1 = b /\ c + 1 = d /\ Len(in) = d /\ n <= Len(in)
    BY <1>3, <1>4 DEF a, b, c, d
<1>23. SubSeq(in, 1, n) = v
    BY <1>2, <1>3, <1>22, FirstPart
<1>24. SubSeq(in, b, b) = <<s>>
    <2>1. a \in Nat /\ a + 1 <= Len(in) /\ in[a + 1] = s
        BY <1>4, <1>10, <1>11
    <2>2. SubSeq(in, a + 1, a + 1) = <<s>>
        BY <1>2, <2>1, OnePart
    <2> QED BY <1>22, <2>2, Zenon
<1>25. SubSeq(in, d, d) = <<o>>
    <2>1. c \in Nat /\ c + 1 <= Len(in) /\ in[c + 1] = o
        BY <1>4, <1>10, <1>11
    <2>2. SubSeq(in, c + 1, c + 1) = <<o>>
        BY <1>2, <2>1, OnePart
    <2> QED BY <1>22, <2>2, Zenon
<1>26. IsSplit(cut, v, s, o)
    BY <1>21, <1>22, <1>23, <1>24, <1>25, Zenon DEF IsSplit
<1> QED BY <1>20, <1>26, Zenon DEF cut, bar

(* Two rows, and how the list of them is made.                             *)
IsList(S, in, u, v) == u \in Seq(S) /\ v \in Seq(S) /\ Comma \in S /\ in = u \o <<Comma>> \o v

(* A list of two rows, seen from the name in the first.                    *)
LEMMA ListMadeOfFirst ==
    ASSUME NEW S, NEW in, NEW u, NEW v, IsList(S, in, u, v), NEW x, NEW q, u = x \o q, x \in Seq(S), q \in Seq(S)
    PROVE  IsMade(in, <<>>, x, q \o <<Comma>> \o v) /\ q \o <<Comma>> \o v \in Seq(S)
<1> DEFINE c == <<Comma>>
           qc == q \o c
<1>1. u \in Seq(S) /\ v \in Seq(S) /\ in = u \o c \o v
    BY Zenon DEF IsList
<1>2. c \in Seq(S)
    <2>1. Comma \in S
        BY Zenon DEF IsList
    <2> QED BY <2>1, ShortTexts
<1> HIDE DEF c
<1>3. ThreeTexts(S, x, q, c)
    BY <1>2, Zenon DEF ThreeTexts
<1>4. (x \o q) \o c = x \o qc /\ qc \in Seq(S)
    <2>1. Associate(S, x, q, c)
        BY <1>3, Associates
    <2> QED BY <2>1, Zenon DEF Associate
<1> HIDE DEF qc
<1>5. ThreeTexts(S, x, qc, v)
    BY <1>1, <1>4, Zenon DEF ThreeTexts
<1>6. (x \o qc) \o v = x \o (qc \o v) /\ qc \o v \in Seq(S)
    <2>1. Associate(S, x, qc, v)
        BY <1>5, Associates
    <2> QED BY <2>1, Zenon DEF Associate
<1>7. <<>> \o x = x
    BY ConcatEmptySeq
<1>8. in = x \o (qc \o v)
    BY <1>1, <1>4, <1>6, Zenon
<1>9. in = (<<>> \o x) \o (qc \o v)
    BY <1>7, <1>8, Zenon
<1>10. IsMade(in, <<>>, x, qc \o v)
    BY <1>9, Zenon DEF IsMade
<1> QED BY <1>6, <1>10, Zenon DEF qc, c

(* And seen from the name in the second.                                   *)
LEMMA ListMadeOfSecond ==
    ASSUME NEW S, NEW in, NEW u, NEW v, IsList(S, in, u, v), NEW y, NEW q, v = y \o q, y \in Seq(S), q \in Seq(S)
    PROVE  IsMade(in, u \o <<Comma>>, y, q) /\ u \o <<Comma>> \in Seq(S) /\ Len(u \o <<Comma>>) = Len(u) + 1
<1> DEFINE c == <<Comma>>
           uc == u \o c
<1>1. u \in Seq(S) /\ v \in Seq(S) /\ in = u \o c \o v
    BY Zenon DEF IsList
<1>2. c \in Seq(S) /\ Len(c) = 1
    <2>1. Comma \in S
        BY Zenon DEF IsList
    <2>2. c \in Seq(S)
        BY <2>1, ShortTexts
    <2>3. Len(c) = 1
        OBVIOUS
    <2> QED BY <2>2, <2>3
<1> HIDE DEF c
<1>3. uc \in Seq(S) /\ Len(uc) = Len(u) + Len(c)
    BY <1>1, <1>2, ConcatProperties
<1> HIDE DEF uc
<1>4. ThreeTexts(S, uc, y, q)
    BY <1>3, Zenon DEF ThreeTexts
<1>5. (uc \o y) \o q = uc \o (y \o q)
    <2>1. Associate(S, uc, y, q)
        BY <1>4, Associates
    <2> QED BY <2>1, Zenon DEF Associate
<1>6. in = (uc \o y) \o q
    BY <1>1, <1>5, Zenon DEF uc
<1>7. IsMade(in, uc, y, q)
    BY <1>6, Zenon DEF IsMade
<1> QED BY <1>2, <1>3, <1>7, Zenon DEF uc, c

ListLaid(S, in, u, v, k) ==
    /\ in \in Seq(S) /\ Len(in) = k + Len(v) /\ k \in Nat /\ Len(v) \in Nat
    /\ \A i \in 1..Len(u) : in[i] = u[i]
    /\ in[k] = Comma
    /\ \A i \in 1..Len(v) : in[k + i] = v[i]

(* Where the comma and the two rows of a list are.                         *)
LEMMA ListLayout ==
    ASSUME NEW S, NEW in, NEW u, NEW v, IsList(S, in, u, v)
    PROVE  ListLaid(S, in, u, v, Len(u) + 1)
<1> DEFINE c == <<Comma>>
<1>1. u \in Seq(S) /\ v \in Seq(S) /\ in = u \o c \o v
    BY Zenon DEF IsList
<1>2. c \in Seq(S)
    <2>1. Comma \in S
        BY Zenon DEF IsList
    <2> QED BY <2>1, ShortTexts
<1>3. Len(c) = 1 /\ 1 \in 1..Len(c) /\ c[1] = Comma
    OBVIOUS
<1> HIDE DEF c
<1>4. IsThree(S, u \o c \o v, u, c, v)
    BY <1>1, <1>2, ThreeLie
<1>5. IsThree(S, in, u, c, v)
    BY <1>1, <1>4, Zenon
<1>6. Len(u) \in Nat /\ Len(v) \in Nat
    BY <1>1, LenProperties
<1>7. /\ in \in Seq(S) /\ Len(in) = Len(u) + 1 + Len(v)
      /\ \A i \in 1..Len(u) : in[i] = u[i]
      /\ in[Len(u) + 1] = Comma
      /\ \A i \in 1..Len(v) : in[Len(u) + 1 + i] = v[i]
    BY <1>3, <1>5, Zenon DEF IsThree
<1> DEFINE j == Len(u) + 1
<1>8. /\ j \in Nat /\ Len(in) = j + Len(v) /\ in[j] = Comma
      /\ \A i \in 1..Len(v) : in[j + i] = v[i]
    <2>1. j \in Nat
        BY <1>6
    <2> QED BY <1>7, <2>1, Zenon
<1> HIDE DEF j
<1>9. ListLaid(S, in, u, v, j)
    BY <1>6, <1>7, <1>8, Zenon DEF ListLaid
<1> QED BY <1>9 DEF j

(* A row's values are also in the list, further on.                        *)
LEMMA ValuesMoved ==
    ASSUME NEW in, NEW u, NEW n, NEW s, NEW o, Values(u, n, s, o), NEW k, k \in Nat, NEW m, m = k + n,
           Len(u) \in Nat, Len(in) \in Nat, k + Len(u) <= Len(in), \A i \in 1..Len(u) : in[k + i] = u[i]
    PROVE  Values(in, m, s, o)
<1>1. n \in Nat /\ n + 4 <= Len(u) /\ {s, o} \cap {"\\", "|", Comma} = {}
    BY Zenon DEF Values
<1>2. u[n + 1] = "|" /\ u[n + 2] = s /\ u[n + 3] = "|" /\ u[n + 4] = o
    BY Zenon DEF Values
<1>3. m \in Nat /\ m + 4 <= Len(in)
    BY <1>1
<1>4. ASSUME NEW j \in 1..4 PROVE in[m + j] = u[n + j]
    <2> DEFINE i == n + j
    <2>1. i \in 1..Len(u) /\ k + i = m + j
        BY <1>1
    <2> HIDE DEF i
    <2>2. in[k + i] = u[i]
        BY <2>1, Zenon
    <2> QED BY <2>1, <2>2 DEF i
<1>5. 1 \in 1..4 /\ 2 \in 1..4 /\ 3 \in 1..4 /\ 4 \in 1..4
    OBVIOUS
<1>6. in[m + 1] = "|" /\ in[m + 2] = s /\ in[m + 3] = "|" /\ in[m + 4] = o
    BY <1>2, <1>4, <1>5, Zenon
<1> QED BY <1>1, <1>3, <1>6, Zenon DEF Values

(* A list of two networks.                                                 *)
TwoRows(S, in, u, x, xs, a, r, o, v, y, ys, b, s, l) ==
    /\ RowSpelt(S, u, x, xs, a, r, o) /\ RowSpelt(S, v, y, ys, b, s, l) /\ IsList(S, in, u, v)

IsCutInTwo(rows, u, v) == Len(rows) = 2 /\ DOMAIN rows = 1..2 /\ rows[1] = u /\ rows[2] = v

(* A list is cut into its rows, whatever their names.                      *)
LEMMA ListIsSplit ==
    ASSUME NEW S, NEW in, NEW u, NEW x, NEW xs, NEW a, NEW r, NEW o, NEW v, NEW y, NEW ys, NEW b, NEW s, NEW l,
           TwoRows(S, in, u, x, xs, a, r, o, v, y, ys, b, s, l)
    PROVE  IsCutInTwo(Codec!splitEscaped(in, Comma), u, v)
<1> DEFINE q1 == <<"|", r, "|", o>>
           q2 == <<"|", s, "|", l>>
           lu == Len(u)
           lv == Len(v)
           lx == Len(x)
           ly == Len(y)
           k == lu + 1
           none == <<>>
           front == u \o <<Comma>>
           back == q1 \o <<Comma>> \o v
<1>1. IsList(S, in, u, v)
    BY Zenon DEF TwoRows
<1>2. x = Codec!FlattenSeq(xs) /\ xs \in Seq(Seq(S)) /\ ListSpells(xs, a)
    BY Zenon DEF TwoRows, RowSpelt
<1>3. y = Codec!FlattenSeq(ys) /\ ys \in Seq(Seq(S)) /\ ListSpells(ys, b)
    BY Zenon DEF TwoRows, RowSpelt
<1>4. u \in Seq(S) /\ x \in Seq(S) /\ q1 \in Seq(S) /\ v \in Seq(S) /\ y \in Seq(S) /\ q2 \in Seq(S)
    BY Zenon DEF TwoRows, RowSpelt, IsRow
<1>5. u = x \o q1 /\ v = y \o q2
    BY Zenon DEF TwoRows, RowSpelt, IsRow
<1>6. lu = lx + 4 /\ Values(u, lx, r, o)
    BY Zenon DEF TwoRows, RowSpelt, IsRow
<1>7. lv = ly + 4 /\ Values(v, ly, s, l)
    BY Zenon DEF TwoRows, RowSpelt, IsRow
<1>8. lu \in Nat /\ lv \in Nat /\ lx \in Nat /\ ly \in Nat
    BY <1>4, LenProperties
<1>9. IsMade(in, none, x, back) /\ back \in Seq(S)
    <2> HIDE DEF q1
    <2> QED BY <1>1, <1>4, <1>5, ListMadeOfFirst
<1>10. IsMade(in, front, y, q2) /\ front \in Seq(S) /\ Len(front) = k
    <2> HIDE DEF q2
    <2> QED BY <1>1, <1>4, <1>5, ListMadeOfSecond
<1>11. /\ in \in Seq(S) /\ Len(in) = k + lv /\ k \in Nat
       /\ \A i \in 1..lu : in[i] = u[i]
       /\ in[k] = Comma
       /\ \A i \in 1..lv : in[k + i] = v[i]
    <2>1. ListLaid(S, in, u, v, k)
        BY <1>1, ListLayout
    <2> HIDE DEF k
    <2> QED BY <2>1, Zenon DEF ListLaid
<1> HIDE DEF q1, q2, front, back, lu, lv, lx, ly
<1>12. Len(in) \in Nat /\ k <= Len(in) /\ k \in 1..Len(in) /\ lu <= Len(in)
    BY <1>8, <1>11
<1>13. Values(in, lx, r, o)
    <2> DEFINE z == 0
    <2>1. \A i \in 1..lu : in[z + i] = u[i]
        BY <1>8, <1>11
    <2>2. z \in Nat /\ lx = z + lx /\ z + lu <= Len(in)
        BY <1>8, <1>12
    <2> HIDE DEF z
    <2> QED BY <1>6, <1>8, <1>12, <2>1, <2>2, ValuesMoved DEF lu
<1>14. Values(in, k + ly, s, l)
    <2>1. k + lv <= Len(in)
        BY <1>11, <1>12
    <2> HIDE DEF k
    <2> QED BY <1>7, <1>8, <1>11, <1>12, <2>1, ValuesMoved DEF lv
<1>15. PICK reads, next, w : /\ ListWalks(S, in, Comma, reads, next, w) /\ w[Len(in) + 1] = <<>>
                             /\ Codec!splitEscaped(in, Comma) = CutAt(in, w[1])
    <2>1. in \in Seq(S)
        BY <1>11
    <2> QED BY <2>1, Splits
<1>16. none \in Seq(Nat) /\ none \in Seq(S) /\ Len(none) = 0
    BY EmptySeq
<1>17. Comma \in {"|", Comma} /\ Comma # "\\"
    BY Delimiters
<1> DEFINE one == <<k>>
<1>18. one \in Seq(Nat) /\ <<k>> \o none = one
    <2>1. k \in Nat
        BY <1>11
    <2> HIDE DEF k
    <2> QED BY <2>1, ShortCuts
<1>19. /\ k + ly + 5 = Len(in) + 1 /\ lx + 5 = k
       /\ Len(none) + lx + 1 = lx + 1 /\ Len(none) + 1 = 1
    BY <1>6, <1>7, <1>8, <1>11, <1>16
<1> HIDE DEF none, one, k
<1>20. w[k + ly + 1] = none
    <2>1. w[k + ly + 5] = none
        BY <1>15, <1>19, Zenon DEF none
    <2>2. ValuesPassed(S, in, reads, next, w, k + ly, s, l, none, Nat)
        BY <1>14, <1>15, <1>16, <2>1, Zenon DEF ValuesPassed
    <2> DEFINE m == k + ly
    <2> HIDE DEF m
    <2>3. w[m + 1] = none
        BY <2>2, PassesValues DEF m
    <2> QED BY <2>3, Zenon DEF m
<1>21. w[k + 1] = none
    <2>1. w[Len(front) + Len(Codec!FlattenSeq(ys)) + 1] = none
        BY <1>3, <1>10, <1>20, Zenon DEF ly
    <2>2. ListHolds(S, in, front, ys, q2, b)
        <3>1. IsMade(in, front, Codec!FlattenSeq(ys), q2)
            BY <1>3, <1>10, Zenon
        <3> QED BY <1>3, <1>4, <1>10, <3>1, Zenon DEF ListHolds
    <2>3. NamePassed(S, in, Comma, reads, next, w, front, ys, q2, b, none, Nat)
        BY <1>15, <1>16, <1>17, <2>1, <2>2, Zenon DEF NamePassed
    <2>4. w[Len(front) + 1] = none
        BY <2>3, PassesName
    <2> QED BY <1>10, <2>4, Zenon
<1>22. w[k] = one
    <2>1. IsPlace(S, in, Comma, reads, next, w, k, none, Nat)
        BY <1>11, <1>12, <1>15, <1>16, <1>17, <1>21, Zenon DEF IsPlace
    <2>2. in[k] = Comma
        BY <1>11
    <2>3. IsCut(w, k, none)
        BY <2>1, <2>2, CutsOne
    <2> QED BY <1>18, <2>3, Zenon DEF IsCut
<1>23. w[lx + 1] = one
    <2>1. w[lx + 5] = one
        BY <1>19, <1>22, Zenon
    <2>2. ValuesPassed(S, in, reads, next, w, lx, r, o, one, Nat)
        BY <1>13, <1>15, <1>18, <2>1, Zenon DEF ValuesPassed
    <2> QED BY <2>2, PassesValues
<1>24. w[1] = one
    <2>1. w[Len(none) + Len(Codec!FlattenSeq(xs)) + 1] = one
        BY <1>2, <1>19, <1>23, Zenon DEF lx
    <2>2. ListHolds(S, in, none, xs, back, a)
        <3>1. IsMade(in, none, Codec!FlattenSeq(xs), back)
            BY <1>2, <1>9, Zenon
        <3> QED BY <1>2, <1>9, <1>16, <3>1, Zenon DEF ListHolds
    <2>3. NamePassed(S, in, Comma, reads, next, w, none, xs, back, a, one, Nat)
        BY <1>15, <1>17, <1>18, <2>1, <2>2, Zenon DEF NamePassed
    <2>4. w[Len(none) + 1] = one
        BY <2>3, PassesName
    <2> QED BY <1>19, <2>4, Zenon
<1> DEFINE rows == CutAt(in, one)
<1>25. Codec!splitEscaped(in, Comma) = rows
    BY <1>15, <1>24, Zenon
<1>26. Len(rows) = 2 /\ DOMAIN rows = 1..2 /\ rows[1] = SubSeq(in, 1, k - 1) /\ rows[2] = SubSeq(in, k + 1, Len(in))
    <2>1. CutsAt(in, one, k)
        BY <1>11, <1>12, Zenon DEF CutsAt, one
    <2> QED BY <2>1, CutOnce
<1> HIDE DEF rows
<1>27. SubSeq(in, 1, k - 1) = u
    <2>1. k - 1 = lu
        BY <1>8 DEF k
    <2>2. SubSeq(in, 1, Len(u)) = u
        BY <1>4, <1>11, <1>12, FirstPart DEF lu
    <2> QED BY <2>1, <2>2, Zenon DEF lu
<1>28. SubSeq(in, k + 1, Len(in)) = v
    <2> SUFFICES ASSUME NEW m \in Nat, m = k PROVE SubSeq(in, m + 1, Len(in)) = v
        BY <1>11
    <2>1. m + Len(v) = Len(in) /\ m + Len(v) <= Len(in) /\ \A i \in 1..Len(v) : in[m + i] = v[i]
        BY <1>11, <1>12 DEF lv
    <2>2. SubSeq(in, m + 1, m + Len(v)) = v
        BY <1>4, <1>11, <2>1, PartIs
    <2> QED BY <2>1, <2>2, Zenon
<1>29. IsCutInTwo(rows, u, v)
    BY <1>26, <1>27, <1>28, Zenon DEF IsCutInTwo
<1> QED BY <1>25, <1>29, Zenon

(* A network's row as it is written.                                       *)
LEMMA RowText ==
    ASSUME NEW S, NEW v \in Seq(S), "|" \in S, NEW r \in S, NEW o \in S
    PROVE  v \o <<"|">> \o <<r>> \o <<"|", o>> = v \o <<"|", r, "|", o>>
<1> DEFINE bar == <<"|">>
           t == <<r>>
           z == <<"|", o>>
           q == <<"|", r, "|", o>>
           bt == bar \o t
<1>1. /\ bar \in Seq(S) /\ t \in Seq(S) /\ z \in Seq(S) /\ q \in Seq(S)
      /\ Len(bar) = 1 /\ Len(t) = 1 /\ Len(z) = 2 /\ Len(q) = 4
      /\ bar[1] = "|" /\ t[1] = r /\ z[1] = "|" /\ z[2] = o
      /\ q[1] = "|" /\ q[2] = r /\ q[3] = "|" /\ q[4] = o
    <2>1. bar \in Seq(S) /\ t \in Seq(S) /\ z \in Seq(S)
        BY ShortTexts
    <2> QED BY <2>1
<1> HIDE DEF bar, t, z, q
<1>2. bar \o t \o z = q
    <2>1. IsThree(S, bar \o t \o z, bar, t, z)
        BY <1>1, ThreeLie
    <2> DEFINE w == bar \o t \o z
    <2>2. IsThree(S, w, bar, t, z)
        BY <2>1
    <2> HIDE DEF w
    <2>3. /\ w \in Seq(S) /\ Len(w) = 1 + 1 + 2
          /\ \A i \in 1..1 : w[i] = bar[i]
          /\ \A i \in 1..1 : w[1 + i] = t[i]
          /\ \A i \in 1..2 : w[1 + 1 + i] = z[i]
        BY <1>1, <2>2, Zenon DEF IsThree
    <2>4. w \in Seq(S) /\ Len(w) = 4 /\ w[1] = "|" /\ w[2] = r /\ w[3] = "|" /\ w[4] = o
        BY <1>1, <2>3
    <2>5. ASSUME NEW i \in 1..Len(w) PROVE w[i] = q[i]
        <3>1. i = 1 \/ i = 2 \/ i = 3 \/ i = 4
            BY <2>4
        <3> QED BY <1>1, <2>4, <3>1, Zenon
    <2>6. w = q
        BY <1>1, <2>4, <2>5, SeqEqual
    <2> QED BY <2>6 DEF w
<1>3. ThreeTexts(S, v, bar, t)
    BY <1>1, Zenon DEF ThreeTexts
<1>4. (v \o bar) \o t = v \o bt /\ bt \in Seq(S)
    <2>1. Associate(S, v, bar, t)
        BY <1>3, Associates
    <2> QED BY <2>1, Zenon DEF Associate
<1> HIDE DEF bt
<1>5. ThreeTexts(S, v, bt, z)
    BY <1>1, <1>4, Zenon DEF ThreeTexts
<1>6. (v \o bt) \o z = v \o (bt \o z)
    <2>1. Associate(S, v, bt, z)
        BY <1>5, Associates
    <2> QED BY <2>1, Zenon DEF Associate
<1>7. (v \o bar) \o t \o z = v \o q
    BY <1>2, <1>4, <1>6, Zenon DEF bt
<1> QED BY <1>7 DEF bar, t, z, q

IsSignal(r, o) == r \in {"-80", "-40"} /\ o \in {"0", "1"}
ListCharacters(A) == ListWritten(A) \cup {"|", Comma, "-80", "-40", "0", "1"}

(* What scanNetworks writes of a network is a row with the name's tokens.  *)
LEMMA NetworkIsSpelt ==
    ASSUME NEW A, NEW a \in Seq(A), NEW r, NEW o, IsSignal(r, o)
    PROVE  \E xs : RowSpelt(ListCharacters(A), Codec!Network(a, <<r>>, o), Codec!listEscape(a), xs, a, r, o)
<1> DEFINE S == ListCharacters(A)
           T == ListWritten(A)
           x == Codec!listEscape(a)
<1>1. PICK xs \in Seq(Seq(T)) : x = Codec!FlattenSeq(xs) /\ ListSpells(xs, a)
    BY ListEscapedText
<1>2. T \subseteq S /\ "|" \in S /\ r \in S /\ o \in S
    BY DEF ListCharacters, IsSignal
<1> HIDE DEF S, T, x
<1>3. xs \in Seq(Seq(S))
    <2>1. Seq(T) \subseteq Seq(S)
        BY <1>2, SeqMonotonic
    <2> QED BY <2>1, SeqMonotonic
<1>4. x \in Seq(S)
    <2>1. Codec!FlattenSeq(xs) \in Seq(S)
        BY <1>3, FlattenLies
    <2> QED BY <1>1, <2>1, Zenon
<1>5. {r, o} \cap {"\\", "|", Comma} = {}
    <2>1. r # "\\" /\ r # "|" /\ r # Comma /\ o # "\\" /\ o # "|" /\ o # Comma
        BY Delimiters DEF IsSignal
    <2> QED BY <2>1
<1>6. IsRow(S, x \o <<"|", r, "|", o>>, x, r, o)
    BY <1>2, <1>4, <1>5, RowLayout
<1>7. Codec!Network(a, <<r>>, o) = x \o <<"|", r, "|", o>>
    <2>1. Codec!Network(a, <<r>>, o) = x \o <<"|">> \o <<r>> \o <<"|", o>>
        BY Zenon DEF Codec!Network, x
    <2>2. x \o <<"|">> \o <<r>> \o <<"|", o>> = x \o <<"|", r, "|", o>>
        BY <1>2, <1>4, RowText
    <2> QED BY <2>1, <2>2, Zenon
<1>8. IsRow(S, Codec!Network(a, <<r>>, o), x, r, o)
    BY <1>6, <1>7, Zenon
<1>9. RowSpelt(S, Codec!Network(a, <<r>>, o), x, xs, a, r, o)
    BY <1>1, <1>3, <1>8, Zenon DEF RowSpelt
<1> QED BY <1>9 DEF S, x

(* The rows of a list of two networks.                                     *)
RowsOf(rows, a, r, o, b, s, l) ==
    /\ Len(rows) = 2
    /\ IsSplit(rows[1], Codec!listEscape(a), r, o) /\ IsSplit(rows[2], Codec!listEscape(b), s, l)

(* The page reads from a list the rows that were written.                  *)
LEMMA ListRows ==
    ASSUME NEW A, NEW a \in Seq(A), NEW b \in Seq(A), NEW r, NEW o, IsSignal(r, o), NEW s, NEW l, IsSignal(s, l)
    PROVE  RowsOf(Codec!Rows(Codec!Network(a, <<r>>, o) \o <<Comma>> \o Codec!Network(b, <<s>>, l)), a, r, o, b, s, l)
<1> DEFINE S == ListCharacters(A)
           u == Codec!Network(a, <<r>>, o)
           v == Codec!Network(b, <<s>>, l)
           x == Codec!listEscape(a)
           y == Codec!listEscape(b)
           in == u \o <<Comma>> \o v
           lines == Codec!splitEscaped(in, Comma)
           rows == [i \in DOMAIN lines |-> Codec!splitEscaped(lines[i], "|")]
<1>1. PICK xs : RowSpelt(S, u, x, xs, a, r, o)
    BY NetworkIsSpelt
<1>2. PICK ys : RowSpelt(S, v, y, ys, b, s, l)
    BY NetworkIsSpelt
<1>3. Comma \in S
    BY DEF ListCharacters
<1>4. Codec!Rows(in) = rows
    BY Zenon DEF Codec!Rows, Comma
<1> HIDE DEF S, u, v, x, y
<1>5. IsList(S, in, u, v)
    BY <1>1, <1>2, <1>3, Zenon DEF IsList, RowSpelt, IsRow
<1> HIDE DEF in
<1>6. TwoRows(S, in, u, x, xs, a, r, o, v, y, ys, b, s, l)
    BY <1>1, <1>2, <1>5, Zenon DEF TwoRows
<1>7. IsCutInTwo(lines, u, v)
    BY <1>6, ListIsSplit
<1>8. IsSplit(Codec!splitEscaped(u, "|"), x, r, o)
    BY <1>1, RowIsSplit
<1>9. IsSplit(Codec!splitEscaped(v, "|"), y, s, l)
    BY <1>2, RowIsSplit
<1> HIDE DEF lines
<1>10. DOMAIN lines = 1..2 /\ lines[1] = u /\ lines[2] = v
    BY <1>7, Zenon DEF IsCutInTwo
<1>11. Len(rows) = 2 /\ rows[1] = Codec!splitEscaped(u, "|") /\ rows[2] = Codec!splitEscaped(v, "|")
    BY <1>10
<1> HIDE DEF rows
<1>12. RowsOf(rows, a, r, o, b, s, l)
    BY <1>8, <1>9, <1>11, Zenon DEF RowsOf, x, y
<1> QED BY <1>4, <1>12, Zenon DEF in, u, v

(* A list of two rows is read row by row.                                  *)
LEMMA TwoAdded ==
    ASSUME NEW data, Len(Codec!Rows(data)) = 2
    PROVE  Codec!populateNetworks(data)
             = Codec!Added(Codec!Added({}, Codec!Rows(data)[1]), Codec!Rows(data)[2])
<1> DEFINE R == Codec!Rows(data)
           next(g, i) == IF i = 0 THEN {} ELSE Codec!Added(g[i - 1], R[i])
           Def(g) == g = [i \in 0..Len(R) |-> next(g, i)]
           f == CHOOSE g : Def(g)
           one == Codec!Added({}, R[1])
           two == Codec!Added(one, R[2])
           h == [i \in 0..Len(R) |-> IF i = 0 THEN {} ELSE IF i = 1 THEN one ELSE two]
<1>1. Codec!populateNetworks(data) = f[Len(R)]
    BY Zenon DEF Codec!populateNetworks
<1>2. Len(R) = 2
    OBVIOUS
<1> HIDE DEF R
<1>3. h[0] = {} /\ h[1] = one /\ h[2] = two
    <2>1. 0 \in 0..Len(R) /\ 1 \in 0..Len(R) /\ 2 \in 0..Len(R) /\ 1 # 0 /\ 2 # 0 /\ 2 # 1
        BY <1>2
    <2> QED BY <2>1, Zenon
<1>4. Def(h)
    <2> SUFFICES \A i \in 0..Len(R) : h[i] = next(h, i)
        <3>1. h = [i \in 0..Len(R) |-> h[i]]
            BY Zenon
        <3> QED BY <3>1
    <2> SUFFICES ASSUME NEW i \in 0..Len(R) PROVE h[i] = next(h, i)
        OBVIOUS
    <2>1. i = 0 \/ (i = 1 /\ i - 1 = 0 /\ i # 0) \/ (i = 2 /\ i - 1 = 1 /\ i # 0)
        BY <1>2
    <2> HIDE DEF h
    <2>2. CASE i = 0
        BY <1>3, <2>2, Zenon
    <2>3. CASE i = 1 /\ i - 1 = 0 /\ i # 0
        BY <1>3, <2>3, Zenon
    <2>4. CASE i = 2 /\ i - 1 = 1 /\ i # 0
        BY <1>3, <2>4, Zenon DEF one, two
    <2> QED BY <2>1, <2>2, <2>3, <2>4, Zenon
<1> HIDE DEF h, one, two
<1>5. Def(f)
    <2> HIDE DEF Def
    <2> QED BY <1>4, Zenon
<1> HIDE DEF f
<1>6. \A i \in 0..Len(R) : f[i] = next(f, i)
    BY <1>5
<1>7. f[0] = {}
    <2>1. 0 \in 0..Len(R)
        BY <1>2
    <2> QED BY <1>6, <2>1
<1>8. f[1] = one
    <2>1. 1 \in 0..Len(R) /\ 1 - 1 = 0 /\ 1 # 0
        BY <1>2
    <2>2. f[1] = Codec!Added(f[1 - 1], R[1])
        BY <1>6, <2>1, Zenon
    <2> QED BY <1>7, <2>1, <2>2, Zenon DEF one
<1>9. f[2] = two
    <2>1. 2 \in 0..Len(R) /\ 2 - 1 = 1 /\ 2 # 0
        BY <1>2
    <2>2. f[2] = Codec!Added(f[2 - 1], R[2])
        BY <1>6, <2>1, Zenon
    <2> QED BY <1>8, <2>1, <2>2, Zenon DEF two
<1> QED BY <1>1, <1>2, <1>9, Zenon DEF one, two, R

(* What a row adds to the networks that are listed.                        *)
AddedAs(networks, t, r, o) ==
    LET known == {n \in networks : n.ssid = t}
    IN  IF t = <<>> \/ \E n \in known : ~Codec!Stronger(<<r>>, n.rssi) THEN networks
        ELSE (networks \ known) \cup {[ssid |-> t, rssi |-> <<r>>, open |-> o = "0"]}

(* A row adds the network that was found, under its own name.              *)
LEMMA RowAdded ==
    ASSUME NEW A, NEW t \in Seq(A), NEW row, NEW r, NEW o, IsSplit(row, Codec!listEscape(t), r, o), NEW networks
    PROVE  Codec!Added(networks, row) = AddedAs(networks, t, r, o)
<1>1. Len(row) = 3 /\ row[1] = Codec!listEscape(t) /\ row[2] = <<r>> /\ row[3] = <<o>>
    BY Zenon DEF IsSplit
<1>2. Codec!unescapeField(row[1]) = t
    <2>1. Codec!unescapeField(Codec!listEscape(t)) = t
        BY ListNames
    <2> QED BY <1>1, <2>1, Zenon
<1>3. Codec!Part(row, 2) = <<r>> /\ Codec!Part(row, 3) = <<o>>
    <2>1. 2 <= Len(row) /\ 3 <= Len(row)
        BY <1>1
    <2> QED BY <1>1, <2>1, Zenon DEF Codec!Part
<1>4. (<<o>> = <<"0">>) = (o = "0")
    <2>1. <<o>>[1] = o /\ <<"0">>[1] = "0"
        OBVIOUS
    <2> QED BY <2>1
<1> QED BY <1>2, <1>3, <1>4, Zenon DEF Codec!Added, AddedAs

(* populateNetworks takes from a list both networks that were written into *)
(* it.                                                                     *)
LEMMA ListIsRead ==
    ASSUME NEW A, NEW a \in Seq(A), NEW b \in Seq(A), NEW r, NEW o, IsSignal(r, o), NEW s, NEW l, IsSignal(s, l)
    PROVE  Codec!populateNetworks(Codec!Network(a, <<r>>, o) \o <<Comma>> \o Codec!Network(b, <<s>>, l))
             = AddedAs(AddedAs({}, a, r, o), b, s, l)
<1> DEFINE data == Codec!Network(a, <<r>>, o) \o <<Comma>> \o Codec!Network(b, <<s>>, l)
           rows == Codec!Rows(data)
<1>1. RowsOf(rows, a, r, o, b, s, l)
    BY ListRows
<1> HIDE DEF data
<1>2. Len(rows) = 2 /\ IsSplit(rows[1], Codec!listEscape(a), r, o) /\ IsSplit(rows[2], Codec!listEscape(b), s, l)
    BY <1>1, Zenon DEF RowsOf
<1>3. Codec!populateNetworks(data) = Codec!Added(Codec!Added({}, rows[1]), rows[2])
    BY <1>2, TwoAdded
<1> HIDE DEF rows
<1>4. Codec!Added({}, rows[1]) = AddedAs({}, a, r, o)
    BY <1>2, RowAdded
<1>5. \A networks : Codec!Added(networks, rows[2]) = AddedAs(networks, b, s, l)
    BY <1>2, RowAdded
<1> QED BY <1>3, <1>4, <1>5, Zenon DEF data

(* The rows that the page keeps of two: each name once, at its strongest.  *)
Kept(ssid, rssi) ==
    LET row(i) == [ssid |-> ssid[i], rssi |-> rssi[i], open |-> i = 1]
    IN  {row(i) : i \in {i \in {1, 2} : ssid[i] # <<>> /\
            ~\E j \in {1, 2} \ {i} : ssid[j] = ssid[i] /\
                (Codec!Stronger(rssi[j], rssi[i]) \/ (rssi[j] = rssi[i] /\ j < i))}}

(* The second row is left out when its name is listed already and it is no *)
(* stronger.                                                               *)
Covered(a, b, r, s) == a = b /\ ~Codec!Stronger(<<s>>, <<r>>)
FirstRow(a, r) == [ssid |-> a, rssi |-> <<r>>, open |-> TRUE]
SecondRow(b, s) == [ssid |-> b, rssi |-> <<s>>, open |-> FALSE]

Listed(x, a, b, r, s) ==
    \/ x = FirstRow(a, r) /\ a # <<>> /\ ~(a = b /\ Codec!Stronger(<<s>>, <<r>>))
    \/ x = SecondRow(b, s) /\ b # <<>> /\ ~Covered(a, b, r, s)

(* Which of two rows are kept. *)
LEMMA KeptRows ==
    ASSUME NEW a, NEW b, NEW r \in {Codec!Weak, Codec!Strong}, NEW s \in {Codec!Weak, Codec!Strong}, NEW x
    PROVE  x \in Kept(<<a, b>>, << <<r>>, <<s>> >>) <=> Listed(x, a, b, r, s)
<1> DEFINE none == <<>>
           ssid == <<a, b>>
           rssi == << <<r>>, <<s>> >>
           Beaten(i) == \E j \in {1, 2} \ {i} : ssid[j] = ssid[i] /\
                            (Codec!Stronger(rssi[j], rssi[i]) \/ (rssi[j] = rssi[i] /\ j < i))
           row(i) == [ssid |-> ssid[i], rssi |-> rssi[i], open |-> i = 1]
<1>1. ssid[1] = a /\ ssid[2] = b /\ rssi[1] = <<r>> /\ rssi[2] = <<s>>
    OBVIOUS
<1>2. (<<r>> = <<s>>) = (r = s)
    <2>1. <<r>>[1] = r /\ <<s>>[1] = s
        OBVIOUS
    <2> QED BY <2>1
<1>3. Kept(ssid, rssi) = {row(i) : i \in {i \in {1, 2} : ssid[i] # none /\ ~Beaten(i)}}
    BY Zenon DEF Kept
<1> HIDE DEF none, ssid, rssi
<1>4. Beaten(1) <=> a = b /\ Codec!Stronger(<<s>>, <<r>>)
    <2>1. {1, 2} \ {1} = {2} /\ ~(2 < 1)
        OBVIOUS
    <2>2. Beaten(1) <=> ssid[2] = ssid[1] /\ (Codec!Stronger(rssi[2], rssi[1]) \/ (rssi[2] = rssi[1] /\ 2 < 1))
        BY <2>1
    <2> QED BY <1>1, <2>1, <2>2, Zenon
<1>5. Beaten(2) <=> a = b /\ (Codec!Stronger(<<r>>, <<s>>) \/ <<r>> = <<s>>)
    <2>1. {1, 2} \ {2} = {1} /\ 1 < 2
        OBVIOUS
    <2>2. Beaten(2) <=> ssid[1] = ssid[2] /\ (Codec!Stronger(rssi[1], rssi[2]) \/ (rssi[1] = rssi[2] /\ 1 < 2))
        BY <2>1
    <2> QED BY <1>1, <2>1, <2>2, Zenon
<1>6. Beaten(2) <=> Covered(a, b, r, s)
    <2>1. Codec!Weak # Codec!Strong
        BY Zenon DEF Codec!Weak, Codec!Strong
    <2>2. \A x1, x2 : Codec!Stronger(<<x1>>, <<x2>>) <=> x1 = Codec!Strong /\ x2 # Codec!Strong
        <3> SUFFICES ASSUME NEW x1, NEW x2
                     PROVE  Codec!Stronger(<<x1>>, <<x2>>) <=> x1 = Codec!Strong /\ x2 # Codec!Strong
            OBVIOUS
        <3>1. <<x1>>[1] = x1 /\ <<x2>>[1] = x2 /\ <<Codec!Strong>>[1] = Codec!Strong
            OBVIOUS
        <3> QED BY <3>1, Zenon DEF Codec!Stronger
    <2> QED BY <1>2, <1>5, <2>1, <2>2 DEF Covered
<1>7. row(1) = FirstRow(a, r) /\ row(2) = SecondRow(b, s)
    <2>1. (1 = 1) = TRUE /\ (2 = 1) = FALSE
        OBVIOUS
    <2> QED BY <1>1, <2>1, Zenon DEF FirstRow, SecondRow
<1> HIDE DEF Beaten, row
<1>8. x \in Kept(ssid, rssi) <=> \/ x = row(1) /\ ssid[1] # none /\ ~Beaten(1)
                                 \/ x = row(2) /\ ssid[2] # none /\ ~Beaten(2)
    BY <1>3
<1> QED BY <1>1, <1>4, <1>6, <1>7, <1>8, Zenon DEF ssid, rssi, none, Listed

(* What the page's loop makes of two rows. *)
LEMMA AddedRows ==
    ASSUME NEW a, NEW b, NEW r, NEW s, NEW x
    PROVE  x \in AddedAs(AddedAs({}, a, r, "0"), b, s, "1") <=> Listed(x, a, b, r, s)
<1> DEFINE none == <<>>
           one == AddedAs({}, a, r, "0")
           n1 == FirstRow(a, r)
           n2 == SecondRow(b, s)
           up == Codec!Stronger(<<s>>, <<r>>)
<1>1. one = IF a = none THEN {} ELSE {n1}
    <2>1. ("0" = "0") = TRUE
        BY Zenon
    <2>2. {n \in {} : n.ssid = a} = {}
        OBVIOUS
    <2>3. one = IF a = none \/ \E n \in {} : ~Codec!Stronger(<<r>>, n.rssi) THEN {} ELSE ({} \ {}) \cup {n1}
        BY <2>1, <2>2, Zenon DEF AddedAs, FirstRow
    <2> HIDE DEF n1, none, one
    <2> QED BY <2>3
<1> DEFINE known == {n \in one : n.ssid = b}
<1>2. AddedAs(one, b, s, "1") = IF b = none \/ \E n \in known : ~Codec!Stronger(<<s>>, n.rssi) THEN one
                               ELSE (one \ known) \cup {n2}
    <2>1. ("1" = "0") = FALSE
        BY Zenon
    <2> QED BY <2>1, Zenon DEF AddedAs, SecondRow
<1>3. n1.ssid = a /\ n1.rssi = <<r>>
    BY Zenon DEF FirstRow
<1>4. Covered(a, b, r, s) <=> a = b /\ ~up
    BY Zenon DEF Covered
<1>5. n1.ssid = a /\ Codec!Stronger(<<s>>, n1.rssi) = up
    BY <1>3, Zenon
<1>6. (\E n \in known : ~Codec!Stronger(<<s>>, n.rssi)) <=> a # none /\ a = b /\ ~up
    <2> HIDE DEF n1, none, one, up
    <2>1. \A n : n \in one <=> a # none /\ n = n1
        BY <1>1
    <2> QED BY <2>1, <1>5, Zenon
<1> DEFINE more == (one \ known) \cup {n2}
<1>7. (x \in more) <=> x = n2 \/ (x = n1 /\ a # none /\ a # b)
    <2> HIDE DEF n1, n2, none, one, up
    <2>1. \A n : n \in one <=> a # none /\ n = n1
        BY <1>1
    <2> QED BY <2>1, <1>5
<1>8. (x \in one) <=> x = n1 /\ a # none
    <2> HIDE DEF n1, n2, none, one, up
    <2> QED BY <1>1
<1> DEFINE two == AddedAs(one, b, s, "1")
<1>9. two = IF b = none \/ (a # none /\ a = b /\ ~up) THEN one ELSE more
    BY <1>2, <1>6, Zenon
<1> HIDE DEF n1, n2, none, one, up, more, two
<1>10. x \in two <=> \/ x = n1 /\ a # none /\ ~(a = b /\ up)
                     \/ x = n2 /\ b # none /\ ~Covered(a, b, r, s)
    BY <1>4, <1>7, <1>8, <1>9
<1> QED BY <1>10, Zenon DEF n1, n2, none, one, up, two, Listed

(* The page keeps of two rows each name once, at its strongest. *)
LEMMA TwoAreKept ==
    ASSUME NEW a, NEW b, NEW r \in {Codec!Weak, Codec!Strong}, NEW s \in {Codec!Weak, Codec!Strong}
    PROVE  AddedAs(AddedAs({}, a, r, "0"), b, s, "1") = Kept(<<a, b>>, << <<r>>, <<s>> >>)
<1> DEFINE added == AddedAs(AddedAs({}, a, r, "0"), b, s, "1")
           kept == Kept(<<a, b>>, << <<r>>, <<s>> >>)
<1> HIDE DEF added, kept
<1>1. \A x : x \in added <=> x \in kept
    <2> SUFFICES ASSUME NEW x PROVE x \in added <=> x \in kept
        OBVIOUS
    <2>1. x \in kept <=> Listed(x, a, b, r, s)
        BY KeptRows DEF kept
    <2>2. x \in added <=> Listed(x, a, b, r, s)
        BY AddedRows DEF added
    <2> QED BY <2>1, <2>2, Zenon
<1>2. added = kept
    BY <1>1
<1> QED BY <1>2, Zenon DEF added, kept

-----------------------------------------------------------------------------
(* Every text, for what it is written. *)

(* What is behind the first character of a path is one of those that the   *)
(* page's encoder can write.                                               *)
LEMMA PathsAreWritten == PathAlphabet \subseteq PathCharacters
<1>1. /\ <<"2", "5">> \in Codec!Hex \X Codec!Hex /\ <<"2", "6">> \in Codec!Hex \X Codec!Hex
      /\ <<"2", "B">> \in Codec!Hex \X Codec!Hex /\ <<"3", "D">> \in Codec!Hex \X Codec!Hex
      /\ <<"3", "F">> \in Codec!Hex \X Codec!Hex /\ <<"5", "C">> \in Codec!Hex \X Codec!Hex
    BY DEF Codec!Hex
<1>2. /\ Codec!Byte[<<"2", "5">>] = "%" /\ Codec!Byte[<<"2", "6">>] = "&"
      /\ Codec!Byte[<<"2", "B">>] = "+" /\ Codec!Byte[<<"3", "D">>] = "="
      /\ Codec!Byte[<<"3", "F">>] = "?" /\ Codec!Byte[<<"5", "C">>] = "\\"
    BY <1>1 DEF Codec!Byte
<1> DEFINE bytes == {Codec!Byte[h] : h \in Codec!Hex \X Codec!Hex}
<1>3. {"%", "&", "+", "=", "?", "\\"} \subseteq bytes
    BY <1>1, <1>2, Zenon
<1> HIDE DEF bytes
<1>4. PathCharacters = {"a", "/"} \cup bytes
    BY Zenon DEF PathCharacters, bytes
<1> QED BY <1>3, <1>4 DEF PathAlphabet

(* A bounded text is one.                                                  *)
LEMMA TextsAreSequences ==
    ASSUME NEW alphabet, NEW x \in Codec!Texts(alphabet)
    PROVE  x \in Seq(alphabet)
<1>1. PICK m \in 0..MaxText : x \in [1..m -> alphabet]
    BY DEF Codec!Texts
<1>2. MaxText \in Nat /\ m \in Nat
    BY TextAssumption DEF Codec!BoundsAssumption
<1> QED BY <1>1, <1>2

(* What the text is, for each use of it.                                   *)
InputInv ==
    /\ text.for = "form" => text.a \in Seq(FormAlphabet) /\ text.b \in Seq(FormAlphabet)
    /\ text.for = "list" => /\ text.a \in Seq(ListAlphabet) /\ text.b \in Seq(ListAlphabet)
                            /\ \E r, s \in {Codec!Weak, Codec!Strong} : text.rssi = << <<r>>, <<s>> >>
    /\ text.for = "page" => text.a \in Seq(PageAlphabet) /\ text.b \in Seq(PageAlphabet)
    /\ text.for = "path" => \E a \in Seq(PathAlphabet) : text.a = <<"/">> \o a
    /\ HeaderInv

(* The input that is chosen is one.                                        *)
LEMMA TextInit == Init => InputInv
<1> SUFFICES ASSUME Init PROVE InputInv
    OBVIOUS
<1>1. HeaderInv
    BY HeaderInit
<1>2. CASE part # "text"
    <2>1. text = [for |-> "none"]
        BY <1>2 DEF Init
    <2> QED BY <1>1, <2>1 DEF InputInv
<1>3. CASE part = "text"
    <2>1. Codec!Init
        BY <1>3 DEF Init
    <2>2. CASE \E a, b \in Codec!Texts(FormAlphabet) : text = [for |-> "form", a |-> a, b |-> b]
        <3>1. PICK a \in Codec!Texts(FormAlphabet), b \in Codec!Texts(FormAlphabet) :
                      text = [for |-> "form", a |-> a, b |-> b]
            BY <2>2
        <3>2. a \in Seq(FormAlphabet) /\ b \in Seq(FormAlphabet)
            BY TextsAreSequences
        <3> QED BY <1>1, <3>1, <3>2 DEF InputInv
    <2>3. CASE \E a, b \in Codec!Texts(ListAlphabet), r, s \in { <<Codec!Weak>>, <<Codec!Strong>> } :
                  text = [for |-> "list", a |-> a, b |-> b, rssi |-> <<r, s>>]
        <3>1. PICK a \in Codec!Texts(ListAlphabet), b \in Codec!Texts(ListAlphabet),
                   r \in {Codec!Weak, Codec!Strong}, s \in {Codec!Weak, Codec!Strong} :
                      text = [for |-> "list", a |-> a, b |-> b, rssi |-> << <<r>>, <<s>> >>]
            BY <2>3
        <3>2. a \in Seq(ListAlphabet) /\ b \in Seq(ListAlphabet)
            BY TextsAreSequences
        <3>3. text.for = "list" /\ text.a = a /\ text.b = b /\ text.rssi = << <<r>>, <<s>> >>
            BY <3>1
        <3> QED BY <1>1, <3>2, <3>3 DEF InputInv
    <2>4. CASE \E a, b \in Codec!Texts(PageAlphabet) : text = [for |-> "page", a |-> a, b |-> b]
        <3>1. PICK a \in Codec!Texts(PageAlphabet), b \in Codec!Texts(PageAlphabet) :
                      text = [for |-> "page", a |-> a, b |-> b]
            BY <2>4
        <3>2. a \in Seq(PageAlphabet) /\ b \in Seq(PageAlphabet)
            BY TextsAreSequences
        <3> QED BY <1>1, <3>1, <3>2 DEF InputInv
    <2>5. CASE \E a \in Codec!Texts(PathAlphabet) : text = [for |-> "path", a |-> <<"/">> \o a]
        <3>1. PICK a \in Codec!Texts(PathAlphabet) : text = [for |-> "path", a |-> <<"/">> \o a]
            BY <2>5
        <3>2. a \in Seq(PathAlphabet)
            BY TextsAreSequences
        <3> QED BY <1>1, <3>1, <3>2 DEF InputInv
    <2>6. CASE text.for = "origin"
        BY <1>1, <2>6 DEF InputInv
    <2>7. \/ text.for = "origin"
          \/ \E a, b \in Codec!Texts(FormAlphabet) : text = [for |-> "form", a |-> a, b |-> b]
          \/ \E a, b \in Codec!Texts(ListAlphabet), r, s \in { <<Codec!Weak>>, <<Codec!Strong>> } :
                text = [for |-> "list", a |-> a, b |-> b, rssi |-> <<r, s>>]
          \/ \E a, b \in Codec!Texts(PageAlphabet) : text = [for |-> "page", a |-> a, b |-> b]
          \/ \E a \in Codec!Texts(PathAlphabet) : text = [for |-> "path", a |-> <<"/">> \o a]
        BY <2>1 DEF Codec!Init
    <2> QED BY <2>2, <2>3, <2>4, <2>5, <2>6, <2>7, Zenon
<1> QED BY <1>2, <1>3

(* What was typed into a form arrives (urlDecode, formValue).              *)
LEMMA FormsSurvive == InputInv => Codec!FormSurvives
BY FormsAreRead, Zenon DEF InputInv, Codec!FormSurvives

(* The networks that were found are listed (listEscape, splitEscaped,      *)
(* populateNetworks).                                                      *)
LEMMA ListsSurvive == InputInv => Codec!ListSurvives
<1> SUFFICES ASSUME InputInv, text.for = "list" PROVE Codec!ListSurvives
    BY Zenon DEF Codec!ListSurvives
<1>1. PICK r \in {Codec!Weak, Codec!Strong}, s \in {Codec!Weak, Codec!Strong} : text.rssi = << <<r>>, <<s>> >>
    BY Zenon DEF InputInv
<1>2. text.rssi[1] = <<r>> /\ text.rssi[2] = <<s>>
    BY <1>1
<1>3. IsSignal(r, "0") /\ IsSignal(s, "1")
    BY DEF IsSignal, Codec!Weak, Codec!Strong
<1>4. text.a \in Seq(ListAlphabet) /\ text.b \in Seq(ListAlphabet)
    BY Zenon DEF InputInv
<1> DEFINE data == Codec!Network(text.a, <<r>>, "0") \o <<Comma>> \o Codec!Network(text.b, <<s>>, "1")
<1>5. Codec!populateNetworks(data) = AddedAs(AddedAs({}, text.a, r, "0"), text.b, s, "1")
    BY <1>3, <1>4, ListIsRead
<1>6. AddedAs(AddedAs({}, text.a, r, "0"), text.b, s, "1") = Kept(<<text.a, text.b>>, text.rssi)
    BY <1>1, TwoAreKept
<1>7. Codec!populateNetworks(data) = Kept(<<text.a, text.b>>, text.rssi)
    BY <1>5, <1>6, Zenon
<1>8. Codec!populateNetworks(Codec!Network(text.a, text.rssi[1], "0") \o <<",">> \o Codec!Network(text.b, text.rssi[2], "1"))
         = Kept(<<text.a, text.b>>, text.rssi)
    BY <1>2, <1>7, Zenon DEF Comma
<1> QED BY <1>8, Zenon DEF Codec!ListSurvives, Kept

(* The stored names are shown (jsonEscape, htmlEscape, replaceAll).        *)
LEMMA PagesSurvive == InputInv => Codec!PagesShowNames
<1> SUFFICES ASSUME InputInv, text.for = "page" PROVE Codec!PagesShowNames
    BY Zenon DEF Codec!PagesShowNames
<1>1. text.a \in Seq(PageAlphabet) /\ text.b \in Seq(PageAlphabet)
    BY Zenon DEF InputInv
<1>2. Codec!JsonParsed(Codec!jsonEscape(text.a) \o <<"\"", "}">>) = text.a
    <2>1. Codec!JsonParsed(Codec!jsonEscape(text.a) \o <<Quote, Brace>>) = text.a
        BY <1>1, JsonText
    <2> QED BY <2>1, Zenon DEF Quote, Brace
<1>3. Codec!HtmlShown(Codec!SavedPage(Codec!Label(text.a), text.b))
         = <<"x">> \o Codec!Label(text.a) \o <<"y">> \o text.b \o <<"z">>
    BY <1>1, SavedPageShows
<1> QED BY <1>2, <1>3, Zenon DEF Codec!PagesShowNames

(* A number of at least one is one or more than one.                       *)
LEMMA OneOrMore == \A n \in Nat : n >= 1 => (n = 1 <=> ~(n > 1))
OBVIOUS

(* A path that begins with a slash is replaced only when it names a host.  *)
LEMMA PathIsKept ==
    ASSUME NEW p, Len(p) \in Nat, Len(p) >= 1, p[1] = "/", p # <<>>
    PROVE  Codec!nextPath(p) = IF Len(p) > 1 /\ p[2] \in {"/", "\\"} THEN <<"/">> ELSE p
<1>1. Len(p) = 1 <=> ~(Len(p) > 1)
    BY OneOrMore, Zenon
<1> QED BY <1>1, Zenon DEF Codec!nextPath

(* A sign-in returns to its page (urlEncode, formValue, nextPath).         *)
LEMMA PathsSurvive == InputInv => Codec!PathSurvives
<1> SUFFICES ASSUME InputInv, text.for = "path" PROVE Codec!PathSurvives
    BY Zenon DEF Codec!PathSurvives
<1> DEFINE p == text.a
<1>1. PICK a \in Seq(PathAlphabet) : p = <<"/">> \o a
    BY Zenon DEF InputInv
<1>2. p \in Seq(PathCharacters)
    <2>1. a \in Seq(PathCharacters)
        BY PathsAreWritten
    <2>2. <<"/">> \in Seq(PathCharacters)
        BY DEF PathCharacters
    <2> QED BY <1>1, <2>1, <2>2, ConcatProperties
<1>3. Len(p) \in Nat /\ Len(p) >= 1 /\ p[1] = "/" /\ p # <<>>
    <2>1. a \in Seq(PathAlphabet) /\ <<"/">> \in Seq({"/"}) /\ Len(<<"/">>) = 1 /\ <<"/">>[1] = "/"
        OBVIOUS
    <2>2. Len(a) \in Nat
        BY LenProperties
    <2> QED BY <1>1, <2>1, <2>2
<1> HIDE DEF p
<1>4. Codec!formValue(Codec!LoginQuery(p), <<"n">>) = p
    BY <1>2, PathsReturn
<1>5. Codec!nextPath(p) = IF Len(p) > 1 /\ p[2] \in {"/", "\\"} THEN <<"/">> ELSE p
    BY <1>3, PathIsKept
<1> QED BY <1>4, <1>5, Zenon DEF Codec!PathSurvives, p

(* What device and browser write for each other is understood as meant,    *)
(* whatever its characters and its length (urlDecode, formValue,           *)
(* listEscape, jsonEscape, htmlEscape, replaceAll, urlEncode, nextPath and *)
(* isSameOrigin, with what the browser and the page do).                   *)
THEOREM TextsAreUnderstood == Spec => []TextsSurvive
<1>1. Init => InputInv
    BY TextInit
<1>2. InputInv /\ [Next]_vars => InputInv'
    BY DEF InputInv, HeaderInv, Next, UploadRuns, BodyRuns, QueryRuns, BrowserRuns, vars
<1>3. InputInv => TextsSurvive
    <2>1. InputInv => HeaderInv
        BY DEF InputInv
    <2> QED BY <2>1, FormsSurvive, ListsSurvive, PagesSurvive, PathsSurvive, HeadersJudged
            DEF TextsSurvive, Codec!TextsSurvive
<1> QED BY <1>1, <1>2, <1>3, PTL DEF Spec
=============================================================================
