------------------------------ MODULE FormBody ------------------------------
(***************************************************************************)
(* readFormBody(): a POST's body of announced length is read in as many    *)
(* pieces as the client sends, under two limits: so many receive timeouts  *)
(* in a row, for a client that stalls, and a deadline, for one that        *)
(* trickles.  A receive waits RECV_WAIT at most; nothing else takes time.  *)
(***************************************************************************)
EXTENDS Naturals

CONSTANTS
    MAX_FORM_BODY,      \* maxBytes
    MAX_RECV_TIMEOUTS,
    FORM_BODY_DEADLINE,
    RECV_WAIT           \* httpd's recv_wait_timeout

LimitsAssumption == {MAX_FORM_BODY, MAX_RECV_TIMEOUTS, FORM_BODY_DEADLINE, RECV_WAIT} \subseteq Nat \ {0}

VARIABLES
    content_len, got, timeouts,
    time,               \* since the reading began
    answer              \* "none" yet, "body" (true), or the status of a refusal

vars == <<content_len, got, timeouts, time, answer>>

Init ==
    /\ content_len \in 0..(MAX_FORM_BODY + 1)
    /\ got = 0 /\ timeouts = 0 /\ time = 0
    /\ answer = IF content_len = 0 \/ content_len > MAX_FORM_BODY THEN "400" ELSE "none"

Reading == answer = "none"

TimedOutAnyway(n, k, t) == k >= MAX_RECV_TIMEOUTS \/ t > FORM_BODY_DEADLINE

(* The two limits, for a body that is not whole. *)
TimedOut(n, k, t) == n < content_len /\ (k >= MAX_RECV_TIMEOUTS \/ t > FORM_BODY_DEADLINE)

Verdict(n, k, t) ==
    IF TimedOut(n, k, t) THEN "408" ELSE IF n = content_len THEN "body" ELSE "none"

Receive ==
    /\ Reading
    /\ \E wait \in 0..RECV_WAIT : time' = time + wait
    /\ \E bytes \in 1..(content_len - got) : got' = got + bytes
    /\ timeouts' = 0
    /\ answer' = Verdict(got', timeouts', time')
    /\ UNCHANGED content_len

Timeout ==
    /\ Reading
    /\ time' = time + RECV_WAIT
    /\ timeouts' = timeouts + 1
    /\ answer' = Verdict(got, timeouts', time')
    /\ UNCHANGED <<content_len, got>>

(* The connection is closed, or breaks. *)
Broken ==
    /\ Reading
    /\ \E wait \in 0..RECV_WAIT : time' = time + wait
    /\ answer' = "400"
    /\ UNCHANGED <<content_len, got, timeouts>>

Next == Receive \/ Timeout \/ Broken

Spec == Init /\ [][Next]_vars

-----------------------------------------------------------------------------
(* A body is taken when it is whole, and only then: one that came late but *)
(* came is not refused any more.  And a client holds the server's only     *)
(* task no longer than the deadline and one receive, however it trickles.  *)
WholeBodyInTime ==
    /\ ~Reading => (answer = "body") = (content_len \in 1..MAX_FORM_BODY /\ got = content_len)
    /\ time <= FORM_BODY_DEADLINE + RECV_WAIT
=============================================================================
