------------------------- MODULE DurableCredential -------------------------
(***************************************************************************)
(* What the access guard promises about restarts, without its flash        *)
(* entries, its mutex or its tasks: a change of the credential takes       *)
(* effect at once and is unsettled until it is written; a settled          *)
(* credential survives every restart, and only an unsettled one may come   *)
(* back different.                                                         *)
(***************************************************************************)
CONSTANTS
    Credentials,    \* password, session and key together, or none of them
    Unsettled       \* the change has not been written (or not all of it)

VARIABLES
    live,           \* what requests are checked against
    settled         \* what a restart will load

vars == <<live, settled>>

Init == live \in Credentials /\ settled = live

Change == live' \in Credentials /\ settled' = Unsettled

Settle == settled = Unsettled /\ settled' = live /\ UNCHANGED live

Restart == settled = Unsettled /\ live' \in Credentials /\ settled' = live'

Next == Change \/ Settle \/ Restart

Spec == Init /\ [][Next]_vars
=============================================================================
