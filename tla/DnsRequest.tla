----------------------------- MODULE DnsRequest -----------------------------
(***************************************************************************)
(* processDnsRequest(): what the captive portal's DNS task makes of one    *)
(* datagram, of any length and any content.  The labels of the question's  *)
(* name are walked one by one, each jump as long as the byte says; the     *)
(* response is the question, copied up to its end, and one answer.         *)
(*                                                                         *)
(* A byte of the datagram is chosen when it is read: what is modelled is   *)
(* where the code reads, how far it copies and how much it sends.          *)
(***************************************************************************)
EXTENDS Integers

CONSTANTS
    DNS_BUFFER_SIZE, DNS_HEADER_SIZE, DNS_ANSWER_SIZE,
    Labels          \* the lengths a label may have: 1..63

SizesAssumption ==
    /\ DNS_HEADER_SIZE \in Nat \ 0..5 /\ DNS_ANSWER_SIZE \in Nat /\ Labels \subseteq Nat \ {0}
    /\ DNS_BUFFER_SIZE \in Nat /\ DNS_HEADER_SIZE + DNS_ANSWER_SIZE + 5 <= DNS_BUFFER_SIZE

VARIABLES
    len,            \* of the datagram, which is in the buffer
    stage,          \* "header", "labels", "question", then "sent" or "dropped"
    pos,
    read,           \* history: how many bytes were looked at, from the first
    copied, sent    \* bytes of the response written by memcpy(), and sent

vars == <<len, stage, pos, read, copied, sent>>

Init ==
    /\ len \in 1..DNS_BUFFER_SIZE
    /\ stage = "header"
    /\ pos = DNS_HEADER_SIZE /\ read = 0
    /\ copied = 0 /\ sent = 0

AtLeast(n) == IF read < n THEN n ELSE read
Drop == stage' = "dropped" /\ UNCHANGED <<len, pos, copied, sent>>

(* One standard query with one question, or nothing. *)
Header ==
    /\ stage = "header"
    /\ \/ len < DNS_HEADER_SIZE /\ Drop /\ UNCHANGED read
       \/ len >= DNS_HEADER_SIZE /\ Drop /\ read' = AtLeast(6)
       \/ /\ len >= DNS_HEADER_SIZE /\ read' = AtLeast(6)
          /\ stage' = "labels"
          /\ UNCHANGED <<len, pos, copied, sent>>

(* A compressed name is dropped, another label jumped over. *)
Label ==
    /\ stage = "labels" /\ pos < len
    /\ read' = AtLeast(pos + 1)
    /\ \/ Drop
       \/ \E n \in Labels : pos' = pos + n + 1 /\ UNCHANGED <<len, stage, copied, sent>>
       \/ stage' = "question" /\ UNCHANGED <<len, pos, copied, sent>>

NameUnended ==
    /\ stage = "labels" /\ pos >= len
    /\ Drop /\ UNCHANGED read

questionEnd == pos + 5      \* the zero byte, QTYPE and QCLASS

FitsWithoutAnswer == questionEnd <= DNS_BUFFER_SIZE
(* The response holds the question and, whatever is asked, one answer. *)
Fits == questionEnd <= DNS_BUFFER_SIZE - DNS_ANSWER_SIZE

Respond ==
    /\ stage = "question" /\ questionEnd <= len /\ Fits
    /\ read' = AtLeast(questionEnd)
    /\ \/ \E answer \in BOOLEAN :      \* of type A or ANY, with an address to give
             /\ stage' = "sent"
             /\ copied' = questionEnd
             /\ sent' = IF answer THEN questionEnd + DNS_ANSWER_SIZE ELSE questionEnd
             /\ UNCHANGED <<len, pos>>
       \/ Drop

NotAsked ==
    /\ stage = "question" /\ (questionEnd > len \/ ~Fits)
    /\ Drop /\ UNCHANGED read

Next == Header \/ Label \/ NameUnended \/ Respond \/ NotAsked

Spec == Init /\ [][Next]_vars

-----------------------------------------------------------------------------
(* Whatever the datagram holds: nothing behind its end is looked at or     *)
(* copied, and what is written stays inside the response's buffer.         *)
StaysInBuffers ==
    /\ read <= len /\ copied <= len
    /\ copied <= DNS_BUFFER_SIZE /\ sent <= DNS_BUFFER_SIZE
    /\ stage = "sent" => DNS_HEADER_SIZE + 5 <= sent
=============================================================================
