-------------------------- MODULE MultipartStream --------------------------
(***************************************************************************)
(* The receive loop of OTAManager::handleOTAUpload: a multipart body comes *)
(* in reads of any size, and the image inside it goes to the partition     *)
(* without the part headers before it and the delimiter after it, although *)
(* both may be split across reads.                                         *)
(*                                                                         *)
(* CRLF is one symbol.  The body the client sends is fixed when the        *)
(* request begins; how it falls into reads, and whether it breaks off, is  *)
(* left to chance.                                                         *)
(***************************************************************************)
EXTENDS Naturals, Sequences, FiniteSets, FiniteSetsExt

CONSTANTS
    Symbols,        \* what bodies are made of
    CRLF,           \* the symbol that stands for "\r\n"
    Boundary,       \* "--" and the boundary of the Content-Type
    MaxBody,        \* bound: symbols in a body
    UPLOAD_CHUNK,   \* the largest read
    PART_HEADER_MAX,
    PartitionSize

SymbolsAssumption == CRLF \in Symbols /\ Boundary \in Seq(Symbols \ {CRLF}) /\ Boundary # <<>>
SizesAssumption ==
    /\ MaxBody \in Nat /\ PartitionSize \in Nat
    /\ PART_HEADER_MAX \in Nat /\ UPLOAD_CHUNK \in Nat /\ PART_HEADER_MAX <= UPLOAD_CHUNK

VARIABLES
    body,           \* the request's body
    isMultipart,    \* a raw body is all image
    received,       \* symbols read so far
    headersDone,
    hold,           \* the symbols held back in front of the next read
    imageEnded,
    written,        \* what the partition got
    verdict         \* "receiving", then how the transfer ended

vars == <<body, isMultipart, received, headersDone, hold, imageEnded, written, verdict>>

HeaderEnd == <<CRLF, CRLF>>
Delimiter == <<CRLF>> \o Boundary
delimLen == IF isMultipart THEN Len(Delimiter) ELSE 0

OccursAt(needle, s, i) ==
    i + Len(needle) - 1 <= Len(s) /\ SubSeq(s, i, i + Len(needle) - 1) = needle

(* findInBuffer: the first place of the needle, 0 if there is none. *)
findInBuffer(s, needle) ==
    LET at == {i \in 1..(Len(s) + 1 - Len(needle)) : OccursAt(needle, s, i)}
    IN  IF at = {} THEN 0 ELSE Min(at)

Init ==
    /\ body \in UNION {[1..n -> Symbols] : n \in 1..MaxBody}
    /\ isMultipart \in BOOLEAN
    /\ received = 0
    /\ headersDone = ~isMultipart
    /\ hold = <<>>
    /\ imageEnded = FALSE
    /\ written = <<>>
    /\ verdict = "receiving"

Fail(reason) == verdict' = reason /\ UNCHANGED <<headersDone, hold, imageEnded, written>>

(* writeOut, as far as the partition's size goes. *)
WriteOut(s) ==
    IF Len(written) + Len(s) > PartitionSize
    THEN verdict' = "too large" /\ UNCHANGED written
    ELSE written' = written \o s /\ UNCHANGED verdict

(* How many of a window's n last symbols could begin a delimiter that the  *)
(* next read completes, as the code counts them.                           *)
HeldOfTooFew(n) == IF delimLen < n + 1 THEN (IF delimLen > 1 THEN delimLen - 2 ELSE 0) ELSE n
HeldOf(n) == IF delimLen < n THEN delimLen ELSE n

(* The image's symbols in one read: up to the delimiter, or all but the    *)
(* held ones; what follows the delimiter is drained.                       *)
Feed(data) ==
    IF imageEnded
    THEN UNCHANGED <<hold, imageEnded, written, verdict>>
    ELSE LET window == hold \o data
             delim == IF delimLen = 0 THEN 0 ELSE findInBuffer(window, Delimiter)
             emit == IF delim # 0 THEN delim - 1 ELSE Len(window) - HeldOf(Len(window))
         IN  /\ WriteOut(SubSeq(window, 1, emit))
             /\ imageEnded' = (delim # 0)
             /\ hold' = IF delim # 0 THEN <<>> ELSE SubSeq(window, emit + 1, Len(window))

Searchable(n) == IF n < PART_HEADER_MAX THEN n ELSE PART_HEADER_MAX

OpensWithBoundary(s, headerEnd) ==
    headerEnd - 1 >= Len(Boundary) /\ OccursAt(Boundary, s, 1)

(* Before the image: the opening boundary and the part headers are         *)
(* gathered in front, whatever reads they come in.                         *)
Gather(s) ==
    LET headerEnd == findInBuffer(SubSeq(s, 1, Searchable(Len(s))), HeaderEnd)
    IN  IF headerEnd = 0
        THEN IF Len(s) < PART_HEADER_MAX /\ Len(s) < Len(body)
             THEN UNCHANGED <<headersDone, hold, imageEnded, written, verdict>>
             ELSE Fail("headers not found")
        ELSE IF ~OpensWithBoundary(s, headerEnd)
             THEN Fail("opening boundary not found")
             ELSE headersDone' = TRUE /\ Feed(SubSeq(s, headerEnd + Len(HeaderEnd), Len(s)))

Room == IF headersDone THEN UPLOAD_CHUNK ELSE UPLOAD_CHUNK - received

(* One turn of the loop: httpd_req_recv returned n symbols. *)
Receive ==
    /\ verdict = "receiving" /\ received < Len(body)
    /\ \E n \in 1..Room :
          /\ received + n <= Len(body)
          /\ received' = received + n
          /\ IF headersDone
             THEN Feed(SubSeq(body, received + 1, received + n)) /\ UNCHANGED headersDone
             ELSE Gather(SubSeq(body, 1, received + n))
    /\ UNCHANGED <<body, isMultipart>>

(* httpd_req_recv failed, or stalled once too often. *)
Interrupted ==
    /\ verdict = "receiving" /\ received < Len(body)
    /\ Fail("interrupted")
    /\ UNCHANGED <<body, isMultipart, received>>

(* The loop is over: was there a closing boundary, was there an image? *)
Finish ==
    /\ verdict = "receiving" /\ received = Len(body)
    /\ verdict' = IF isMultipart /\ ~imageEnded THEN "closing boundary not found"
                  ELSE IF written = <<>> THEN "no image data" ELSE "ok"
    /\ UNCHANGED <<body, isMultipart, received, headersDone, hold, imageEnded, written>>

Next == Receive \/ Interrupted \/ Finish

Spec == Init /\ [][Next]_vars

-----------------------------------------------------------------------------
(* What the body says, read in one piece. *)

HeaderEndOf(b) == findInBuffer(b, HeaderEnd)
ImageStart(b) == HeaderEndOf(b) + Len(HeaderEnd)
HasHeaders(b) ==
    /\ HeaderEndOf(b) # 0 /\ HeaderEndOf(b) + Len(HeaderEnd) - 1 <= PART_HEADER_MAX
    /\ HeaderEndOf(b) > Len(Boundary) /\ SubSeq(b, 1, Len(Boundary)) = Boundary

(* The image: everything after the part headers that no occurrence of the  *)
(* delimiter precedes or overlaps.                                         *)
ClosedAt(b) == {i \in ImageStart(b)..Len(b) : OccursAt(Delimiter, b, i)}
Image(b) ==
    IF ~isMultipart THEN b
    ELSE SubSeq(b, ImageStart(b), IF ClosedAt(b) = {} THEN Len(b) ELSE Min(ClosedAt(b)) - 1)

WellFormed(b) ==
    /\ isMultipart => HasHeaders(b) /\ ClosedAt(b) # {}
    /\ Len(Image(b)) \in 1..PartitionSize

(* However the body falls into reads and wherever it breaks off, what the  *)
(* partition got is a beginning of the image: no header byte, no byte of   *)
(* the delimiter or behind it, none lost or repeated.  And the verdict is  *)
(* the body's, not the network's: a transfer that was not interrupted is   *)
(* accepted exactly when the body is well formed and fits, and then the    *)
(* partition holds the whole image.                                        *)
WrittenIsImage ==
    /\ written # <<>> =>
          /\ isMultipart => HasHeaders(body)
          /\ Len(written) <= Len(Image(body)) /\ written = SubSeq(Image(body), 1, Len(written))
    /\ verdict \notin {"receiving", "interrupted"} =>
          /\ verdict = "ok" <=> WellFormed(body)
          /\ verdict = "ok" => written = Image(body)
=============================================================================
