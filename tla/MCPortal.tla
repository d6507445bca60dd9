------------------------------ MODULE MCPortal ------------------------------
(***************************************************************************)
(* What reaches the device from outside, and what it answers: the image of *)
(* an upload, the body of a form, a DNS query, the texts of pages and      *)
(* forms, and a browser's navigations.  They have no common state: a       *)
(* behaviour picks one and the others stand still.                         *)
(*                                                                         *)
(* The run's boundary is two equal symbols (EqualPair), so that a delimiter *)
(* can begin inside a false start of another one.                          *)
(***************************************************************************)
EXTENDS Integers, Sequences

CONSTANTS Symbols, CRLF, Boundary, MaxBody, UPLOAD_CHUNK, PART_HEADER_MAX, PartitionSize,
          MAX_FORM_BODY, MAX_RECV_TIMEOUTS, FORM_BODY_DEADLINE, RECV_WAIT,
          DNS_BUFFER_SIZE, DNS_HEADER_SIZE, DNS_ANSWER_SIZE, Labels,
          MaxText, SOURCE_SIZE, HOST_SIZE

VARIABLES part,
          body, isMultipart, received, headersDone, hold, imageEnded, written, verdict,
          content_len, got, timeouts, time, answer,
          len, stage, pos, read, copied, sent,
          text,
          apMode, https, httpsChosen, hasPassword, restartDue, jar, at, shown, redirects, signedIn

EqualPair == <<"-", "-">>
FormAlphabet == {"a", "2", "B", "%", "&", "+", "=", " "}
ListAlphabet == {"a", "\\", ",", "|"}
PathAlphabet == {"/", "a", "?", "&", "%", "+", "=", "\\"}
PageAlphabet == {"N", "n", "u", "0", "W", "%", "&", "<", "\\", "\"", "\n", "SOH", " ", "amp;"}

Upload == INSTANCE MultipartStream
Body == INSTANCE FormBody
Query == INSTANCE DnsRequest
Codec == INSTANCE TextCodecs
Browser == INSTANCE Browsing

ASSUME UploadAssumption == Upload!SymbolsAssumption /\ Upload!SizesAssumption
ASSUME BodyAssumption == Body!LimitsAssumption
ASSUME QueryAssumption == Query!SizesAssumption
ASSUME TextAssumption == Codec!BoundsAssumption

uploadVars == <<body, isMultipart, received, headersDone, hold, imageEnded, written, verdict>>
bodyVars == <<content_len, got, timeouts, time, answer>>
queryVars == <<len, stage, pos, read, copied, sent>>
browserVars == <<apMode, https, httpsChosen, hasPassword, restartDue, jar, at, shown, redirects, signedIn>>
vars == <<part, uploadVars, bodyVars, queryVars, text, browserVars>>

(* The parts that stand still have one initial state.                      *)
Init ==
    /\ part \in {"upload", "form", "query", "text", "browser"}
    /\ IF part = "upload" THEN TRUE ELSE body = <<CRLF>> /\ isMultipart = FALSE
    /\ IF part = "form" THEN TRUE ELSE content_len = 0
    /\ IF part = "query" THEN TRUE ELSE len = 1
    /\ IF part = "text" THEN Codec!Init ELSE text = [for |-> "none"]
    /\ IF part = "browser" THEN TRUE ELSE apMode = FALSE /\ hasPassword = FALSE
    /\ Upload!Init /\ Body!Init /\ Query!Init /\ Browser!Init

UploadRuns == part = "upload" /\ Upload!Next /\ UNCHANGED <<part, bodyVars, queryVars, text, browserVars>>
BodyRuns == part = "form" /\ Body!Next /\ UNCHANGED <<part, uploadVars, queryVars, text, browserVars>>
QueryRuns == part = "query" /\ Query!Next /\ UNCHANGED <<part, uploadVars, bodyVars, text, browserVars>>
BrowserRuns == part = "browser" /\ Browser!Next /\ UNCHANGED <<part, uploadVars, bodyVars, queryVars, text>>

Next == UploadRuns \/ BodyRuns \/ QueryRuns \/ BrowserRuns

Spec == Init /\ [][Next]_vars

-----------------------------------------------------------------------------
(* The partition gets the image, and the verdict is the body's.            *)
WrittenIsImage == Upload!WrittenIsImage

(* A form's body is taken exactly when it is whole, and in bounded time.   *)
WholeBodyInTime == Body!WholeBodyInTime

(* A datagram is not read behind its end, nor the response's buffer left.  *)
StaysInBuffers == Query!StaysInBuffers

(* Forms, the list of networks and the pages carry every text through.     *)
TextsSurvive == Codec!TextsSurvive

(* A browser that signed in is let in, also after a change of scheme.      *)
SignInSticks == Browser!SignInSticks

(* No navigation goes around in a circle.                                  *)
RedirectsEnd == Browser!RedirectsEnd
=============================================================================
