------------------------------- MODULE Logger -------------------------------
(***************************************************************************)
(* The log buffer: addEntry() on any task, begin() and clear() on the      *)
(* application's, and the page and the JSON array that the server task     *)
(* streams in batches.  _mutex is taken around each access to the deque    *)
(* and released between batches, so an action here is what runs between    *)
(* two takes of it.                                                        *)
(*                                                                         *)
(* A line is its place in the order of arrival in the buffer.  The level   *)
(* filter, the console and the output callback (LogCallback) are left out. *)
(***************************************************************************)
EXTENDS Integers, Sequences, FiniteSets, FiniteSetsExt

CONSTANTS
    Tasks,          \* tasks that log
    DefaultEntries, \* _maxEntries before begin()
    Sizes,          \* arguments of begin()
    Begins,         \* how often begin() may be called
    Batch,          \* LOG_STREAM_BATCH
    Windows,        \* ?max= of a request; 0 asks for everything
    Clears,         \* clear() is called
    Faults,         \* "alloc": allocations fail.  "socket": the client leaves
    MaxLines,       \* bound: lines told apart
    Endless         \* whether lines go on after that, all called MaxLines: the cases to check

ASSUME TasksAssumption == IsFiniteSet(Tasks)
ASSUME SizesAssumption == Sizes \subseteq Nat /\ DefaultEntries \in Nat \ {0} /\ Batch \in Nat \ {0}
ASSUME BoundsAssumption ==
    /\ Begins \in Nat /\ MaxLines \in Nat \ {0} /\ Windows \subseteq Nat
    /\ Clears \in BOOLEAN /\ Endless \subseteq BOOLEAN

VARIABLES
    entries,        \* the deque
    maxEntries, mutex, droppedEntries,
    begins,         \* history: the arguments of begin(), in order
    pc,             \* addEntry() on each task: "idle", "push" or "count"
    last,           \* the last line that was appended
    endless,        \* chosen from Endless
    calls,          \* history: lines logged, saturated at MaxLines
    broken,         \* an empty deque was popped, with the mutex held
    response,       \* the one the server task streams, or streamed last
    removed,        \* history: lines that left the buffer since it was positioned
    span            \* history: first line of its window, last line it could see

buffer == <<entries, maxEntries, mutex, last, broken, endless>>
reader == <<response, removed, span>>
vars == <<buffer, droppedEntries, begins, pc, calls, reader>>

NoResponse == [state |-> "none", kind |-> "json", window |-> 0, index |-> 0,
               positioned |-> FALSE, first |-> TRUE, text |-> <<>>, rows |-> <<>>,
               starved |-> FALSE]   \* history: an allocation failed and the answer is empty
NoSpan == [from |-> 1, to |-> 0]

Init ==
    /\ entries = <<>> /\ maxEntries = DefaultEntries /\ mutex = FALSE
    /\ droppedEntries = 0
    /\ begins = <<>>
    /\ endless \in Endless
    /\ pc = [t \in Tasks |-> "idle"]
    /\ last = 0 /\ calls = 0
    /\ broken = FALSE
    /\ response = NoResponse /\ removed = 0 /\ span = NoSpan

-----------------------------------------------------------------------------
Removed(n) == removed' = IF response.state = "streaming" /\ response.positioned /\ ~endless
                         THEN Min({removed + n, MaxLines}) ELSE removed

Up(n) == IF n < MaxLines THEN n + 1 ELSE n
CanCall(t) == pc[t] = "idle" /\ ~broken /\ (calls < MaxLines \/ endless)

(* addEntry up to the lock: _mutex and _maxEntries are read without it. *)
Buffering == mutex /\ maxEntries > 0
Call(t) ==
    /\ pc' = [pc EXCEPT ![t] = IF Buffering THEN "push" ELSE "count"]
    /\ calls' = Up(calls)

begin(size) ==
    /\ Len(begins) < Begins /\ ~broken
    /\ begins' = Append(begins, size)
    /\ maxEntries' = size
    /\ mutex' = TRUE
    /\ UNCHANGED <<entries, last, broken, endless, droppedEntries, pc, calls, reader>>

Log(t) ==
    /\ CanCall(t) /\ Call(t)
    /\ UNCHANGED <<buffer, droppedEntries, begins, reader>>

(* while (_entries.size() >= _maxEntries) _entries.pop_front(); *)
Trimmed == SubSeq(entries, Max({1, Len(entries) - maxEntries + 2}), Len(entries))

Finish(t) == pc' = [pc EXCEPT ![t] = "idle"]

Push(t) ==
    /\ pc[t] = "push" /\ ~broken /\ maxEntries > 0
    /\ last' = Up(last)
    /\ entries' = Append(Trimmed, last')
    /\ Removed(Len(entries) - Len(Trimmed))
    /\ Finish(t)
    /\ UNCHANGED <<maxEntries, mutex, broken, endless, droppedEntries, begins, calls, response, span>>

(* The entry is allocated before the lock, its place in the deque after    *)
(* the trimming.                                                           *)
OutOfMemory(t) ==
    /\ pc[t] = "push" /\ "alloc" \in Faults /\ ~broken
    /\ \/ entries' = entries
       \/ maxEntries > 0 /\ entries' = Trimmed
    /\ Removed(Len(entries) - Len(entries'))
    /\ pc' = [pc EXCEPT ![t] = "count"]
    /\ UNCHANGED <<maxEntries, mutex, last, broken, endless, droppedEntries, begins, calls, response, span>>

(* With _maxEntries 0 the loop pops whatever the size is. *)
PushWithoutRoom(t) ==
    /\ pc[t] = "push" /\ maxEntries = 0 /\ ~broken
    /\ entries' = <<>> /\ broken' = TRUE
    /\ UNCHANGED <<maxEntries, mutex, last, endless, droppedEntries, begins, calls, pc, reader>>

DroppedAfterBegin == IF Buffering THEN Up(droppedEntries) ELSE droppedEntries
Dropped == IF maxEntries > 0 THEN Up(droppedEntries) ELSE droppedEntries

Count(t) ==
    /\ pc[t] = "count"
    /\ droppedEntries' = Dropped
    /\ Finish(t)
    /\ UNCHANGED <<buffer, begins, calls, reader>>

(* clear(), which then logs that it did. *)
clear(t) ==
    /\ Clears /\ CanCall(t) /\ Call(t)
    /\ entries' = <<>>
    /\ Removed(Len(entries))
    /\ UNCHANGED <<maxEntries, mutex, last, broken, endless, droppedEntries, begins, response, span>>

-----------------------------------------------------------------------------
(* Readers.  text holds the shape of what was sent, rows its lines.        *)
(* A page has no brackets and no commas.                                   *)

Start(total, window) == IF window > 0 /\ total > window THEN total - window ELSE 0

CommaWithinBatch(i, first) == i > 1
Comma(i, first) == i > 1 \/ ~first

(* n items after what was sent; first: nothing was. *)
Items(kind, n, first) ==
    LET Item(i) == IF kind = "json" /\ Comma(i, first) THEN <<",", "item">> ELSE <<"item">>
        items[i \in 0..n] == IF i = 0 THEN <<>> ELSE items[i - 1] \o Item(i)
    IN  items[n]

Opening(kind) == IF kind = "json" THEN <<"[">> ELSE <<>>
Closing(kind) == IF kind = "json" THEN <<"]">> ELSE <<>>

(* appendDroppedNotice *)
Notices == IF droppedEntries = 0 THEN 0 ELSE 1

(* The lines a reader may expect at this moment: window of them, if any. *)
Newest(window) ==
    LET n == IF window = 0 THEN Len(entries) ELSE Min({window, Len(entries)})
    IN  IF endless THEN NoSpan ELSE [from |-> last - n + 1, to |-> last]

(* getLogsJSON and getLogsHTML: the whole text under one lock. *)
Snapshot(kind, window) ==
    /\ response.state # "streaming" /\ ~broken /\ ~endless
    /\ LET rows == IF mutex THEN SubSeq(entries, Start(Len(entries), window) + 1, Len(entries)) ELSE <<>>
           head == Items(kind, Notices, TRUE)
       IN /\ response' = [NoResponse EXCEPT !.state = "complete", !.kind = kind, !.rows = rows,
                             !.text = Opening(kind) \o head \o Items(kind, Len(rows), Notices = 0) \o Closing(kind)]
          /\ span' = Newest(window)
    /\ removed' = 0
    /\ UNCHANGED <<buffer, droppedEntries, begins, pc, calls>>

(* Their catch: an empty array, or an empty page, without the notice too.  *)
SnapshotOutOfMemory(kind) ==
    /\ response.state # "streaming" /\ ~broken /\ ~endless /\ "alloc" \in Faults
    /\ response' = [NoResponse EXCEPT !.state = "complete", !.kind = kind, !.starved = TRUE,
                       !.text = Opening(kind) \o Closing(kind)]
    /\ removed' = 0 /\ span' = NoSpan
    /\ UNCHANGED <<buffer, droppedEntries, begins, pc, calls>>

(* streamLogsJson and streamLogsHtml up to the first batch; the client may *)
(* be gone at any send after the opening bracket.                          *)
Request(kind, window) ==
    /\ response.state # "streaming" /\ ~broken
    /\ response' = [NoResponse EXCEPT !.state = "streaming", !.kind = kind, !.window = window,
                       !.text = Opening(kind) \o Items(kind, Notices, TRUE), !.first = Notices = 0]
    /\ removed' = 0 /\ span' = NoSpan
    /\ UNCHANGED <<buffer, droppedEntries, begins, pc, calls>>

IndexAgain == Start(Len(entries), response.window)
(* index is kept as it was when the mutex was released. *)
Index == IF response.positioned THEN response.index ELSE Start(Len(entries), response.window)

More(produced) == produced = Batch

Recorded(sent) == IF endless THEN <<>> ELSE sent     \* bound: endless runs keep no text and no history

(* One batch: the lines under the lock, then the send. *)
StreamBatch ==
    /\ response.state = "streaming" /\ mutex /\ ~broken
    /\ LET end  == Max({Index, Min({Len(entries), Index + Batch})})
           rows == SubSeq(entries, Index + 1, end)
           text == response.text \o Items(response.kind, Len(rows), response.first)
       IN /\ response' = [response EXCEPT !.index = end, !.positioned = TRUE,
                             !.first = @ /\ rows = <<>>, !.rows = Recorded(@ \o rows),
                             !.state = IF More(Len(rows)) THEN "streaming" ELSE "complete",
                             !.text = Recorded(IF More(Len(rows)) THEN text ELSE text \o Closing(response.kind))]
          /\ span' = IF response.positioned /\ ~endless THEN [span EXCEPT !.to = last] ELSE Newest(response.window)
    /\ removed' = IF response.positioned THEN removed ELSE 0
    /\ UNCHANGED <<buffer, droppedEntries, begins, pc, calls>>

(* Without a mutex, before begin(), the loop is left at once. *)
StreamNothing ==
    /\ response.state = "streaming" /\ ~mutex
    /\ response' = [response EXCEPT !.state = "complete", !.text = @ \o Closing(response.kind)]
    /\ UNCHANGED <<buffer, droppedEntries, begins, pc, calls, removed, span>>

(* A send fails, or an allocation; httpd closes the socket either way. *)
StreamAborts ==
    /\ response.state = "streaming" /\ Faults # {} /\ ~broken
    /\ response' = [response EXCEPT !.state = "aborted"]
    /\ UNCHANGED <<buffer, droppedEntries, begins, pc, calls, removed, span>>

-----------------------------------------------------------------------------
addEntry(t) == Push(t) \/ OutOfMemory(t) \/ PushWithoutRoom(t) \/ Count(t)

Next ==
    \/ \E size \in Sizes : begin(size)
    \/ \E t \in Tasks : Log(t) \/ addEntry(t) \/ clear(t)
    \/ \E kind \in {"json", "html"}, window \in Windows : Snapshot(kind, window) \/ Request(kind, window)
    \/ \E kind \in {"json", "html"} : SnapshotOutOfMemory(kind)
    \/ StreamBatch \/ StreamNothing \/ StreamAborts

Spec == Init /\ [][Next]_vars

(* xSemaphoreTake waits without end and each holder gives the mutex back:  *)
(* the server task and the logging tasks get their turn.                   *)
FairSpec ==
    /\ Spec
    /\ WF_vars(StreamBatch \/ StreamNothing)
    /\ \A t \in Tasks : WF_vars(addEntry(t))

-----------------------------------------------------------------------------
Complete == response.state = "complete" /\ ~endless     \* endless runs keep no text

(* A complete JSON response is an array, its items separated by single     *)
(* commas: however the batches fall, with a notice or without, and when    *)
(* the buffer is emptied between two of them.                              *)
ArrayWellFormed == Complete /\ response.kind = "json" =>
    LET body == SubSeq(response.text, 2, Len(response.text) - 1) IN
    /\ response.text[1] = "[" /\ response.text[Len(response.text)] = "]"
    /\ Len(body) = 0 \/ Len(body) % 2 = 1
    /\ \A i \in DOMAIN body : body[i] = IF i % 2 = 1 THEN "item" ELSE ","

(* Lines that leave the buffer between two batches shift the others under  *)
(* the reader's index, always towards the front: no line comes twice (the  *)
(* comment at Logger.cpp:571 allows for a repeated one) or out of order,   *)
(* and no more lines are missing than left the buffer meanwhile.  If none  *)
(* did, the response is the window asked for, as it was at the first       *)
(* batch, and every line logged until the last one; or nothing at all,     *)
(* where getLogsJSON or getLogsHTML ran out of memory (Logger.h:107).      *)
SkipsOnlyRemoved == ~endless =>
    LET rows == response.rows IN
    /\ \A i \in 1..(Len(rows) - 1) : rows[i] < rows[i + 1]
    /\ rows # <<>> => rows[Len(rows)] - rows[1] + 1 - Len(rows) <= removed
    /\ Complete /\ removed = 0 /\ ~response.starved =>
         rows = [i \in 1..(span.to - span.from + 1) |-> span.from + i - 1]
    /\ response.starved => rows = <<>>

(* A response says what the buffer held, in a form the page can read.      *)
ResponseFaithful == ArrayWellFormed /\ SkipsOnlyRemoved

(* Every line logged is appended, or counted as dropped, or on its way:    *)
(* whichever allocation failed, and before begin(), unless begin(0) ever   *)
(* turned the buffering off.                                               *)
EveryLineAccounted == ~endless /\ (\A i \in DOMAIN begins : begins[i] # 0) =>
    calls = last + droppedEntries + Cardinality({t \in Tasks : pc[t] # "idle"})

(* A response ends however fast the tasks log: the buffer's limit bounds   *)
(* what it can still find.  (Broken: begin(0) met a line on its way.)      *)
StreamEnds == response.state = "streaming" ~> response.state \in {"complete", "aborted"} \/ broken
=============================================================================
