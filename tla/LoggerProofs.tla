---------------------------- MODULE LoggerProofs ----------------------------
(***************************************************************************)
(* Proofs about the log buffer, for any number of tasks, entries and       *)
(* lines, any batch and every limit begin() is given:                      *)
(*   - every line logged is appended, counted as dropped or on its way;    *)
(*   - a response says what the buffer held, as an array the page reads.   *)
(* Endless runs keep no history and no text: what is proved is said of the *)
(* runs that count their lines, as the properties themselves say it.       *)
(***************************************************************************)
EXTENDS Logger, FiniteSetTheorems, SequenceTheorems, WellFoundedInduction, TLAPS

-----------------------------------------------------------------------------
(* Every line is accounted for.                                            *)

Busy == {t \in Tasks : pc[t] # "idle"}
Tokens == {"[", "]", ",", "item"}

Responses ==
    [state : {"none", "streaming", "complete", "aborted"}, kind : {"json", "html"}, window : Nat,
     index : Nat, positioned : BOOLEAN, first : BOOLEAN, text : Seq(Tokens), rows : Seq(Nat),
     starved : BOOLEAN]

CountType ==
    /\ maxEntries \in Nat /\ mutex \in BOOLEAN /\ endless \in BOOLEAN
    /\ droppedEntries \in Nat /\ last \in Nat /\ calls \in Nat
    /\ begins \in Seq(Nat)
    /\ pc \in [Tasks -> {"idle", "push", "count"}]

(* A line on its way keeps its place among the MaxLines that are told      *)
(* apart, so that no counter is ever saturated; unless begin(0) came,      *)
(* what is neither appended nor on its way is counted.                     *)
NeverOff == \A i \in DOMAIN begins : begins[i] # 0
CountInv ==
    /\ calls <= MaxLines
    /\ last + Cardinality(Busy) <= calls
    /\ NeverOff => maxEntries > 0 /\ calls = last + droppedEntries + Cardinality(Busy)

LinesInv == CountType /\ (endless = FALSE => CountInv)

LEMMA BusyFinite == IsFiniteSet(Busy) /\ Cardinality(Busy) \in Nat
<1>1. Busy \subseteq Tasks
    BY DEF Busy
<1>2. IsFiniteSet(Busy)
    BY <1>1, TasksAssumption, FS_Subset
<1> QED
    BY <1>2, FS_CardinalityType

(* The tasks on their way when one starts, ends or goes on.                *)
LEMMA Starts ==
    ASSUME CountType, NEW t \in Tasks, pc[t] = "idle", NEW where \in {"push", "count"},
           pc' = [pc EXCEPT ![t] = where]
    PROVE  Cardinality(Busy') = Cardinality(Busy) + 1
<1>1. Busy' = Busy \cup {t} /\ t \notin Busy
    BY DEF Busy, CountType
<1> QED
    BY <1>1, BusyFinite, FS_AddElement

LEMMA Ends ==
    ASSUME CountType, NEW t \in Tasks, pc[t] # "idle", pc' = [pc EXCEPT ![t] = "idle"]
    PROVE  /\ Cardinality(Busy') = Cardinality(Busy) - 1
           /\ Cardinality(Busy) >= 1
<1>1. Busy' = Busy \ {t} /\ t \in Busy
    BY DEF Busy, CountType
<1>2. Cardinality(Busy') = Cardinality(Busy) - 1
    BY <1>1, BusyFinite, FS_RemoveElement
<1>3. Busy # {}
    BY <1>1
<1>4. Cardinality(Busy) # 0
    BY <1>3, BusyFinite, FS_EmptySet
<1> QED
    BY <1>2, <1>4, BusyFinite

LEMMA GoesOn ==
    ASSUME CountType, NEW t \in Tasks, pc[t] # "idle", NEW where \in {"push", "count"},
           pc' = [pc EXCEPT ![t] = where]
    PROVE  Cardinality(Busy') = Cardinality(Busy)
<1>1. Busy' = Busy
    BY DEF Busy, CountType
<1> QED
    BY <1>1

LEMMA CallEffect ==
    ASSUME LinesInv, NEW t \in Tasks, CanCall(t), Call(t), endless = FALSE, CountInv
    PROVE  /\ calls' = calls + 1 /\ calls' <= MaxLines
           /\ Cardinality(Busy') = Cardinality(Busy) + 1
<1>1. PICK where \in {"push", "count"} : pc' = [pc EXCEPT ![t] = where]
    BY Zenon DEF Call
<1>2. pc[t] = "idle" /\ calls < MaxLines
    BY DEF CanCall
<1>3. Cardinality(Busy') = Cardinality(Busy) + 1
    BY <1>1, <1>2, Starts DEF LinesInv
<1> QED
    BY <1>2, <1>3, BoundsAssumption DEF Call, Up, LinesInv, CountType

LEMMA LinesInit == Init => LinesInv
<1> SUFFICES ASSUME Init PROVE LinesInv
    OBVIOUS
<1>1. CountType
  <2>1. endless \in BOOLEAN /\ mutex \in BOOLEAN
    BY BoundsAssumption, Zenon DEF Init
  <2>2. begins \in Seq(Nat)
    BY EmptySeq DEF Init
  <2>3. pc \in [Tasks -> {"idle", "push", "count"}]
    BY DEF Init
  <2> QED
    BY <2>1, <2>2, <2>3, SizesAssumption DEF Init, CountType
<1>2. Busy = {}
    BY DEF Init, Busy
<1>3. Cardinality(Busy) = 0
    BY <1>2, FS_EmptySet
<1>4. CountInv
    BY <1>3, SizesAssumption, BoundsAssumption DEF Init, CountInv, NeverOff
<1> QED
    BY <1>1, <1>4 DEF LinesInv

LEMMA UpNat == \A n \in Nat : Up(n) \in Nat
BY DEF Up

LEMMA CallTyped ==
    ASSUME CountType, NEW t \in Tasks, Call(t)
    PROVE  pc' \in [Tasks -> {"idle", "push", "count"}] /\ calls' \in Nat
<1>1. PICK where \in {"push", "count"} : pc' = [pc EXCEPT ![t] = where]
    BY Zenon DEF Call
<1>2. calls' = Up(calls)
    BY DEF Call
<1> QED
    BY <1>1, <1>2, UpNat DEF CountType

LEMMA LinesTyped == ASSUME CountType, [Next]_vars PROVE CountType'
<1>1. CASE \E size \in Sizes : begin(size)
    BY <1>1, SizesAssumption DEF begin, CountType
<1>2. ASSUME NEW t \in Tasks, Log(t) PROVE CountType'
    BY <1>2, CallTyped DEF Log, buffer, CountType
<1>3. ASSUME NEW t \in Tasks, clear(t) PROVE CountType'
    BY <1>3, CallTyped DEF clear, CountType
<1>4. ASSUME NEW t \in Tasks, Push(t) PROVE CountType'
    BY <1>4, UpNat DEF Push, Finish, CountType
<1>5. ASSUME NEW t \in Tasks, OutOfMemory(t) PROVE CountType'
    BY <1>5 DEF OutOfMemory, CountType
<1>6. ASSUME NEW t \in Tasks, PushWithoutRoom(t) PROVE CountType'
    BY <1>6 DEF PushWithoutRoom, CountType
<1>7. ASSUME NEW t \in Tasks, Count(t) PROVE CountType'
  <2>1. droppedEntries' \in Nat
    BY <1>7, UpNat DEF Count, Dropped, CountType
  <2> QED
    BY <2>1, <1>7 DEF Count, Finish, buffer, CountType
<1>8. ASSUME UNCHANGED <<buffer, droppedEntries, begins, pc, calls>> PROVE CountType'
    BY <1>8 DEF buffer, CountType
<1>9. (\E kind \in {"json", "html"}, window \in Windows : Snapshot(kind, window) \/ Request(kind, window))
          \/ (\E kind \in {"json", "html"} : SnapshotOutOfMemory(kind))
          \/ StreamBatch \/ StreamNothing \/ StreamAborts \/ UNCHANGED vars
          => UNCHANGED <<buffer, droppedEntries, begins, pc, calls>>
    BY DEF Snapshot, SnapshotOutOfMemory, Request, StreamBatch, StreamNothing, StreamAborts, vars
<1> QED
    BY <1>1, <1>2, <1>3, <1>4, <1>5, <1>6, <1>7, <1>8, <1>9 DEF Next, addEntry

LEMMA LinesNext == ASSUME LinesInv, [Next]_vars PROVE LinesInv'
<1>1. CountType'
    BY LinesTyped DEF LinesInv
<1>2. endless' = endless
    BY Zenon DEF Next, vars, begin, Log, addEntry, Push, OutOfMemory, PushWithoutRoom, Count, clear, Snapshot, Request,
                 SnapshotOutOfMemory, StreamBatch, StreamNothing, StreamAborts, buffer
<1> SUFFICES ASSUME endless = FALSE PROVE CountInv'
    BY <1>1, <1>2 DEF LinesInv
<1>3. CountInv /\ CountType
    BY DEF LinesInv
<1>4. Cardinality(Busy) \in Nat
    BY BusyFinite
<1>5. ASSUME NEW size \in Sizes, begin(size) PROVE CountInv'
  <2>1. begins \in Seq(Nat) /\ size \in Nat
    BY <1>3, <1>5, SizesAssumption DEF CountType
  <2>2. NeverOff' => NeverOff /\ size # 0
    BY <2>1, <1>5 DEF begin, NeverOff
  <2>3. Cardinality(Busy') = Cardinality(Busy)
    BY <1>5 DEF begin, Busy
  <2> QED
    BY <2>1, <2>2, <2>3, <1>3, <1>5 DEF begin, CountInv
<1>6. ASSUME NEW t \in Tasks, Log(t) \/ clear(t) PROVE CountInv'
  <2>1. /\ CanCall(t) /\ Call(t)
        /\ UNCHANGED <<maxEntries, last, droppedEntries, begins>>
    BY <1>6 DEF Log, clear, buffer
  <2>2. calls' = calls + 1 /\ calls' <= MaxLines /\ Cardinality(Busy') = Cardinality(Busy) + 1
    BY <2>1, <1>3, CallEffect
  <2>3. NeverOff' = NeverOff
    BY <2>1 DEF NeverOff
  <2> QED
    BY <2>1, <2>2, <2>3, <1>3, <1>4 DEF CountInv, CountType
<1>7. ASSUME NEW t \in Tasks, Push(t) PROVE CountInv'
  <2>1. Cardinality(Busy') = Cardinality(Busy) - 1 /\ Cardinality(Busy) >= 1
    BY <1>3, <1>7, Ends DEF Push, Finish
  <2>2. last' = last + 1
    BY <2>1, <1>3, <1>4, <1>7, BoundsAssumption DEF Push, Up, CountInv, CountType
  <2>3. NeverOff' = NeverOff
    BY <1>7 DEF Push, NeverOff
  <2> QED
    BY <2>1, <2>2, <2>3, <1>3, <1>4, <1>7 DEF Push, CountInv, CountType
<1>8. ASSUME NEW t \in Tasks, OutOfMemory(t) PROVE CountInv'
  <2>1. Cardinality(Busy') = Cardinality(Busy)
    BY <1>3, <1>8, GoesOn DEF OutOfMemory
  <2>2. NeverOff' = NeverOff
    BY <1>8 DEF OutOfMemory, NeverOff
  <2> QED
    BY <2>1, <2>2, <1>3, <1>8 DEF OutOfMemory, CountInv
<1>9. ASSUME NEW t \in Tasks, PushWithoutRoom(t) PROVE CountInv'
    BY <1>3, <1>9 DEF PushWithoutRoom, CountInv, NeverOff, Busy
<1>10. ASSUME NEW t \in Tasks, Count(t) PROVE CountInv'
  <2>1. Cardinality(Busy') = Cardinality(Busy) - 1 /\ Cardinality(Busy) >= 1
    BY <1>3, <1>10, Ends DEF Count, Finish
  <2>2. NeverOff' = NeverOff /\ UNCHANGED <<maxEntries, last, calls>>
    BY <1>10 DEF Count, NeverOff, buffer
  <2>3. NeverOff => droppedEntries' = droppedEntries + 1
    BY <2>1, <1>3, <1>4, <1>10, BoundsAssumption DEF Count, Dropped, Up, CountInv, CountType
  <2> QED
    BY <2>1, <2>2, <2>3, <1>3, <1>4 DEF CountInv, CountType
<1>11. ASSUME UNCHANGED <<buffer, droppedEntries, begins, pc, calls>> PROVE CountInv'
    BY <1>3, <1>11 DEF CountInv, NeverOff, Busy, buffer
<1>12. (\E kind \in {"json", "html"}, window \in Windows : Snapshot(kind, window) \/ Request(kind, window))
          \/ (\E kind \in {"json", "html"} : SnapshotOutOfMemory(kind))
          \/ StreamBatch \/ StreamNothing \/ StreamAborts \/ UNCHANGED vars
          => UNCHANGED <<buffer, droppedEntries, begins, pc, calls>>
    BY DEF Snapshot, SnapshotOutOfMemory, Request, StreamBatch, StreamNothing, StreamAborts, vars
<1> QED
    BY <1>5, <1>6, <1>7, <1>8, <1>9, <1>10, <1>11, <1>12 DEF Next, addEntry

LEMMA LinesAlways == Spec => []LinesInv
BY LinesInit, LinesNext, PTL DEF Spec

(* Every line logged is appended, counted as dropped or on its way, for    *)
(* any number of tasks and lines, wherever an allocation fails: addEntry   *)
(* (Logger.cpp:174) loses none without counting it, until begin(0) turns   *)
(* the buffering off.                                                      *)
THEOREM LinesAccounted == Spec => []EveryLineAccounted
<1>1. LinesInv => EveryLineAccounted
  <2> SUFFICES ASSUME LinesInv, ~endless, NeverOff
               PROVE  calls = last + droppedEntries + Cardinality(Busy)
    BY Zenon DEF EveryLineAccounted, NeverOff, Busy
  <2>1. endless = FALSE
    BY DEF LinesInv, CountType
  <2> QED
    BY <2>1 DEF LinesInv, CountInv
<1> QED
    BY <1>1, LinesAlways, PTL

-----------------------------------------------------------------------------
(* Sequences of numbers and of items.                                      *)

LEMMA LeastNatural ==
    ASSUME NEW T \in SUBSET Nat, T # {}
    PROVE  \E x \in T : \A y \in T : x <= y
<1> DEFINE R == OpToRel(<, Nat)
<1>1. IsWellFoundedOn(R, Nat)
    BY NatLessThanWellFounded
<1>2. \A x, y \in Nat : <<y, x>> \in R <=> y < x
    BY DEF OpToRel
<1> HIDE DEF R
<1>3. PICK x \in T : \A y \in T : ~ (<<y, x>> \in R)
    BY <1>1, WFMin
<1>4. \A y \in T : ~ (y < x)
    BY <1>2, <1>3
<1>5. \A a, b \in Nat : ~ (b < a) => a <= b
    OBVIOUS
<1> QED
    BY <1>4, <1>5

LEMMA MinPair ==
    ASSUME NEW a \in Int, NEW b \in Int
    PROVE  Min({a, b}) = IF a <= b THEN a ELSE b
BY DEF Min

LEMMA MaxPair ==
    ASSUME NEW a \in Int, NEW b \in Int
    PROVE  Max({a, b}) = IF a <= b THEN b ELSE a
BY DEF Max

(* An array's items, each but the first with a comma in front; a page's.   *)
Even(i) == i % 2 = 0
LEMMA Parity ==
    /\ Even(0) /\ ~Even(1)
    /\ \A i \in Nat : Even(i + 1) <=> ~Even(i)
    /\ \A i \in Nat : Even(i + 2) <=> Even(i)
    /\ \A i \in Nat : Even(2 * i)
    /\ \A i, j \in Nat : Even(i) => (Even(j + i) <=> Even(j))
BY DEF Even

Size(kind, n, first) == IF kind = "html" THEN n ELSE IF first /\ n # 0 THEN 2 * n - 1 ELSE 2 * n
Token(kind, first, i) == IF kind = "html" \/ (Even(i) <=> ~first) THEN "item" ELSE ","
Row(kind, n, first) == [i \in 1..Size(kind, n, first) |-> Token(kind, first, i)]

LEMMA RowSeq ==
    ASSUME NEW kind, NEW n \in Nat, NEW first \in BOOLEAN
    PROVE  /\ Row(kind, n, first) \in Seq(Tokens)
           /\ Size(kind, n, first) \in Nat /\ Len(Row(kind, n, first)) = Size(kind, n, first)
           /\ \A i \in 1..Size(kind, n, first) : Row(kind, n, first)[i] = Token(kind, first, i)
<1>1. Size(kind, n, first) \in Nat
  <2>1. CASE kind = "html"
    BY <2>1 DEF Size
  <2>2. CASE kind # "html" /\ first = TRUE
    BY <2>2 DEF Size
  <2>3. CASE kind # "html" /\ first = FALSE
    BY <2>3 DEF Size
  <2> QED
    BY <2>1, <2>2, <2>3
<1>2. \A i : Token(kind, first, i) \in Tokens
    BY Zenon DEF Token, Tokens
<1> DEFINE m == Size(kind, n, first)
           row == [i \in 1..m |-> Token(kind, first, i)]
<1>3. row \in [1..m -> Tokens]
    BY <1>2
<1>4. row = Row(kind, n, first)
    BY DEF Row
<1>5. row \in Seq(Tokens) /\ Len(row) = m
  <2> HIDE DEF m
  <2>1. m \in Nat
    BY <1>1 DEF m
  <2> QED
    BY <2>1, <1>3
<1>6. \A i \in 1..m : row[i] = Token(kind, first, i)
    OBVIOUS
<1> QED
    BY <1>1, <1>4, <1>5, <1>6

LEMMA Joined ==
    ASSUME NEW S, NEW r \in Seq(S), NEW p \in Seq(S), NEW s \in Seq(S),
           Len(s) = Len(r) + Len(p),
           \A j \in 1..Len(r) : s[j] = r[j],
           \A j \in 1..Len(p) : s[Len(r) + j] = p[j]
    PROVE  s = r \o p
<1>1. /\ r \o p \in Seq(S) /\ Len(r \o p) = Len(r) + Len(p)
      /\ \A j \in 1..(Len(r) + Len(p)) : (r \o p)[j] = IF j <= Len(r) THEN r[j] ELSE p[j - Len(r)]
    BY ConcatProperties
<1>2. ASSUME NEW j \in 1..Len(s) PROVE s[j] = (r \o p)[j]
  <2>1. CASE j <= Len(r)
    BY <1>1, <2>1
  <2>2. CASE ~ (j <= Len(r))
    <3>1. j - Len(r) \in 1..Len(p) /\ j = Len(r) + (j - Len(r))
      BY <2>2
    <3> QED
      BY <1>1, <2>2, <3>1
  <2> QED
    BY <2>1, <2>2
<1> QED
    BY <1>1, <1>2, SeqEqual

LEMMA RowGrows ==
    ASSUME NEW kind \in {"json", "html"}, NEW i \in Nat, i # 0, NEW first \in BOOLEAN
    PROVE  Row(kind, i, first) = Row(kind, i - 1, first)
               \o (IF kind = "json" /\ Comma(i, first) THEN <<",", "item">> ELSE <<"item">>)
<1>0. i - 1 \in Nat
    OBVIOUS
<1>1. CASE kind = "html"
  <2> DEFINE r == Row(kind, i - 1, first)
             s == Row(kind, i, first)
  <2>0. Size(kind, i, first) = i /\ Size(kind, i - 1, first) = i - 1 /\ \A j : Token(kind, first, j) = "item"
    BY <1>1, Zenon DEF Size, Token
  <2>1. r \in Seq(Tokens) /\ Len(r) = i - 1 /\ \A j \in 1..(i - 1) : r[j] = "item"
    <3>1. r \in Seq(Tokens) /\ Len(r) = i - 1 /\ \A j \in 1..(i - 1) : r[j] = Token(kind, first, j)
      <4>1. i - 1 = Size(kind, i - 1, first)
        BY <2>0, Zenon
      <4>2. /\ r \in Seq(Tokens) /\ Len(r) = Size(kind, i - 1, first)
            /\ \A j \in 1..Size(kind, i - 1, first) : r[j] = Token(kind, first, j)
        BY <1>0, RowSeq
      <4> QED
        BY <4>1, <4>2, Zenon
    <3> QED
      BY <3>1, <2>0, Zenon
  <2>2. s \in Seq(Tokens) /\ Len(s) = i /\ \A j \in 1..i : s[j] = "item"
    <3>1. s \in Seq(Tokens) /\ Len(s) = i /\ \A j \in 1..i : s[j] = Token(kind, first, j)
      BY <2>0, RowSeq, Zenon
    <3> QED
      BY <3>1, <2>0, Zenon
  <2> HIDE DEF r, s
  <2>3. <<"item">> \in Seq(Tokens) /\ Len(<<"item">>) = 1 /\ <<"item">>[1] = "item"
    BY DEF Tokens
  <2>4. s = r \o <<"item">>
    BY <2>1, <2>2, <2>3, ConcatProperties, SeqEqual
  <2> QED
    BY <2>4, <1>1 DEF r, s
<1>2. CASE kind = "json" /\ (first = FALSE \/ i # 1)
  <2> DEFINE r == Row(kind, i - 1, first)
             s == Row(kind, i, first)
             m == Size(kind, i - 1, first)
  <2>1. r \in Seq(Tokens) /\ Len(r) = m /\ (\A j \in 1..m : r[j] = Token(kind, first, j)) /\ m \in Nat
    BY <1>0, RowSeq
  <2>2. Size(kind, i, first) = m + 2 /\ (Even(m) <=> ~first)
    <3>1. CASE first = FALSE
      <4>1. m = 2 * (i - 1) /\ Size(kind, i, first) = 2 * i
        BY <3>1, <1>2 DEF Size
      <4> QED
        BY <4>1, <3>1, <1>0, Parity
    <3>2. CASE first = TRUE
      <4>1. m = 2 * (i - 1) - 1 /\ Size(kind, i, first) = 2 * i - 1
        BY <3>2, <1>2 DEF Size
      <4>2. Even(m + 1) /\ m \in Nat
        BY <4>1, <2>1, <1>0, Parity
      <4>3. Even(m + 1) <=> ~Even(m)
        BY <4>2, Parity
      <4>4. Size(kind, i, first) = m + 2
        BY <4>1
      <4> QED
        BY <4>2, <4>3, <4>4, <3>2, Zenon
    <3> QED
      BY <3>1, <3>2
  <2>3. s \in Seq(Tokens) /\ Len(s) = m + 2 /\ \A j \in 1..(m + 2) : s[j] = Token(kind, first, j)
    BY <2>2, RowSeq
  <2>4. ~(Even(m + 1) <=> ~first) /\ (Even(m + 2) <=> ~first)
    BY <2>1, <2>2, Parity
  <2>5. Token(kind, first, m + 1) = "," /\ Token(kind, first, m + 2) = "item"
    BY <2>4, <1>2, Zenon DEF Token
  <2>6. <<",", "item">> \in Seq(Tokens) /\ Len(<<",", "item">>) = 2 /\ <<",", "item">>[1] = ","
        /\ <<",", "item">>[2] = "item"
    BY DEF Tokens
  <2> HIDE DEF r, s, m
  <2>7. \A j \in 1..(m + 2) : j \in 1..m \/ j = m + 1 \/ j = m + 2
    BY <2>1
  <2>8. s = r \o <<",", "item">>
    <3> DEFINE p == <<",", "item">>
    <3>0. r \in Seq(Tokens) /\ Len(r) = m /\ m \in Nat /\ s \in Seq(Tokens) /\ Len(s) = m + 2
      BY <2>1, <2>3, Zenon
    <3>6. m + 1 \in 1..(m + 2) /\ m + 2 \in 1..(m + 2) /\ \A j \in 1..m : j \in 1..(m + 2)
      BY <3>0
    <3>7. s[m + 1] = "," /\ s[m + 2] = "item"
      BY <2>3, <2>5, <3>6, Zenon
    <3>8. \A j \in 1..m : s[j] = r[j]
      BY <2>1, <2>3, <3>6, Zenon
    <3> HIDE DEF p
    <3>1. p \in Seq(Tokens) /\ Len(p) = 2 /\ p[1] = "," /\ p[2] = "item"
      BY <2>6 DEF p
    <3>2. \A j \in 1..Len(p) : s[Len(r) + j] = p[j]
      <4>0. \A j \in 1..2 : j = 1 \/ j = 2
        OBVIOUS
      <4>1. \A j \in 1..Len(p) : j = 1 \/ j = 2
        BY <3>1, <4>0, Zenon
      <4>2. s[Len(r) + 1] = "," /\ s[Len(r) + 2] = "item"
        BY <3>0, <3>7
      <4> QED
        BY <4>1, <4>2, <3>1
    <3>3. Len(s) = Len(r) + Len(p) /\ \A j \in 1..Len(r) : s[j] = r[j]
      BY <3>0, <3>1, <3>8
    <3>5. s = r \o p
      BY <3>0, <3>1, <3>2, <3>3, Joined
    <3> QED
      BY <3>5 DEF p
  <2>9. Comma(i, first)
    BY <1>2 DEF Comma
  <2> QED
    BY <2>8, <2>9, <1>2 DEF r, s
<1>3. CASE kind = "json" /\ first = TRUE /\ i = 1
  <2> DEFINE s == Row(kind, i, first)
  <2>1. Size(kind, i, first) = 1 /\ Size(kind, 0, first) = 0
    BY <1>3 DEF Size
  <2>2. Token(kind, first, 1) = "item"
    BY <1>3, Parity DEF Token
  <2>3. s \in Seq(Tokens) /\ Len(s) = 1 /\ s[1] = "item"
    <3>1. s \in Seq(Tokens) /\ Len(s) = 1 /\ \A j \in 1..1 : s[j] = Token(kind, first, j)
      BY <2>1, RowSeq, Zenon
    <3> QED
      BY <3>1, <2>2
  <2>4. Row(kind, 0, first) \in Seq(Tokens) /\ Len(Row(kind, 0, first)) = 0
    BY <2>1, RowSeq
  <2> HIDE DEF s
  <2>5. s = <<>> \o <<"item">> /\ Row(kind, 0, first) = <<>>
    BY <2>3, <2>4
  <2>6. ~Comma(i, first)
    BY <1>3 DEF Comma
  <2>7. i - 1 = 0
    BY <1>3
  <2>8. Row(kind, i - 1, first) = <<>>
    BY <2>5, <2>7, Zenon
  <2> QED
    BY <2>5, <2>6, <2>8, Zenon DEF s
<1> QED
    BY <1>1, <1>2, <1>3

LEMMA ItemsAreRow ==
    ASSUME NEW kind \in {"json", "html"}, NEW n \in Nat, NEW first \in BOOLEAN
    PROVE  Items(kind, n, first) = Row(kind, n, first)
<1> DEFINE Item(i) == IF kind = "json" /\ Comma(i, first) THEN <<",", "item">> ELSE <<"item">>
           items[i \in 0..n] == IF i = 0 THEN <<>> ELSE items[i - 1] \o Item(i)
           g == [i \in 0..n |-> Row(kind, i, first)]
           Def(f) == f = [i \in 0..n |-> IF i = 0 THEN <<>> ELSE f[i - 1] \o Item(i)]
<1>1. Row(kind, 0, first) = <<>>
  <2>1. Size(kind, 0, first) = 0
    BY DEF Size
  <2> QED
    BY <2>1, RowSeq
<1>2. \A i \in 0..n : i # 0 => Row(kind, i, first) = Row(kind, i - 1, first) \o Item(i) /\ i - 1 \in 0..n
  <2> SUFFICES ASSUME NEW i \in 0..n, i # 0
               PROVE  Row(kind, i, first) = Row(kind, i - 1, first) \o Item(i) /\ i - 1 \in 0..n
    OBVIOUS
  <2>1. i \in Nat /\ i - 1 \in 0..n
    OBVIOUS
  <2> QED
    BY <2>1, RowGrows, Zenon
<1> HIDE DEF Item
<1>3. Def(g)
    BY <1>1, <1>2
<1>4. items = CHOOSE f : Def(f)
    OBVIOUS
<1>5. Def(items)
    BY <1>3, <1>4, Zenon
<1>6. items[n] = Row(kind, n, first)
  <2> HIDE DEF items, g
  <2> DEFINE T == {i \in 0..n : items[i] # Row(kind, i, first)}
  <2> SUFFICES ASSUME T # {} PROVE FALSE
    OBVIOUS
  <2>1. T \in SUBSET Nat
    OBVIOUS
  <2>2. PICK i \in T : \A y \in T : i <= y
    BY <2>1, LeastNatural
  <2>3. i # 0
    BY <1>1, <1>5
  <2>4. i \in 0..n /\ i - 1 \in 0..n /\ i - 1 \notin T
    BY <2>2, <2>3
  <2>5. items[i - 1] = Row(kind, i - 1, first)
    BY <2>4
  <2>6. items[i] = items[i - 1] \o Item(i)
    BY <1>5, <2>3, <2>4
  <2> QED
    BY <2>2, <2>3, <2>4, <2>5, <2>6, <1>2
<1> QED
    BY <1>6 DEF Items, Item

Shape(text) ==
    /\ text \in Seq(Tokens)
    /\ Len(text) >= 1 /\ text[1] = "["
    /\ Len(text) = 1 \/ Even(Len(text))
    /\ \A i \in 2..Len(text) : (Even(i) => text[i] = "item") /\ (~Even(i) => text[i] = ",")

IsArray(text) ==
    LET body == SubSeq(text, 2, Len(text) - 1) IN
    /\ text[1] = "[" /\ text[Len(text)] = "]"
    /\ Len(body) = 0 \/ Len(body) % 2 = 1
    /\ \A i \in DOMAIN body : body[i] = IF i % 2 = 1 THEN "item" ELSE ","

LEMMA ShapeOpens == Shape(<<"[">>) /\ Len(<<"[">>) = 1
<1>1. <<"[">> \in Seq(Tokens)
    BY DEF Tokens
<1> QED
    BY <1>1 DEF Shape

LEMMA ShapeTyped == ASSUME NEW text, Shape(text) PROVE text \in Seq(Tokens) /\ Len(text) \in Nat /\ Len(text) >= 1
<1>1. text \in Seq(Tokens) /\ Len(text) >= 1
    BY Zenon DEF Shape
<1> QED
    BY <1>1

LEMMA ShapeItems ==
    ASSUME NEW text, Shape(text)
    PROVE  /\ text[1] = "[" /\ (Len(text) = 1 \/ Even(Len(text)))
           /\ \A i \in 2..Len(text) : (Even(i) => text[i] = "item") /\ (~Even(i) => text[i] = ",")
BY Zenon DEF Shape

LEMMA ShapeGrows ==
    ASSUME NEW text, Shape(text), NEW first \in BOOLEAN, first <=> Len(text) = 1, NEW n \in Nat
    PROVE  /\ Shape(text \o Items("json", n, first))
           /\ Len(text \o Items("json", n, first)) = 1 <=> first /\ n = 0
<1> DEFINE r == Row("json", n, first)
           m == Size("json", n, first)
           t == text \o r
           L == Len(text)
<1>1. Items("json", n, first) = r
    BY ItemsAreRow, Zenon
<1>2. r \in Seq(Tokens) /\ m \in Nat /\ Len(r) = m
    BY RowSeq
<1>3. \A i \in 1..m : r[i] = Token("json", first, i)
    BY RowSeq
<1>4. \A i \in 1..m : ((Even(i) <=> ~first) => r[i] = "item") /\ (~(Even(i) <=> ~first) => r[i] = ",")
    BY <1>3, Zenon DEF Token
<1>5. text \in Seq(Tokens) /\ L \in Nat /\ L >= 1
    BY ShapeTyped
<1>50. /\ text[1] = "[" /\ (L = 1 \/ Even(L))
       /\ \A i \in 2..L : (Even(i) => text[i] = "item") /\ (~Even(i) => text[i] = ",")
    BY ShapeItems, Zenon
<1>6. /\ m = 0 <=> n = 0
      /\ m # 0 => \A i \in 1..m : (Even(L + i) => r[i] = "item") /\ (~Even(L + i) => r[i] = ",")
      /\ m # 0 => Even(L + m)
  <2>1. CASE first = TRUE
    <3>1. L = 1
      BY <2>1
    <3>2. m = IF n # 0 THEN 2 * n - 1 ELSE 2 * n
      BY <2>1, Zenon DEF Size
    <3>3. \A i \in 1..m : (~Even(i) => r[i] = "item") /\ (Even(i) => r[i] = ",")
      BY <1>4, <2>1, Zenon
    <3>4. \A i \in Nat : Even(1 + i) <=> ~Even(i)
      <4>1. \A i \in Nat : 1 + i = i + 1
        OBVIOUS
      <4> QED
        BY <4>1, Parity
    <3>5. m # 0 => L + m = 2 * n /\ n # 0
      <4> HIDE DEF m, L
      <4> QED
        BY <3>1, <3>2
    <3>6. Even(2 * n)
      BY Parity
    <3>7. m = 0 <=> n = 0
      BY <3>2
    <3>8. \A i \in 1..m : i \in Nat
      OBVIOUS
    <3> HIDE DEF r, m, L
    <3>9. \A i \in 1..m : (Even(L + i) => r[i] = "item") /\ (~Even(L + i) => r[i] = ",")
      BY <3>1, <3>3, <3>4, <3>8, Zenon
    <3> QED
      BY <3>5, <3>6, <3>7, <3>9, Zenon
  <2>2. CASE first = FALSE
    <3>1. L # 1 /\ Even(L)
      BY <2>2, <1>50
    <3>2. m = 2 * n
      BY <2>2, Zenon DEF Size
    <3>3. \A i \in 1..m : (Even(i) => r[i] = "item") /\ (~Even(i) => r[i] = ",")
      BY <1>4, <2>2, Zenon
    <3>4. \A i \in Nat : Even(L + i) <=> Even(i)
      <4>1. \A i \in Nat : L + i = i + L
        BY <1>5
      <4>2. \A i \in Nat : Even(i + L) <=> Even(i)
        BY <1>5, <3>1, Parity, Zenon
      <4> QED
        BY <4>1, <4>2, Zenon
    <3>5. Even(m) /\ m \in Nat
      <4>1. Even(2 * n) /\ 2 * n \in Nat
        BY Parity
      <4> QED
        BY <4>1, <3>2, Zenon
    <3>7. m = 0 <=> n = 0
      BY <3>2
    <3>8. \A i \in 1..m : i \in Nat
      OBVIOUS
    <3> HIDE DEF r, m, L
    <3>9. \A i \in 1..m : (Even(L + i) => r[i] = "item") /\ (~Even(L + i) => r[i] = ",")
      BY <3>3, <3>4, <3>8, Zenon
    <3> QED
      BY <3>4, <3>5, <3>7, <3>9, Zenon
  <2> QED
    BY <2>1, <2>2
<1>7. /\ t \in Seq(Tokens) /\ Len(t) = L + m
      /\ \A i \in 1..(L + m) : t[i] = IF i <= L THEN text[i] ELSE r[i - L]
  <2> HIDE DEF r, m
  <2> QED
    BY <1>2, <1>5, ConcatProperties
<1>8. Shape(t)
  <2>1. Len(t) >= 1 /\ t[1] = "["
    <3> HIDE DEF t, L, m
    <3>1. Len(t) >= 1 /\ t[1] = text[1]
      BY <1>2, <1>5, <1>7
    <3> QED
      BY <3>1, <1>50
  <2>2. Len(t) = 1 \/ Even(Len(t))
    <3>1. CASE m = 0
      <4>1. L + m = L
        BY <1>5, <3>1
      <4> QED
        BY <4>1, <1>50, <1>7
    <3>2. CASE m # 0
      BY <3>2, <1>6, <1>7
    <3> QED
      BY <3>1, <3>2
  <2>3. ASSUME NEW i \in 2..Len(t) PROVE (Even(i) => t[i] = "item") /\ (~Even(i) => t[i] = ",")
    <3> HIDE DEF t, L, m
    <3>0. i \in 1..(L + m)
      BY <1>2, <1>5, <1>7
    <3>1. CASE i <= L
      <4>1. i \in 2..L /\ t[i] = text[i]
        BY <3>0, <3>1, <1>5, <1>7
      <4> QED
        BY <4>1, <1>50, Zenon
    <3>2. CASE ~ (i <= L)
      <4>1. i - L \in 1..m /\ m # 0 /\ L + (i - L) = i
        BY <3>2, <3>0, <1>2, <1>5
      <4>2. t[i] = r[i - L]
        BY <1>7, <3>0, <3>2
      <4> QED
        BY <4>1, <4>2, <1>6, Zenon
    <3> QED
      BY <3>1, <3>2
  <2> QED
    BY <1>7, <2>1, <2>2, <2>3 DEF Shape
<1>9. Len(t) = 1 <=> first /\ n = 0
  <2>1. Len(t) = 1 <=> L = 1 /\ m = 0
    <3> HIDE DEF t, L, m
    <3> QED
      BY <1>2, <1>5, <1>7
  <2> QED
    BY <2>1, <1>6, Zenon
<1> QED
    BY <1>1, <1>8, <1>9, Zenon

LEMMA ShapeCloses == ASSUME NEW text, Shape(text) PROVE IsArray(text \o <<"]">>) /\ text \o <<"]">> \in Seq(Tokens)
<1> DEFINE t == text \o <<"]">>
           L == Len(text)
           body == SubSeq(t, 2, Len(t) - 1)
<1>1. text \in Seq(Tokens) /\ L \in Nat /\ L >= 1
    BY ShapeTyped
<1>11. /\ text[1] = "[" /\ (L = 1 \/ Even(L))
       /\ \A i \in 2..L : (Even(i) => text[i] = "item") /\ (~Even(i) => text[i] = ",")
    BY ShapeItems, Zenon
<1>2. <<"]">> \in Seq(Tokens) /\ Len(<<"]">>) = 1 /\ <<"]">>[1] = "]"
    BY DEF Tokens
<1>3. /\ t \in Seq(Tokens) /\ Len(t) = L + 1
      /\ \A i \in 1..L : t[i] = text[i]
      /\ t[L + 1] = "]"
    BY <1>1, <1>2, ConcatProperties
<1> HIDE DEF t, L
<1>4. \A i \in 2..(Len(t) - 1) : t[i] \in Tokens
    BY <1>1, <1>3, ElementOfSeq
<1>5. /\ body \in Seq(Tokens) /\ Len(body) = IF 2 <= Len(t) - 1 THEN Len(t) - 1 - 2 + 1 ELSE 0
      /\ \A i \in 1..(Len(t) - 1 - 2 + 1) : body[i] = t[2 + i - 1]
    BY <1>1, <1>3, <1>4, SubSeqProperties
<1>6. Len(body) = L - 1 /\ \A i \in 1..(L - 1) : body[i] = t[i + 1] /\ t[i + 1] = text[i + 1] /\ i + 1 \in 2..L
  <2>1. Len(t) - 1 - 2 + 1 = L - 1 /\ \A i \in 1..(L - 1) : 2 + i - 1 = i + 1 /\ i + 1 \in 2..L /\ i + 1 \in 1..L
    BY <1>1, <1>3
  <2> HIDE DEF body
  <2>2. Len(body) = L - 1
    BY <1>1, <1>3, <1>5
  <2> QED
    BY <2>1, <2>2, <1>3, <1>5
<1> HIDE DEF body
<1>7. \A i \in Nat : Even(i + 1) <=> i % 2 = 1
    BY DEF Even
<1>8. Len(body) = 0 \/ Len(body) % 2 = 1
  <2>1. CASE L = 1
    BY <2>1, <1>6
  <2>2. CASE L # 1
    <3>1. L - 1 \in Nat /\ (L - 1) + 1 = L /\ Even(L)
      <4>1. L - 1 \in Nat /\ (L - 1) + 1 = L
        BY <1>1
      <4> QED
        BY <4>1, <2>2, <1>11
    <3> QED
      BY <3>1, <1>6, <1>7
  <2> QED
    BY <2>1, <2>2
<1>9. ASSUME NEW i \in DOMAIN body PROVE body[i] = IF i % 2 = 1 THEN "item" ELSE ","
  <2>1. i \in 1..(L - 1) /\ i \in Nat
    BY <1>5, <1>6
  <2>2. (Even(i + 1) => body[i] = "item") /\ (~Even(i + 1) => body[i] = ",")
    BY <2>1, <1>11, <1>6, Zenon
  <2> QED
    BY <2>1, <2>2, <1>7
<1>10. t[1] = "[" /\ t[Len(t)] = "]"
  <2>1. t[1] = text[1] /\ t[Len(t)] = t[L + 1]
    BY <1>1, <1>3
  <2> QED
    BY <2>1, <1>3, <1>11, Zenon
<1> QED
    BY <1>3, <1>8, <1>9, <1>10 DEF IsArray, t, body

-----------------------------------------------------------------------------
(* The reader: what the buffer holds, where the reader stands in it and    *)
(* what it has sent.                                                       *)

ReaderType ==
    /\ entries \in Seq(Nat) /\ broken \in BOOLEAN /\ removed \in Nat
    /\ response \in Responses
    /\ span \in [from : Int, to : Int]

(* Before begin() nothing is in the buffer, nor on its way into it.        *)
MutexInv == mutex = FALSE =>
    /\ entries = <<>> /\ broken = FALSE
    /\ \A t \in Tasks : pc[t] # "push"
    /\ response.state = "streaming" => response.positioned = FALSE

(* The buffer holds the last lines that arrived.                           *)
Place == broken = FALSE =>
    /\ Len(entries) <= last
    /\ \A i \in 1..Len(entries) : entries[i] = last - Len(entries) + i

(* The line the reader stands at: each that leaves the buffer moves it on. *)
Position == last - Len(entries) + response.index

(* What the reader has not sent of the lines up to its position, from the  *)
(* first it was asked for, left the buffer since.                          *)
Behind ==
    /\ removed + Len(entries) <= last
    /\ response.index <= Len(entries) + removed
    /\ Position - span.from + 1 = Len(response.rows) + removed
    /\ \A i \in 1..Len(response.rows) : response.rows[i] <= Position
    /\ removed = 0 => \A i \in 1..Len(response.rows) : response.rows[i] = span.from + i - 1

ReadInv == response.state = "streaming" =>
    /\ response.positioned = FALSE => response.rows = <<>> /\ span = NoSpan /\ removed = 0
    /\ response.positioned = TRUE /\ broken = FALSE => Behind

Increasing(rows) == \A i \in 1..(Len(rows) - 1) : rows[i] < rows[i + 1]
From(rows, first) == \A i \in 1..Len(rows) : first <= rows[i]
Skipped(rows) == rows[Len(rows)] - rows[1] + 1 - Len(rows)
Window == [i \in 1..(span.to - span.from + 1) |-> span.from + i - 1]

RowsInv ==
    /\ Increasing(response.rows)
    /\ From(response.rows, span.from)
    /\ response.rows # <<>> => Skipped(response.rows) <= removed
    /\ response.starved = FALSE /\ response.state = "complete" /\ removed = 0 => response.rows = Window
    /\ response.starved = TRUE => response.rows = <<>> /\ response.state = "complete"

TextInv == response.kind = "json" =>
    /\ response.state = "streaming" => Shape(response.text) /\ (response.first <=> Len(response.text) = 1)
    /\ response.state = "complete" => IsArray(response.text)

ResponseInv ==
    /\ LinesInv /\ ReaderType /\ MutexInv
    /\ endless = FALSE => Place /\ ReadInv /\ RowsInv /\ TextInv

LEMMA NoResponseTyped == NoResponse \in Responses
BY EmptySeq DEF NoResponse, Responses

(* What is left of the buffer when its first d lines go.                   *)
LEMMA Kept ==
    ASSUME NEW s \in Seq(Nat), NEW d \in 0..Len(s)
    PROVE  /\ SubSeq(s, d + 1, Len(s)) \in Seq(Nat)
           /\ Len(SubSeq(s, d + 1, Len(s))) = Len(s) - d
           /\ \A i \in 1..(Len(s) - d) : SubSeq(s, d + 1, Len(s))[i] = s[d + i]
<1> DEFINE k == SubSeq(s, d + 1, Len(s))
<1>1. d + 1 \in Int /\ Len(s) \in Int /\ Len(s) - (d + 1) + 1 = Len(s) - d
    OBVIOUS
<1>2. \A i \in (d + 1)..Len(s) : s[i] \in Nat
    BY ElementOfSeq
<1>3. /\ k \in Seq(Nat) /\ Len(k) = IF d + 1 <= Len(s) THEN Len(s) - (d + 1) + 1 ELSE 0
      /\ \A i \in 1..(Len(s) - (d + 1) + 1) : k[i] = s[d + 1 + i - 1]
    BY <1>1, <1>2, SubSeqProperties
<1> HIDE DEF k
<1>4. \A i \in 1..(Len(s) - d) : d + 1 + i - 1 = d + i
    OBVIOUS
<1>5. Len(k) = Len(s) - d
    BY <1>3
<1>6. \A i \in 1..(Len(s) - d) : k[i] = s[d + i]
    BY <1>1, <1>3, <1>4
<1> QED
    BY <1>3, <1>5, <1>6 DEF k

LEMMA TrimmedKept ==
    ASSUME entries \in Seq(Nat), maxEntries \in Nat, maxEntries > 0
    PROVE  \E d \in 0..Len(entries) : Trimmed = SubSeq(entries, d + 1, Len(entries))
<1> DEFINE m == Len(entries) - maxEntries + 2
           d == Max({1, m}) - 1
<1>1. m \in Int /\ m <= Len(entries) + 1 /\ Len(entries) \in Nat
    OBVIOUS
<1>2. Max({1, m}) = IF 1 <= m THEN m ELSE 1
    BY <1>1, MaxPair
<1> HIDE DEF m
<1>3. d \in 0..Len(entries) /\ d + 1 = Max({1, m})
    BY <1>1, <1>2
<1>4. Trimmed = SubSeq(entries, d + 1, Len(entries))
    BY <1>3 DEF Trimmed, m
<1> QED
    BY <1>3, <1>4

(* One batch: end and rows of StreamBatch.                                 *)
End == Max({Index, Min({Len(entries), Index + Batch})})
New == SubSeq(entries, Index + 1, End)
Sent == response.text \o Items(response.kind, Len(New), response.first)

LEMMA StartWithin ==
    ASSUME NEW total \in Nat, NEW window \in Nat
    PROVE  Start(total, window) \in 0..total
BY DEF Start

LEMMA IndexTyped ==
    ASSUME ReaderType
    PROVE  /\ Index \in Nat
           /\ response.positioned = TRUE => Index = response.index
           /\ response.positioned = FALSE => Index = Start(Len(entries), response.window) /\ Index <= Len(entries)
<1>1. response.index \in Nat /\ response.window \in Nat /\ response.positioned \in BOOLEAN
    BY DEF ReaderType, Responses
<1>2. Len(entries) \in Nat
    BY DEF ReaderType
<1>3. Start(Len(entries), response.window) \in 0..Len(entries)
    BY <1>1, <1>2, StartWithin
<1>4. CASE response.positioned = TRUE
    BY <1>1, <1>4 DEF Index
<1>5. CASE response.positioned = FALSE
  <2>1. Index = Start(Len(entries), response.window)
    BY <1>5 DEF Index
  <2> QED
    BY <2>1, <1>2, <1>3, <1>5
<1> QED
    BY <1>1, <1>4, <1>5

LEMMA NewLines ==
    ASSUME ReaderType
    PROVE  /\ End \in Nat /\ Index <= End /\ (End <= Len(entries) \/ End = Index)
           /\ New \in Seq(Nat) /\ Len(New) = End - Index
           /\ \A i \in 1..Len(New) : New[i] = entries[Index + i] /\ Index + i \in 1..Len(entries)
           /\ Len(New) # Batch /\ Index <= Len(entries) => End = Len(entries)
<1>1. Index \in Nat /\ Batch \in Nat \ {0} /\ entries \in Seq(Nat) /\ Len(entries) \in Nat
    BY IndexTyped, SizesAssumption DEF ReaderType
<1> DEFINE m == Min({Len(entries), Index + Batch})
<1>2. m = IF Len(entries) <= Index + Batch THEN Len(entries) ELSE Index + Batch
    BY <1>1, MinPair
<1>3. m \in Nat
    BY <1>1, <1>2
<1>10. End = Max({Index, m})
    BY DEF End
<1> HIDE DEF m
<1>4. End = IF Index <= m THEN m ELSE Index
    BY <1>1, <1>3, <1>10, MaxPair
<1>5. /\ End \in Nat /\ Index <= End /\ (End <= Len(entries) \/ End = Index)
      /\ End - Index # Batch /\ Index <= Len(entries) => End = Len(entries)
    BY <1>1, <1>2, <1>3, <1>4
<1>6. \A i \in (Index + 1)..End : entries[i] \in Nat
  <2>1. \A i \in (Index + 1)..End : i \in 1..Len(entries)
    BY <1>1, <1>5
  <2> QED
    BY <2>1, <1>1, ElementOfSeq
<1>7. /\ New \in Seq(Nat) /\ Len(New) = IF Index + 1 <= End THEN End - (Index + 1) + 1 ELSE 0
      /\ \A i \in 1..(End - (Index + 1) + 1) : New[i] = entries[Index + 1 + i - 1]
  <2>1. Index + 1 \in Int /\ End \in Int
    BY <1>1, <1>5
  <2> QED
    BY <2>1, <1>6, SubSeqProperties DEF New
<1>8. Len(New) = End - Index
    BY <1>1, <1>5, <1>7
<1>9. \A i \in 1..Len(New) : New[i] = entries[Index + i] /\ Index + i \in 1..Len(entries)
  <2>1. \A i \in 1..Len(New) : /\ i \in 1..(End - (Index + 1) + 1) /\ Index + 1 + i - 1 = Index + i
                               /\ Index + i \in 1..Len(entries)
    BY <1>1, <1>5, <1>8
  <2> QED
    BY <2>1, <1>7
<1> QED
    BY <1>5, <1>7, <1>8, <1>9

LEMMA Brackets ==
    ASSUME NEW kind \in {"json", "html"}
    PROVE  Opening(kind) \in Seq(Tokens) /\ Closing(kind) \in Seq(Tokens)
<1>1. <<"[">> \in Seq(Tokens) /\ <<"]">> \in Seq(Tokens) /\ <<>> \in Seq(Tokens)
    BY DEF Tokens
<1> QED
    BY <1>1, Zenon DEF Opening, Closing

LEMMA ItemsTyped ==
    ASSUME NEW kind \in {"json", "html"}, NEW n \in Nat, NEW first \in BOOLEAN
    PROVE  Items(kind, n, first) \in Seq(Tokens)
BY ItemsAreRow, RowSeq, Zenon

LEMMA TextOfBatch ==
    ASSUME ReaderType
    PROVE  /\ Items(response.kind, Len(New), response.first) \in Seq(Tokens)
           /\ Sent \in Seq(Tokens)
           /\ Closing(response.kind) \in Seq(Tokens)
           /\ Sent \o Closing(response.kind) \in Seq(Tokens)
           /\ response.text \o Closing(response.kind) \in Seq(Tokens)
<1>1. response.kind \in {"json", "html"} /\ response.first \in BOOLEAN /\ response.text \in Seq(Tokens)
    BY DEF ReaderType, Responses
<1>2. Len(New) \in Nat
    BY NewLines
<1>3. Items(response.kind, Len(New), response.first) \in Seq(Tokens)
    BY <1>1, <1>2, ItemsTyped, Zenon
<1>4. Closing(response.kind) \in Seq(Tokens)
    BY <1>1, Brackets, Zenon
<1>5. Sent \in Seq(Tokens)
    BY <1>1, <1>3, ConcatProperties, Zenon DEF Sent
<1> QED
    BY <1>1, <1>3, <1>4, <1>5, ConcatProperties, Zenon

LEMMA BatchEffect ==
    ASSUME CountType, ReaderType, StreamBatch
    PROVE  /\ response' \in Responses
           /\ response'.index = End /\ response'.positioned = TRUE /\ response'.kind = response.kind
           /\ response'.first <=> response.first /\ New = <<>>
           /\ response'.state = IF Len(New) = Batch THEN "streaming" ELSE "complete"
           /\ response'.starved = response.starved
           /\ endless = FALSE => response'.rows = response.rows \o New
           /\ endless = FALSE => response'.text = IF Len(New) = Batch THEN Sent ELSE Sent \o Closing(response.kind)
<1> DEFINE f == response.first /\ New = <<>>
           R == Recorded(response.rows \o New)
           st == IF More(Len(New)) THEN "streaming" ELSE "complete"
           tx == Recorded(IF More(Len(New)) THEN Sent ELSE Sent \o Closing(response.kind))
<1>1. response' = [response EXCEPT !.index = End, !.positioned = TRUE, !.first = f, !.rows = R, !.state = st, !.text = tx]
    BY Zenon DEF StreamBatch, End, New, Sent
<1>2. response \in Responses /\ response.rows \in Seq(Nat) /\ End \in Nat /\ New \in Seq(Nat)
    BY NewLines DEF ReaderType, Responses
<1>3. f \in BOOLEAN
    BY Zenon
<1>4. st \in {"streaming", "complete"} /\ st = IF Len(New) = Batch THEN "streaming" ELSE "complete"
    BY DEF More
<1>5. endless \in BOOLEAN
    BY DEF CountType
<1>6. R \in Seq(Nat) /\ (endless = FALSE => R = response.rows \o New)
  <2>1. response.rows \o New \in Seq(Nat) /\ <<>> \in Seq(Nat)
    BY <1>2, ConcatProperties, EmptySeq
  <2> QED
    BY <2>1, <1>5, Zenon DEF Recorded
<1>7. /\ tx \in Seq(Tokens)
      /\ endless = FALSE => tx = IF Len(New) = Batch THEN Sent ELSE Sent \o Closing(response.kind)
  <2>1. <<>> \in Seq(Tokens)
    BY EmptySeq
  <2>2. (IF More(Len(New)) THEN Sent ELSE Sent \o Closing(response.kind)) \in Seq(Tokens)
    BY TextOfBatch, Zenon
  <2> QED
    BY <2>1, <2>2, <1>5, Zenon DEF Recorded, More
<1>8. f <=> response.first /\ New = <<>>
    OBVIOUS
<1> HIDE DEF f, R, st, tx
<1>9. /\ response' \in Responses
      /\ response'.index = End /\ response'.positioned = TRUE /\ response'.kind = response.kind
      /\ response'.first = f /\ response'.state = st /\ response'.rows = R /\ response'.text = tx
      /\ response'.starved = response.starved
    BY <1>1, <1>2, <1>3, <1>4, <1>6, <1>7 DEF Responses
<1> QED
    BY <1>4, <1>6, <1>7, <1>8, <1>9, Zenon

LEMMA NothingEffect ==
    ASSUME ReaderType, StreamNothing
    PROVE  /\ response' \in Responses
           /\ response'.state = "complete" /\ response'.kind = response.kind /\ response'.rows = response.rows
           /\ response'.starved = response.starved
           /\ response'.text = response.text \o Closing(response.kind)
<1>1. response' = [response EXCEPT !.state = "complete", !.text = response.text \o Closing(response.kind)]
    BY DEF StreamNothing
<1>2. response \in Responses /\ response.text \o Closing(response.kind) \in Seq(Tokens)
    BY TextOfBatch DEF ReaderType
<1> QED
    BY <1>1, <1>2 DEF Responses

LEMMA AbortEffect ==
    ASSUME ReaderType, StreamAborts
    PROVE  /\ response' \in Responses
           /\ response'.state = "aborted" /\ response'.kind = response.kind /\ response'.rows = response.rows
           /\ response'.starved = response.starved
BY DEF StreamAborts, ReaderType, Responses

LEMMA HeadTyped ==
    ASSUME NEW kind \in {"json", "html"}
    PROVE  /\ Notices \in Nat /\ (Notices = 0) \in BOOLEAN
           /\ Opening(kind) \in Seq(Tokens) /\ Closing(kind) \in Seq(Tokens)
           /\ Items(kind, Notices, TRUE) \in Seq(Tokens)
           /\ Opening(kind) \o Items(kind, Notices, TRUE) \in Seq(Tokens)
<1>1. Notices \in Nat
    BY DEF Notices
<1>2. Opening(kind) \in Seq(Tokens) /\ Closing(kind) \in Seq(Tokens)
    BY Brackets
<1>3. Items(kind, Notices, TRUE) \in Seq(Tokens)
  <2>1. TRUE \in BOOLEAN
    OBVIOUS
  <2> QED
    BY <1>1, <2>1, ItemsTyped, Zenon
<1> QED
    BY <1>1, <1>2, <1>3, ConcatProperties, Zenon

LEMMA RequestEffect ==
    ASSUME NEW kind \in {"json", "html"}, NEW window \in Nat, Request(kind, window)
    PROVE  /\ response' \in Responses
           /\ response'.rows = <<>> /\ response'.positioned = FALSE /\ response'.state = "streaming"
           /\ response'.kind = kind /\ response'.first = (Notices = 0) /\ response'.starved = FALSE
           /\ response'.text = Opening(kind) \o Items(kind, Notices, TRUE)
<1> DEFINE f == Notices = 0
           tx == Opening(kind) \o Items(kind, Notices, TRUE)
<1>1. response' = [NoResponse EXCEPT !.state = "streaming", !.kind = kind, !.window = window, !.text = tx, !.first = f]
    BY Zenon DEF Request
<1>2. f \in BOOLEAN /\ tx \in Seq(Tokens)
    BY HeadTyped, Zenon
<1> HIDE DEF f, tx
<1>3. /\ response' \in Responses
      /\ response'.rows = <<>> /\ response'.positioned = FALSE /\ response'.state = "streaming"
      /\ response'.kind = kind /\ response'.first = f /\ response'.starved = FALSE /\ response'.text = tx
    BY <1>1, <1>2, NoResponseTyped DEF NoResponse, Responses
<1> QED
    BY <1>3, Zenon DEF f, tx

(* The rows of the whole text under one lock.                              *)
Whole(window) == IF mutex THEN SubSeq(entries, Start(Len(entries), window) + 1, Len(entries)) ELSE <<>>
Text(kind, n) == Opening(kind) \o Items(kind, Notices, TRUE) \o Items(kind, n, Notices = 0)

LEMMA WholeTyped ==
    ASSUME CountType, ReaderType, NEW window \in Nat
    PROVE  Whole(window) \in Seq(Nat) /\ Len(Whole(window)) \in Nat
<1>1. entries \in Seq(Nat) /\ Len(entries) \in Nat
    BY DEF ReaderType
<1>2. Start(Len(entries), window) \in 0..Len(entries)
    BY <1>1, StartWithin
<1>3. SubSeq(entries, Start(Len(entries), window) + 1, Len(entries)) \in Seq(Nat)
    BY <1>1, <1>2, Kept
<1>4. Whole(window) \in Seq(Nat)
    BY <1>3, EmptySeq, Zenon DEF Whole
<1> QED
    BY <1>4

LEMMA TextTyped ==
    ASSUME NEW kind \in {"json", "html"}, NEW n \in Nat
    PROVE  Text(kind, n) \in Seq(Tokens) /\ Text(kind, n) \o Closing(kind) \in Seq(Tokens)
<1>1. Items(kind, n, Notices = 0) \in Seq(Tokens)
  <2>1. (Notices = 0) \in BOOLEAN
    BY Zenon
  <2> QED
    BY <2>1, ItemsTyped, Zenon
<1>2. Text(kind, n) \in Seq(Tokens)
    BY <1>1, HeadTyped, ConcatProperties, Zenon DEF Text
<1> QED
    BY <1>2, HeadTyped, ConcatProperties, Zenon

LEMMA SnapshotEffect ==
    ASSUME CountType, ReaderType, NEW kind \in {"json", "html"}, NEW window \in Nat, Snapshot(kind, window)
    PROVE  /\ response' \in Responses
           /\ response'.rows = Whole(window) /\ response'.state = "complete" /\ response'.kind = kind
           /\ response'.starved = FALSE
           /\ response'.text = Text(kind, Len(Whole(window))) \o Closing(kind)
<1> DEFINE R == Whole(window)
           tx == Text(kind, Len(R)) \o Closing(kind)
<1>1. response' = [NoResponse EXCEPT !.state = "complete", !.kind = kind, !.rows = R, !.text = tx]
    BY Zenon DEF Snapshot, Whole, Text
<1>2. R \in Seq(Nat) /\ tx \in Seq(Tokens)
    BY WholeTyped, TextTyped
<1> HIDE DEF R, tx
<1>3. /\ response' \in Responses
      /\ response'.rows = R /\ response'.state = "complete" /\ response'.kind = kind /\ response'.text = tx
      /\ response'.starved = FALSE
    BY <1>1, <1>2, NoResponseTyped DEF NoResponse, Responses
<1> QED
    BY <1>3, Zenon DEF R, tx

(* Their answer where an allocation failed.                                *)
LEMMA StarvedEffect ==
    ASSUME NEW kind \in {"json", "html"}, SnapshotOutOfMemory(kind)
    PROVE  /\ response' \in Responses
           /\ response'.rows = <<>> /\ response'.state = "complete" /\ response'.kind = kind
           /\ response'.starved = TRUE
           /\ response'.text = Opening(kind) \o Closing(kind)
<1> DEFINE tx == Opening(kind) \o Closing(kind)
<1>1. response' = [NoResponse EXCEPT !.state = "complete", !.kind = kind, !.starved = TRUE, !.text = tx]
    BY Zenon DEF SnapshotOutOfMemory
<1>2. tx \in Seq(Tokens)
    BY HeadTyped, ConcatProperties, Zenon
<1> HIDE DEF tx
<1>3. /\ response' \in Responses
      /\ response'.rows = <<>> /\ response'.state = "complete" /\ response'.kind = kind
      /\ response'.starved = TRUE /\ response'.text = tx
    BY <1>1, <1>2, NoResponseTyped DEF NoResponse, Responses
<1> QED
    BY <1>3, Zenon DEF tx

(* The other steps: which of them touch the buffer, which the reader.      *)
Calm == UNCHANGED <<entries, last, broken, endless, reader>>

LEMMA Shifts ==
    ASSUME NEW t \in Tasks, CountType, ReaderType, Push(t) \/ OutOfMemory(t) \/ clear(t)
    PROVE  /\ broken = FALSE /\ UNCHANGED <<mutex, broken, endless, response, span>>
           /\ \E d \in 0..Len(entries), kept \in Seq(Nat) :
                 /\ kept = SubSeq(entries, d + 1, Len(entries))
                 /\ Removed(d)
                 /\ \/ entries' = kept /\ last' = last
                    \/ Push(t) /\ entries' = Append(kept, last') /\ last' = Up(last)
<1>0. entries \in Seq(Nat) /\ maxEntries \in Nat /\ Len(entries) \in Nat
    BY DEF ReaderType, CountType
<1>1. broken = FALSE /\ UNCHANGED <<mutex, broken, endless, response, span>>
    BY DEF Push, OutOfMemory, clear, CanCall, ReaderType
<1>2. ASSUME NEW d \in 0..Len(entries), Trimmed = SubSeq(entries, d + 1, Len(entries))
      PROVE  Trimmed \in Seq(Nat) /\ Len(entries) - Len(Trimmed) = d
    BY <1>0, <1>2, Kept
<1>3. CASE Push(t)
  <2>1. PICK d \in 0..Len(entries) : Trimmed = SubSeq(entries, d + 1, Len(entries))
    BY <1>0, <1>3, TrimmedKept DEF Push
  <2>2. Trimmed \in Seq(Nat) /\ Len(entries) - Len(Trimmed) = d
    BY <2>1, <1>2
  <2>3. Removed(d) /\ entries' = Append(Trimmed, last') /\ last' = Up(last)
    BY <2>2, <1>3, Zenon DEF Push
  <2> QED
    BY <2>1, <2>2, <2>3, <1>1, <1>3, Zenon
<1>4. CASE (OutOfMemory(t) \/ clear(t)) /\ entries' = <<>> /\ Removed(Len(entries)) /\ last' = last
  <2>1. Len(entries) \in 0..Len(entries)
    BY <1>0
  <2>2. SubSeq(entries, Len(entries) + 1, Len(entries)) = <<>>
    BY <1>0, <2>1, Kept
  <2>3. <<>> \in Seq(Nat)
    OBVIOUS
  <2> QED
    BY <2>1, <2>2, <2>3, <1>1, <1>4, Zenon
<1>5. CASE OutOfMemory(t) /\ entries' = entries
  <2>1. 0 \in 0..Len(entries) /\ Len(entries) - Len(entries') = 0
    BY <1>0, <1>5
  <2>2. SubSeq(entries, 0 + 1, Len(entries)) = entries
    BY <1>0, SubSeqFull
  <2>3. Removed(0) /\ last' = last
    BY <2>1, <1>5, Zenon DEF OutOfMemory
  <2> QED
    BY <2>1, <2>2, <2>3, <1>0, <1>1, <1>5, Zenon
<1>6. CASE OutOfMemory(t) /\ maxEntries > 0 /\ entries' = Trimmed
  <2>1. PICK d \in 0..Len(entries) : Trimmed = SubSeq(entries, d + 1, Len(entries))
    BY <1>0, <1>6, TrimmedKept
  <2>2. Trimmed \in Seq(Nat) /\ Len(entries) - Len(Trimmed) = d
    BY <2>1, <1>2
  <2>3. Removed(d) /\ last' = last
    BY <2>2, <1>6, Zenon DEF OutOfMemory
  <2> QED
    BY <2>1, <2>2, <2>3, <1>1, <1>6, Zenon
<1>7. clear(t) => entries' = <<>> /\ Removed(Len(entries)) /\ last' = last
    BY Zenon DEF clear
<1>8. OutOfMemory(t) => (entries' = entries) \/ (maxEntries > 0 /\ entries' = Trimmed)
    BY Zenon DEF OutOfMemory
<1> QED
    BY <1>3, <1>4, <1>5, <1>6, <1>7, <1>8, Zenon

LEMMA RemovedTyped ==
    ASSUME ReaderType, NEW d \in Nat, Removed(d)
    PROVE  removed' \in Nat
<1>1. removed + d \in Nat /\ MaxLines \in Nat
    BY BoundsAssumption DEF ReaderType
<1>2. Min({removed + d, MaxLines}) = IF removed + d <= MaxLines THEN removed + d ELSE MaxLines
    BY <1>1, MinPair
<1>3. Min({removed + d, MaxLines}) \in Nat
    BY <1>1, <1>2
<1>4. removed \in Nat
    BY DEF ReaderType
<1> QED
    BY <1>3, <1>4, Zenon DEF Removed

LEMMA CalmSteps ==
    ASSUME [Next]_vars
    PROVE  \/ Calm
           \/ \E t \in Tasks : Push(t) \/ OutOfMemory(t) \/ clear(t) \/ PushWithoutRoom(t)
           \/ \E kind \in {"json", "html"}, window \in Windows : Snapshot(kind, window) \/ Request(kind, window)
           \/ \E kind \in {"json", "html"} : SnapshotOutOfMemory(kind)
           \/ StreamBatch \/ StreamNothing \/ StreamAborts
<1>1. ASSUME NEW size \in Sizes, begin(size) PROVE Calm
    BY <1>1 DEF begin, Calm
<1>2. ASSUME NEW t \in Tasks, Log(t) \/ Count(t) PROVE Calm
    BY <1>2 DEF Log, Count, buffer, Calm
<1>3. UNCHANGED vars => Calm
    BY DEF vars, buffer, Calm
<1> QED
    BY <1>1, <1>2, <1>3, Zenon DEF Next, addEntry

LEMMA NewestTyped ==
    ASSUME CountType, ReaderType, NEW window \in Nat
    PROVE  Newest(window) \in [from : Int, to : Int]
<1>1. Len(entries) \in Nat /\ last \in Nat /\ endless \in BOOLEAN
    BY DEF CountType, ReaderType
<1> DEFINE n == IF window = 0 THEN Len(entries) ELSE Min({window, Len(entries)})
<1>2. Min({window, Len(entries)}) = IF window <= Len(entries) THEN window ELSE Len(entries)
    BY <1>1, MinPair
<1>3. n \in Nat
    BY <1>1, <1>2
<1>4. Newest(window) = IF endless THEN NoSpan ELSE [from |-> last - n + 1, to |-> last]
    BY Zenon DEF Newest
<1> HIDE DEF n
<1>5. [from |-> last - n + 1, to |-> last] \in [from : Int, to : Int]
    BY <1>1, <1>3
<1>6. NoSpan \in [from : Int, to : Int]
    BY DEF NoSpan
<1> QED
    BY <1>1, <1>4, <1>5, <1>6, Zenon

LEMMA ReaderTyped == ASSUME CountType, ReaderType, [Next]_vars PROVE ReaderType'
<1>1. CASE Calm
    BY <1>1 DEF Calm, reader, ReaderType
<1>2. ASSUME NEW t \in Tasks, Push(t) \/ OutOfMemory(t) \/ clear(t) PROVE ReaderType'
  <2>1. PICK d \in 0..Len(entries), kept \in Seq(Nat) :
            Removed(d) /\ (entries' = kept \/ (entries' = Append(kept, last') /\ last' = Up(last)))
    BY <1>2, Shifts, Zenon
  <2>2. Up(last) \in Nat
    BY UpNat DEF CountType
  <2>3. entries' \in Seq(Nat)
    BY <2>1, <2>2, AppendProperties
  <2>4. removed' \in Nat
    <3>1. d \in Nat
      BY DEF ReaderType
    <3> QED
      BY <3>1, <2>1, RemovedTyped
  <2>5. UNCHANGED <<broken, response, span>>
    BY <1>2, Shifts, Zenon
  <2> QED
    BY <2>3, <2>4, <2>5 DEF ReaderType
<1>3. ASSUME NEW t \in Tasks, PushWithoutRoom(t) PROVE ReaderType'
    BY <1>3 DEF PushWithoutRoom, reader, ReaderType
<1>4. ASSUME NEW kind \in {"json", "html"}, NEW window \in Windows, Snapshot(kind, window) PROVE ReaderType'
  <2>0. window \in Nat
    BY BoundsAssumption
  <2>1. response' \in Responses
    BY <2>0, <1>4, SnapshotEffect, Zenon
  <2>2. span' \in [from : Int, to : Int]
    BY <2>0, <1>4, NewestTyped DEF Snapshot
  <2>3. removed' = 0 /\ UNCHANGED <<entries, broken>>
    BY <1>4, Zenon DEF Snapshot, buffer
  <2> QED
    BY <2>1, <2>2, <2>3 DEF ReaderType
<1>5. ASSUME NEW kind \in {"json", "html"}, NEW window \in Windows, Request(kind, window) PROVE ReaderType'
  <2>0. window \in Nat
    BY BoundsAssumption
  <2>1. response' \in Responses
    BY <2>0, <1>5, RequestEffect, Zenon
  <2>2. span' = NoSpan /\ removed' = 0 /\ UNCHANGED <<entries, broken>>
    BY <1>5, Zenon DEF Request, buffer
  <2> QED
    BY <2>1, <2>2 DEF ReaderType, NoSpan
<1>6. CASE StreamBatch
  <2>1. response' \in Responses
    BY <1>6, BatchEffect
  <2>2. span' \in [from : Int, to : Int]
    <3>1. response.window \in Nat /\ last \in Nat
      BY DEF ReaderType, Responses, CountType
    <3>2. [span EXCEPT !.to = last] \in [from : Int, to : Int]
      BY <3>1 DEF ReaderType
    <3>3. Newest(response.window) \in [from : Int, to : Int]
      BY <3>1, NewestTyped
    <3>4. span' = [span EXCEPT !.to = last] \/ span' = Newest(response.window)
      BY <1>6, Zenon DEF StreamBatch
    <3> QED
      BY <3>2, <3>3, <3>4, Zenon
  <2>3. removed' \in Nat
    <3>1. removed' = removed \/ removed' = 0
      BY <1>6, Zenon DEF StreamBatch
    <3> QED
      BY <3>1 DEF ReaderType
  <2>4. UNCHANGED <<entries, broken>>
    BY <1>6, Zenon DEF StreamBatch, buffer
  <2> QED
    BY <2>1, <2>2, <2>3, <2>4 DEF ReaderType
<1>7. CASE StreamNothing
  <2>1. response' \in Responses
    BY <1>7, NothingEffect
  <2>2. UNCHANGED <<entries, broken, removed, span>>
    BY <1>7, Zenon DEF StreamNothing, buffer
  <2> QED
    BY <2>1, <2>2 DEF ReaderType
<1>8. CASE StreamAborts
  <2>1. response' \in Responses
    BY <1>8, AbortEffect
  <2>2. UNCHANGED <<entries, broken, removed, span>>
    BY <1>8, Zenon DEF StreamAborts, buffer
  <2> QED
    BY <2>1, <2>2 DEF ReaderType
<1>9. ASSUME NEW kind \in {"json", "html"}, SnapshotOutOfMemory(kind) PROVE ReaderType'
  <2>1. response' \in Responses
    BY <1>9, StarvedEffect, Zenon
  <2>2. span' = NoSpan /\ removed' = 0 /\ UNCHANGED <<entries, broken>>
    BY <1>9, Zenon DEF SnapshotOutOfMemory, buffer
  <2> QED
    BY <2>1, <2>2 DEF ReaderType, NoSpan
<1> QED
    BY <1>1, <1>2, <1>3, <1>4, <1>5, <1>6, <1>7, <1>8, <1>9, CalmSteps, Zenon

LEMMA MutexNext == ASSUME CountType, ReaderType, MutexInv, [Next]_vars PROVE MutexInv'
<1>0. mutex \in BOOLEAN /\ broken \in BOOLEAN
    BY DEF CountType, ReaderType
<1>1. ASSUME NEW size \in Sizes, begin(size) PROVE mutex' = TRUE
    BY <1>1 DEF begin
<1>2. ASSUME NEW t \in Tasks, Log(t) \/ clear(t) PROVE MutexInv'
  <2> SUFFICES ASSUME mutex = FALSE PROVE MutexInv'
    BY <1>0, <1>2 DEF Log, clear, buffer, MutexInv
  <2>1. pc' = [pc EXCEPT ![t] = "count"] /\ UNCHANGED <<mutex, broken, response>>
    BY <1>2 DEF Log, clear, buffer, reader, Call, Buffering
  <2>2. entries' = <<>>
    BY <1>2 DEF Log, clear, buffer, MutexInv
  <2> QED
    BY <2>1, <2>2 DEF MutexInv, CountType
<1>3. ASSUME NEW t \in Tasks, Push(t) \/ OutOfMemory(t) \/ PushWithoutRoom(t) PROVE MutexInv'
  <2>1. mutex = TRUE /\ mutex' = mutex
    BY <1>0, <1>3 DEF Push, OutOfMemory, PushWithoutRoom, MutexInv
  <2> QED
    BY <2>1 DEF MutexInv
<1>4. ASSUME NEW t \in Tasks, Count(t) PROVE MutexInv'
    BY <1>4 DEF Count, Finish, buffer, reader, MutexInv, CountType
<1>5. ASSUME NEW kind \in {"json", "html"}, NEW window \in Windows, Snapshot(kind, window) \/ Request(kind, window)
      PROVE  MutexInv'
  <2>0. window \in Nat
    BY BoundsAssumption
  <2>1. response'.state = "streaming" => response'.positioned = FALSE
    BY <2>0, <1>5, SnapshotEffect, RequestEffect, Zenon
  <2>2. UNCHANGED <<entries, broken, mutex, pc>>
    BY <1>5, Zenon DEF Snapshot, Request, buffer
  <2> QED
    BY <2>1, <2>2 DEF MutexInv
<1>6. CASE StreamBatch
    BY <1>0, <1>6 DEF StreamBatch, buffer, MutexInv
<1>7. CASE StreamNothing \/ StreamAborts
  <2>1. response'.state # "streaming"
    BY <1>7, NothingEffect, AbortEffect
  <2>2. UNCHANGED <<entries, broken, mutex, pc>>
    BY <1>7, Zenon DEF StreamNothing, StreamAborts, buffer
  <2> QED
    BY <2>1, <2>2 DEF MutexInv
<1>8. CASE UNCHANGED vars
    BY <1>8 DEF vars, buffer, reader, MutexInv
<1>9. mutex' = TRUE => MutexInv'
    BY DEF MutexInv
<1>10. ASSUME NEW kind \in {"json", "html"}, SnapshotOutOfMemory(kind) PROVE MutexInv'
  <2>1. response'.state # "streaming"
    BY <1>10, StarvedEffect
  <2>2. UNCHANGED <<entries, broken, mutex, pc>>
    BY <1>10, Zenon DEF SnapshotOutOfMemory, buffer
  <2> QED
    BY <2>1, <2>2 DEF MutexInv
<1> QED
    BY <1>1, <1>2, <1>3, <1>4, <1>5, <1>6, <1>7, <1>8, <1>9, <1>10, Zenon DEF Next, addEntry

LEMMA Buffered ==
    ASSUME CountType, ReaderType, Place, broken = FALSE
    PROVE  /\ Len(entries) \in Nat /\ last \in Nat /\ Len(entries) <= last
           /\ \A i \in 1..Len(entries) : entries[i] = last - Len(entries) + i
BY DEF CountType, ReaderType, Place

LEMMA ResponseTyped ==
    ASSUME ReaderType
    PROVE  /\ response.rows \in Seq(Nat) /\ Len(response.rows) \in Nat /\ response.index \in Nat
           /\ \A i \in 1..Len(response.rows) : response.rows[i] \in Nat
           /\ span.from \in Int /\ span.to \in Int /\ removed \in Nat
           /\ response.positioned \in BOOLEAN /\ response.first \in BOOLEAN
           /\ response.kind \in {"json", "html"} /\ response.text \in Seq(Tokens)
BY DEF ReaderType, Responses

(* Lines leave the buffer and at most one comes: the others keep their     *)
(* numbers, and a reader that stands in it is moved on.                    *)
LEMMA ShiftKeeps ==
    ASSUME CountType, CountType', ReaderType, ReaderType', CountInv, Place, ReadInv, RowsInv,
           endless = FALSE, broken = FALSE, UNCHANGED <<broken, response, span>>,
           NEW d \in 0..Len(entries), NEW kept \in Seq(Nat), kept = SubSeq(entries, d + 1, Len(entries)),
           Removed(d),
           \/ entries' = kept /\ last' = last
           \/ entries' = Append(kept, last') /\ last' = last + 1
    PROVE  Place' /\ ReadInv' /\ RowsInv'
<1>0. /\ Len(entries) \in Nat /\ last \in Nat /\ Len(entries) <= last
      /\ \A i \in 1..Len(entries) : entries[i] = last - Len(entries) + i
    BY Buffered
<1>1. Len(kept) = Len(entries) - d /\ \A i \in 1..(Len(entries) - d) : kept[i] = entries[d + i]
    BY Kept DEF ReaderType
<1>2. PICK k \in 0..1 : last' = last + k /\ Len(entries') = Len(entries) - d + k /\ d \in Nat /\ d <= Len(entries)
  <2>1. CASE entries' = kept /\ last' = last
    BY <2>1, <1>0, <1>1
  <2>2. CASE entries' = Append(kept, last') /\ last' = last + 1
    <3>1. Len(Append(kept, last')) = Len(kept) + 1
      BY <2>2, <1>0, AppendProperties
    <3> QED
      BY <3>1, <2>2, <1>0, <1>1
  <2> QED
    BY <2>1, <2>2
<1>3. \A i \in 1..Len(entries') : entries'[i] = last' - Len(entries') + i
  <2> SUFFICES ASSUME NEW i \in 1..Len(entries') PROVE entries'[i] = last' - Len(entries') + i
    OBVIOUS
  <2>1. last' - Len(entries') + i = last - Len(entries) + (d + i) /\ i \in Nat
    BY <1>0, <1>2
  <2>2. CASE i <= Len(entries) - d
    <3>1. i \in 1..(Len(entries) - d) /\ d + i \in 1..Len(entries)
      BY <2>2, <1>0
    <3>2. kept[i] = entries[d + i] /\ entries[d + i] = last - Len(entries) + (d + i)
      BY <3>1, <1>0, <1>1
    <3>3. entries'[i] = kept[i]
      <4>1. i \in 1..Len(kept)
        BY <3>1, <1>1
      <4>2. \A e \in Nat : Append(kept, e)[i] = kept[i]
        BY <4>1, AppendProperties
      <4>3. last' \in Nat
        BY <1>0, <1>2
      <4> QED
        BY <4>2, <4>3
    <3> QED
      BY <2>1, <3>2, <3>3
  <2>3. CASE ~ (i <= Len(entries) - d)
    <3>0. i \in 1..(Len(entries) - d + k)
      BY <1>2, Zenon
    <3>1. i = Len(entries) - d + 1 /\ k = 1
      <4>1. \A l, x \in Nat : \A y \in 0..l : \A z \in 0..1 :
                x \in 1..(l - y + z) /\ ~ (x <= l - y) => x = l - y + 1 /\ z = 1
        OBVIOUS
      <4>2. i \in Nat
        OBVIOUS
      <4> QED
        BY <4>1, <4>2, <3>0, <2>3, <1>0, Zenon
    <3>2. entries' = Append(kept, last') /\ last' \in Nat
      BY <3>1, <1>0, <1>2
    <3>3. entries'[Len(kept) + 1] = last'
      BY <3>2, AppendProperties
    <3>4. Len(kept) + 1 = i
      BY <3>1, <1>1
    <3>5. last' - Len(entries') + i = last'
      BY <3>1, <1>0, <1>2
    <3> QED
      BY <3>3, <3>4, <3>5
  <2> QED
    BY <2>2, <2>3
<1>4. Place'
  <2>1. Len(entries') <= last'
    BY <1>0, <1>2
  <2> QED
    BY <2>1, <1>3 DEF Place
<1> DEFINE read == response.state = "streaming" /\ response.positioned = TRUE
<1>5. read => removed + Len(entries) <= last /\ removed' = removed + d
  <2> SUFFICES ASSUME read PROVE removed + Len(entries) <= last /\ removed' = removed + d
    OBVIOUS
  <2>1. removed + Len(entries) <= last /\ removed \in Nat
    BY ResponseTyped DEF ReadInv, Behind
  <2>2. last <= MaxLines /\ MaxLines \in Nat
    <3>1. Cardinality(Busy) \in Nat
      BY BusyFinite
    <3> QED
      BY <3>1, <1>0, BoundsAssumption DEF CountInv, CountType
  <2>3. Min({removed + d, MaxLines}) = removed + d
    <3>1. removed + d <= MaxLines /\ removed + d \in Int
      BY <2>1, <2>2, <1>0, <1>2
    <3> QED
      BY <3>1, <2>2, MinPair
  <2>4. removed' = Min({removed + d, MaxLines})
    BY DEF Removed
  <2> QED
    BY <2>1, <2>3, <2>4
<1>6. ~read => removed' = removed
  <2>1. response.positioned \in BOOLEAN
    BY ResponseTyped
  <2> QED
    BY <2>1, Zenon DEF Removed
<1>7. ReadInv'
  <2>1. CASE read
    <3>1. Behind
      BY <2>1 DEF ReadInv
    <3>2. Position' = Position + d
      BY <1>0, <1>2, ResponseTyped DEF Position
    <3>3. Position \in Int /\ removed \in Nat /\ response.index \in Nat /\ span.from \in Int
          /\ Len(response.rows) \in Nat
      BY <1>0, ResponseTyped DEF Position
    <3>9. /\ removed + Len(entries) <= last /\ response.index <= Len(entries) + removed
          /\ Position - span.from + 1 = Len(response.rows) + removed
      BY <3>1, Zenon DEF Behind
    <3>10. removed' = removed + d
      BY <1>5, <2>1
    <3>4. removed' + Len(entries') <= last' /\ response.index <= Len(entries') + removed'
      <4>1. (removed + d) + (Len(entries) - d + k) <= last + k
            /\ response.index <= (Len(entries) - d + k) + (removed + d)
        BY <3>3, <3>9, <1>0, <1>2
      <4> QED
        BY <4>1, <3>10, <1>2, Zenon
    <3>5. Position' - span.from + 1 = Len(response.rows) + removed'
      <4>1. (Position + d) - span.from + 1 = Len(response.rows) + (removed + d)
        <5>1. \A p, f \in Int : \A n, r, x \in Nat : p - f + 1 = n + r => (p + x) - f + 1 = n + (r + x)
          OBVIOUS
        <5>2. \A n, r, x \in Nat : Position - span.from + 1 = n + r => (Position + x) - span.from + 1 = n + (r + x)
          BY <5>1, <3>3, Zenon
        <5>3. Position - span.from + 1 = Len(response.rows) + removed
          BY <3>9
        <5>4. Len(response.rows) \in Nat /\ removed \in Nat /\ d \in Nat
          BY <3>3, <1>2
        <5> QED
          BY <5>2, <5>3, <5>4, Zenon
      <4> QED
        BY <4>1, <3>2, <3>10, Zenon
    <3>6. \A i \in 1..Len(response.rows) : response.rows[i] <= Position'
      <4>1. \A i \in 1..Len(response.rows) : response.rows[i] <= Position /\ response.rows[i] \in Nat
        BY <3>1, ResponseTyped, Zenon DEF Behind
      <4>2. \A x \in Nat : x <= Position => x <= Position + d
        BY <3>3, <1>2
      <4> QED
        BY <4>1, <4>2, <3>2, Zenon
    <3>7. removed' = 0 => removed = 0
      BY <3>3, <1>2, <1>5, <2>1
    <3>8. Behind'
      BY <3>1, <3>4, <3>5, <3>6, <3>7 DEF Behind
    <3> QED
      BY <3>8, <2>1 DEF ReadInv
  <2>2. CASE ~read
    <3>1. removed' = removed
      BY <2>2, <1>6
    <3> QED
      BY <3>1, <2>2 DEF ReadInv
  <2> QED
    BY <2>1, <2>2
<1>8. RowsInv'
  <2>1. removed \in Nat /\ removed' \in Nat /\ removed <= removed'
    BY <1>2, <1>5, <1>6, ResponseTyped
  <2>2. response.state = "complete" => removed' = removed
    BY <1>6
  <2>3. response.rows # <<>> => Skipped(response.rows) <= removed'
    <3>1. response.rows # <<>> => Skipped(response.rows) \in Int
      BY ResponseTyped DEF Skipped
    <3> QED
      BY <3>1, <2>1 DEF RowsInv
  <2> QED
    BY <2>1, <2>2, <2>3 DEF RowsInv, Window
<1> QED
    BY <1>4, <1>7, <1>8

(* The rows of a batch follow those sent before.                           *)
LEMMA RowsJoin ==
    ASSUME NEW old \in Seq(Nat), NEW new \in Seq(Nat), NEW p \in Int, NEW first \in Int,
           Increasing(old), From(old, first), \A i \in 1..Len(old) : old[i] <= p,
           \A i \in 1..Len(new) : new[i] = p + i,
           first <= p + 1
    PROVE  /\ old \o new \in Seq(Nat) /\ Len(old \o new) = Len(old) + Len(new)
           /\ Increasing(old \o new) /\ From(old \o new, first)
           /\ \A i \in 1..Len(old \o new) : (old \o new)[i] <= p + Len(new)
           /\ \A i \in 1..Len(old) : (old \o new)[i] = old[i]
           /\ \A i \in 1..Len(new) : (old \o new)[Len(old) + i] = p + i
<1> DEFINE s == old \o new
           n == Len(old)
           m == Len(new)
<1>1. /\ s \in Seq(Nat) /\ Len(s) = n + m /\ n \in Nat /\ m \in Nat
      /\ \A i \in 1..(n + m) : s[i] = IF i <= n THEN old[i] ELSE new[i - n]
    BY ConcatProperties
<1>2. \A i \in 1..n : old[i] \in Nat
    OBVIOUS
<1> HIDE DEF s, n, m
<1>3. \A i \in 1..n : s[i] = old[i]
    BY <1>1
<1>4. \A i \in 1..m : s[n + i] = p + i
  <2> SUFFICES ASSUME NEW i \in 1..m PROVE s[n + i] = p + i
    OBVIOUS
  <2>1. n + i \in 1..(n + m) /\ ~ (n + i <= n) /\ n + i - n = i
    BY <1>1
  <2>2. s[n + i] = new[n + i - n]
    BY <2>1, <1>1
  <2>3. new[i] = p + i
    BY DEF m
  <2> QED
    BY <2>1, <2>2, <2>3
<1>5. \A i \in 1..(n + m) : i \in 1..n \/ (i - n \in 1..m /\ n + (i - n) = i)
    BY <1>1
<1>6. \A i \in 1..(n + m) : s[i] <= p + m /\ first <= s[i]
  <2> SUFFICES ASSUME NEW i \in 1..(n + m) PROVE s[i] <= p + m /\ first <= s[i]
    OBVIOUS
  <2>1. CASE i \in 1..n
    <3>1. old[i] <= p /\ first <= old[i] /\ old[i] \in Nat
      BY <2>1, <1>2 DEF From, n
    <3> QED
      BY <3>1, <2>1, <1>1, <1>3
  <2>2. CASE i - n \in 1..m /\ n + (i - n) = i
    <3>1. s[i] = p + (i - n)
      BY <2>2, <1>4
    <3> QED
      BY <3>1, <2>2, <1>1
  <2> QED
    BY <2>1, <2>2, <1>5
<1>7. ASSUME NEW i \in 1..(n + m - 1) PROVE s[i] < s[i + 1]
  <2>1. CASE i + 1 \in 1..n
    <3>1. i \in 1..n /\ i \in 1..(n - 1)
      BY <2>1, <1>1
    <3>2. old[i] < old[i + 1]
      BY <3>1 DEF Increasing, n
    <3> QED
      BY <3>1, <3>2, <2>1, <1>3
  <2>2. CASE i \in 1..n /\ ~ (i + 1 \in 1..n)
    <3>1. i + 1 = n + 1 /\ 1 \in 1..m
      BY <2>2, <1>1
    <3>2. s[i + 1] = p + 1
      BY <3>1, <1>4
    <3>3. s[i] = old[i] /\ old[i] <= p /\ old[i] \in Nat
      BY <2>2, <1>2, <1>3 DEF n
    <3> QED
      BY <3>2, <3>3
  <2>3. CASE ~ (i \in 1..n)
    <3>1. i - n \in 1..m /\ i - n + 1 \in 1..m /\ n + (i - n) = i /\ n + (i - n + 1) = i + 1
      BY <2>3, <1>1
    <3>2. s[i] = p + (i - n) /\ s[i + 1] = p + (i - n + 1)
      BY <3>1, <1>4
    <3> QED
      BY <3>1, <3>2
  <2> QED
    BY <2>1, <2>2, <2>3
<1>8. Increasing(s) /\ From(s, first)
    BY <1>1, <1>6, <1>7 DEF Increasing, From
<1> QED
    BY <1>1, <1>3, <1>4, <1>6, <1>8 DEF s, n, m

(* The window asked for: the first batch begins where it begins.           *)
LEMMA NewestFrom ==
    ASSUME CountType, ReaderType, NEW window \in Nat, endless = FALSE
    PROVE  /\ Newest(window).from = last - Len(entries) + Start(Len(entries), window) + 1
           /\ Newest(window).to = last
<1>1. Len(entries) \in Nat /\ last \in Nat
    BY DEF CountType, ReaderType
<1> DEFINE n == IF window = 0 THEN Len(entries) ELSE Min({window, Len(entries)})
<1>2. Min({window, Len(entries)}) = IF window <= Len(entries) THEN window ELSE Len(entries)
    BY <1>1, MinPair
<1>3. n \in Nat /\ n = Len(entries) - Start(Len(entries), window)
    BY <1>1, <1>2 DEF Start
<1>4. Newest(window) = [from |-> last - n + 1, to |-> last]
    BY Zenon DEF Newest
<1>5. Newest(window).from = last - n + 1 /\ Newest(window).to = last
    BY <1>4
<1> HIDE DEF n
<1>6. Start(Len(entries), window) \in 0..Len(entries)
    BY <1>1, StartWithin
<1>7. last - n + 1 = last - Len(entries) + Start(Len(entries), window) + 1
    BY <1>1, <1>3, <1>6
<1> QED
    BY <1>5, <1>7

(* The first batch: where it is positioned is where the window begins.     *)
LEMMA BatchBefore ==
    ASSUME CountType, ReaderType, Place, ReadInv, StreamBatch, endless = FALSE
    PROVE  /\ broken = FALSE /\ response.state = "streaming" /\ UNCHANGED <<entries, last, broken, endless, mutex>>
           /\ span'.from \in Int /\ span'.to = last /\ removed' \in Nat
           /\ Index <= Len(entries) + removed'
           /\ (last - Len(entries) + Index) - span'.from + 1 = Len(response.rows) + removed'
           /\ removed' + Len(entries) <= last
           /\ \A i \in 1..Len(response.rows) : response.rows[i] <= last - Len(entries) + Index
           /\ removed' = 0 => \A i \in 1..Len(response.rows) : response.rows[i] = span'.from + i - 1
           /\ From(response.rows, span.from) => From(response.rows, span'.from)
<1>1. broken = FALSE /\ response.state = "streaming" /\ UNCHANGED <<entries, last, broken, endless, mutex>>
    BY DEF StreamBatch, buffer, ReaderType
<1>2. Len(entries) \in Nat /\ last \in Nat /\ Len(entries) <= last
    BY <1>1, Buffered
<1>3. CASE response.positioned = TRUE
  <2>1. span' = [span EXCEPT !.to = last] /\ removed' = removed
    BY <1>3, Zenon DEF StreamBatch
  <2>2. span'.from = span.from /\ span'.to = last
    BY <2>1 DEF ReaderType
  <2>3. Behind
    BY <1>1, <1>3 DEF ReadInv
  <2>4. Index = response.index
    BY <1>3, IndexTyped
  <2>5. span.from \in Int /\ removed \in Nat
    BY ResponseTyped
  <2>6. /\ removed + Len(entries) <= last /\ response.index <= Len(entries) + removed
        /\ (last - Len(entries) + response.index) - span.from + 1 = Len(response.rows) + removed
        /\ \A i \in 1..Len(response.rows) : response.rows[i] <= last - Len(entries) + response.index
        /\ removed = 0 => \A i \in 1..Len(response.rows) : response.rows[i] = span.from + i - 1
    <3>1. /\ removed + Len(entries) <= last /\ response.index <= Len(entries) + removed
          /\ Position - span.from + 1 = Len(response.rows) + removed
          /\ \A i \in 1..Len(response.rows) : response.rows[i] <= Position
          /\ removed = 0 => \A i \in 1..Len(response.rows) : response.rows[i] = span.from + i - 1
      BY <2>3 DEF Behind
    <3> QED
      BY <3>1, Zenon DEF Position
  <2> QED
    BY <1>1, <2>1, <2>2, <2>4, <2>5, <2>6
<1>4. CASE response.positioned = FALSE
  <2>1. span' = Newest(response.window) /\ removed' = 0
    BY <1>4, Zenon DEF StreamBatch
  <2>2. Index = Start(Len(entries), response.window) /\ Index <= Len(entries) /\ Index \in Nat
    BY <1>4, IndexTyped
  <2>3. response.window \in Nat
    BY DEF ReaderType, Responses
  <2>4. span'.from = last - Len(entries) + Index + 1 /\ span'.to = last
    BY <2>1, <2>2, <2>3, NewestFrom
  <2>5. response.rows = <<>> /\ Len(response.rows) = 0
    BY <1>1, <1>4 DEF ReadInv
  <2>6. (last - Len(entries) + Index) - (last - Len(entries) + Index + 1) + 1 = 0 /\ Index <= Len(entries) + 0
        /\ 0 + Len(entries) <= last /\ last - Len(entries) + Index + 1 \in Int
    BY <1>2, <2>2
  <2>7. (last - Len(entries) + Index) - span'.from + 1 = Len(response.rows) + removed'
    BY <2>1, <2>4, <2>5, <2>6
  <2>8. \A i \in 1..Len(response.rows) : FALSE
    BY <2>5
  <2>9. From(response.rows, span'.from)
    BY <2>8 DEF From
  <2>10. /\ span'.from \in Int /\ removed' \in Nat /\ Index <= Len(entries) + removed'
         /\ removed' + Len(entries) <= last
    BY <2>1, <2>4, <2>6
  <2> QED
    BY <1>1, <2>4, <2>7, <2>8, <2>9, <2>10, Zenon
<1> QED
    BY <1>3, <1>4, ResponseTyped

LEMMA BatchKeeps ==
    ASSUME CountType, ReaderType, Place, ReadInv, RowsInv, StreamBatch, endless = FALSE
    PROVE  ReadInv' /\ RowsInv'
<1> DEFINE p == last - Len(entries) + Index
           n == Len(response.rows)
           m == Len(New)
           rows == response.rows \o New
<1>1. /\ broken = FALSE /\ response.state = "streaming" /\ UNCHANGED <<entries, last, broken, endless, mutex>>
      /\ span'.from \in Int /\ span'.to = last /\ removed' \in Nat
      /\ Index <= Len(entries) + removed' /\ p - span'.from + 1 = n + removed'
      /\ removed' + Len(entries) <= last
      /\ \A i \in 1..n : response.rows[i] <= p
      /\ removed' = 0 => \A i \in 1..n : response.rows[i] = span'.from + i - 1
      /\ From(response.rows, span.from) => From(response.rows, span'.from)
  <2>1. /\ broken = FALSE /\ response.state = "streaming" /\ UNCHANGED <<entries, last, broken, endless, mutex>>
        /\ span'.from \in Int /\ span'.to = last /\ removed' \in Nat
    BY BatchBefore
  <2>2. /\ Index <= Len(entries) + removed' /\ p - span'.from + 1 = n + removed'
        /\ removed' + Len(entries) <= last
    BY BatchBefore
  <2>3. /\ \A i \in 1..n : response.rows[i] <= p
        /\ removed' = 0 => \A i \in 1..n : response.rows[i] = span'.from + i - 1
    BY BatchBefore
  <2>4. From(response.rows, span.from) => From(response.rows, span'.from)
    BY BatchBefore
  <2> QED
    BY <2>1, <2>2, <2>3, <2>4
<1>2. /\ Len(entries) \in Nat /\ last \in Nat /\ Len(entries) <= last
      /\ \A i \in 1..Len(entries) : entries[i] = last - Len(entries) + i
    BY <1>1, Buffered, Zenon
<1>3. /\ response'.index = End /\ response'.positioned = TRUE /\ response'.rows = rows
      /\ response'.state = IF Len(New) = Batch THEN "streaming" ELSE "complete"
    BY BatchEffect
<1>4. Index \in Nat /\ n \in Nat /\ response.rows \in Seq(Nat)
    BY IndexTyped, ResponseTyped
<1>5. /\ End \in Nat /\ Index <= End /\ (End <= Len(entries) \/ End = Index)
      /\ New \in Seq(Nat) /\ m = End - Index
      /\ \A i \in 1..m : New[i] = entries[Index + i] /\ Index + i \in 1..Len(entries)
      /\ m # Batch /\ Index <= Len(entries) => End = Len(entries)
    BY NewLines
<1>6. \A i \in 1..m : New[i] = p + i
  <2> SUFFICES ASSUME NEW i \in 1..m PROVE New[i] = p + i
    OBVIOUS
  <2>1. New[i] = last - Len(entries) + (Index + i)
    BY <1>2, <1>5, Zenon
  <2>2. m \in Nat
    BY <1>4, <1>5
  <2>3. last - Len(entries) + (Index + i) = p + i
    BY <1>2, <1>4, <2>2
  <2> QED
    BY <2>1, <2>3
<1>7. p \in Int /\ span'.from <= p + 1 /\ m \in Nat
  <2>1. p \in Int /\ m \in Nat
    BY <1>2, <1>4, <1>5
  <2>2. p - span'.from + 1 = n + removed' /\ removed' \in Nat /\ span'.from \in Int
    BY <1>1
  <2> HIDE DEF p, n
  <2>3. \A x \in Nat : \A f \in Int : p - f + 1 = n + x => f <= p + 1
    BY <2>1, <1>4
  <2> QED
    BY <2>1, <2>2, <2>3, Zenon
<1> HIDE DEF p, n, m, rows
<1>8. /\ Len(rows) = n + m /\ Increasing(rows) /\ From(rows, span'.from)
      /\ \A i \in 1..Len(rows) : rows[i] <= p + m
      /\ \A i \in 1..n : rows[i] = response.rows[i]
      /\ \A i \in 1..m : rows[n + i] = p + i
  <2>1. Increasing(response.rows) /\ From(response.rows, span'.from)
    BY <1>1 DEF RowsInv
  <2>2. \A i \in 1..Len(response.rows) : response.rows[i] <= p
    BY <1>1 DEF n
  <2>3. \A i \in 1..Len(New) : New[i] = p + i
    BY <1>6 DEF m
  <2>4. span'.from \in Int
    BY <1>1
  <2> QED
    BY <2>1, <2>2, <2>3, <2>4, <1>4, <1>5, <1>7, RowsJoin DEF rows, n, m
<1>9. rows \in Seq(Nat)
    BY <1>4, <1>5, ConcatProperties DEF rows
(* The lines up to the new position are all sent, but for those that left. *)
<1>10. last - Len(entries) + End = p + m
    BY <1>2, <1>4, <1>5 DEF p
<1>11. (p + m) - span'.from + 1 = Len(rows) + removed'
  <2>1. \A a, f \in Int : \A x, y, z \in Nat : a - f + 1 = x + z => (a + y) - f + 1 = (x + y) + z
    OBVIOUS
  <2>2. p - span'.from + 1 = n + removed' /\ removed' \in Nat /\ span'.from \in Int
    BY <1>1
  <2>3. \A f \in Int : \A z \in Nat : p - f + 1 = n + z => (p + m) - f + 1 = (n + m) + z
    <3>1. p \in Int /\ n \in Nat /\ m \in Nat
      BY <1>4, <1>7
    <3> QED
      BY <2>1, <3>1
  <2> QED
    BY <2>2, <2>3, <1>8, Zenon
<1>12. removed' = 0 => p + 1 = span'.from + n
  <2>1. \A f \in Int : p - f + 1 = n + 0 => p + 1 = f + n
    BY <1>4, <1>7
  <2> QED
    BY <1>1, <2>1, Zenon
<1>13. removed' = 0 => \A i \in 1..Len(rows) : rows[i] = span'.from + i - 1
  <2> SUFFICES ASSUME removed' = 0, NEW i \in 1..Len(rows) PROVE rows[i] = span'.from + i - 1
    OBVIOUS
  <2>0. span'.from \in Int /\ i \in Nat /\ i \in 1..(n + m)
    BY <1>1, <1>4, <1>7, <1>8
  <2>1. CASE i \in 1..n
    BY <2>1, <1>1, <1>8
  <2>2. CASE ~ (i \in 1..n)
    <3>1. i - n \in 1..m /\ n + (i - n) = i
      BY <2>0, <2>2, <1>4, <1>7
    <3>2. rows[i] = p + (i - n)
      BY <3>1, <1>8
    <3>3. \A f \in Int : p + 1 = f + n => p + (i - n) = f + i - 1
      BY <2>0, <1>4, <1>7
    <3> QED
      BY <3>2, <3>3, <2>0, <1>12, Zenon
  <2> QED
    BY <2>1, <2>2
<1>14. Behind'
  <2>1. Position' = p + m
    BY <1>1, <1>3, <1>10 DEF Position
  <2>2. response'.index <= Len(entries') + removed'
    <3>1. \A r \in Nat : Index <= Len(entries) + r => End <= Len(entries) + r
      BY <1>2, <1>4, <1>5
    <3> QED
      BY <3>1, <1>1, <1>3, Zenon
  <2> QED
    BY <2>1, <2>2, <1>1, <1>3, <1>8, <1>11, <1>13, Zenon DEF Behind
<1>15. ReadInv'
    BY <1>14, <1>3, Zenon DEF ReadInv
<1>16. rows # <<>> => Skipped(rows) <= removed'
  <2> SUFFICES ASSUME rows # <<>> PROVE Skipped(rows) <= removed'
    OBVIOUS
  <2>1. Len(rows) \in Nat /\ Len(rows) >= 1
    BY <1>9
  <2>2. rows[Len(rows)] <= p + m /\ span'.from <= rows[1] /\ rows[1] \in Nat /\ rows[Len(rows)] \in Nat
    <3>1. 1 \in 1..Len(rows) /\ Len(rows) \in 1..Len(rows)
      BY <2>1
    <3> QED
      BY <3>1, <1>8, <1>9, ElementOfSeq DEF From
  <2>3. \A a, f \in Int : \A l, x, y, z \in Nat :
            a - f + 1 = l + z /\ y <= a /\ f <= x => y - x + 1 - l <= z
    OBVIOUS
  <2>4. p + m \in Int /\ span'.from \in Int /\ removed' \in Nat
    BY <1>1, <1>7
  <2>5. rows[Len(rows)] - rows[1] + 1 - Len(rows) <= removed'
    <3>1. \A l, x, y, z \in Nat : (p + m) - span'.from + 1 = l + z /\ y <= p + m /\ span'.from <= x
                                    => y - x + 1 - l <= z
      BY <2>3, <2>4, Zenon
    <3> QED
      BY <3>1, <2>1, <2>2, <2>4, <1>11, Zenon
  <2> QED
    BY <2>5 DEF Skipped
<1>17. response'.state = "complete" /\ removed' = 0 => rows = Window'
  <2> SUFFICES ASSUME response'.state = "complete", removed' = 0 PROVE rows = Window'
    OBVIOUS
  <2>1. m # Batch
    BY <1>3 DEF m
  <2>2. Index <= Len(entries)
    <3>1. Index <= Len(entries) + 0
      BY <1>1
    <3> QED
      BY <3>1, <1>2, <1>4
  <2>3. p + m = last
    BY <2>1, <2>2, <1>2, <1>5, <1>10
  <2>4. last - span'.from + 1 = Len(rows)
    <3>1. (p + m) - span'.from + 1 = Len(rows) + 0
      BY <1>11
    <3>2. Len(rows) \in Nat
      BY <1>9
    <3> QED
      BY <3>1, <3>2, <2>3
  <2>5. Window' = [i \in 1..Len(rows) |-> span'.from + i - 1]
    BY <2>4, <1>1 DEF Window
  <2>6. rows = [i \in 1..Len(rows) |-> rows[i]]
    BY <1>9
  <2> QED
    BY <2>5, <2>6, <1>13
<1>18. response'.starved = FALSE
    BY BatchEffect, <1>1 DEF RowsInv, ReaderType, Responses
<1>19. RowsInv'
    BY <1>3, <1>8, <1>16, <1>17, <1>18, Zenon DEF RowsInv
<1> QED
    BY <1>15, <1>19

LEMMA EmptyWindow == [i \in 1..(NoSpan.to - NoSpan.from + 1) |-> NoSpan.from + i - 1] = <<>>
BY DEF NoSpan

LEMMA EmptyRows == Increasing(<<>>) /\ \A first : From(<<>>, first)
BY DEF Increasing, From

LEMMA RequestKeeps ==
    ASSUME NEW kind \in {"json", "html"}, NEW window \in Nat, Request(kind, window)
    PROVE  ReadInv' /\ RowsInv'
<1>1. response'.rows = <<>> /\ response'.positioned = FALSE /\ response'.state = "streaming"
      /\ response'.starved = FALSE
    BY RequestEffect
<1>2. span' = NoSpan /\ removed' = 0
    BY Zenon DEF Request
<1>3. ReadInv'
    BY <1>1, <1>2 DEF ReadInv
<1>4. RowsInv'
    BY <1>1, EmptyRows DEF RowsInv
<1> QED
    BY <1>3, <1>4

LEMMA SnapshotKeeps ==
    ASSUME CountType, ReaderType, MutexInv, Place, endless = FALSE,
           NEW kind \in {"json", "html"}, NEW window \in Nat, Snapshot(kind, window)
    PROVE  ReadInv' /\ RowsInv'
<1> DEFINE rows == Whole(window)
           b == Start(Len(entries), window)
           first == last - Len(entries) + b + 1
<1>1. response'.rows = rows /\ response'.state = "complete" /\ response'.starved = FALSE
    BY SnapshotEffect
<1>2. span' = Newest(window) /\ removed' = 0 /\ broken = FALSE
    BY Zenon DEF Snapshot, ReaderType
<1>3. /\ Len(entries) \in Nat /\ last \in Nat /\ Len(entries) <= last
      /\ \A i \in 1..Len(entries) : entries[i] = last - Len(entries) + i
    BY <1>2, Buffered
<1>4. b \in 0..Len(entries)
    BY <1>3, StartWithin
<1>5. span'.from = first /\ span'.to = last
    BY <1>2, NewestFrom
<1>6. rows = SubSeq(entries, b + 1, Len(entries))
  <2>1. CASE mutex = TRUE
    BY <2>1 DEF Whole
  <2>2. CASE mutex = FALSE
    <3>1. entries = <<>>
      BY <2>2 DEF MutexInv
    <3>2. Len(entries) = 0 /\ b = 0
      BY <3>1, <1>4
    <3>3. SubSeq(entries, b + 1, Len(entries)) = <<>>
      BY <3>1, <3>2, <1>4, Kept
    <3>4. rows = <<>>
      BY <2>2, Zenon DEF Whole
    <3> QED
      BY <3>3, <3>4
  <2> QED
    BY <2>1, <2>2 DEF CountType
<1> HIDE DEF rows, b
<1>7. /\ rows \in Seq(Nat) /\ Len(rows) = Len(entries) - b
      /\ \A i \in 1..(Len(entries) - b) : rows[i] = entries[b + i]
    BY <1>4, <1>6, Kept DEF ReaderType
<1>8. \A i \in 1..Len(rows) : rows[i] = first + i - 1
  <2> SUFFICES ASSUME NEW i \in 1..Len(rows) PROVE rows[i] = first + i - 1
    OBVIOUS
  <2>1. b + i \in 1..Len(entries) /\ last - Len(entries) + (b + i) = first + i - 1
    BY <1>3, <1>4, <1>7
  <2> QED
    BY <2>1, <1>3, <1>7
<1>9. first \in Int /\ last - first + 1 = Len(rows) /\ Len(rows) \in Nat
    BY <1>3, <1>4, <1>7
<1> HIDE DEF first
<1>10. Increasing(rows) /\ From(rows, first)
    BY <1>8, <1>9 DEF Increasing, From
<1>11. rows # <<>> => Skipped(rows) <= 0
  <2> SUFFICES ASSUME rows # <<>> PROVE Skipped(rows) <= 0
    OBVIOUS
  <2>1. Len(rows) >= 1
    BY <1>7
  <2>2. rows[1] = first + 1 - 1 /\ rows[Len(rows)] = first + Len(rows) - 1
    BY <2>1, <1>8, <1>9
  <2> QED
    BY <2>2, <1>9 DEF Skipped
<1>12. rows = Window'
  <2>1. Window' = [i \in 1..Len(rows) |-> first + i - 1]
    BY <1>5, <1>9 DEF Window
  <2>2. rows = [i \in 1..Len(rows) |-> rows[i]]
    BY <1>7
  <2> QED
    BY <2>1, <2>2, <1>8
<1>13. RowsInv'
    BY <1>1, <1>2, <1>5, <1>10, <1>11, <1>12, Zenon DEF RowsInv
<1> QED
    BY <1>1, <1>13 DEF ReadInv

LEMMA StarvedKeeps ==
    ASSUME NEW kind \in {"json", "html"}, SnapshotOutOfMemory(kind)
    PROVE  ReadInv' /\ RowsInv'
<1>1. response'.rows = <<>> /\ response'.state = "complete" /\ response'.starved = TRUE
    BY StarvedEffect
<1>2. RowsInv'
    BY <1>1, EmptyRows DEF RowsInv
<1> QED
    BY <1>1, <1>2 DEF ReadInv

LEMMA NothingKeeps ==
    ASSUME CountType, ReaderType, MutexInv, ReadInv, RowsInv, StreamNothing
    PROVE  ReadInv' /\ RowsInv'
<1>1. response'.rows = response.rows /\ response'.state = "complete" /\ span' = span /\ removed' = removed
    BY NothingEffect, Zenon DEF StreamNothing
<1>2. mutex = FALSE /\ response.state = "streaming"
    BY DEF StreamNothing, CountType
<1>3. response.positioned = FALSE
    BY <1>2 DEF MutexInv
<1>4. response.rows = <<>> /\ span = NoSpan
    BY <1>2, <1>3 DEF ReadInv
<1>5. response.rows = Window'
  <2>1. Window' = [i \in 1..(NoSpan.to - NoSpan.from + 1) |-> NoSpan.from + i - 1]
    BY <1>1, <1>4, Zenon DEF Window
  <2> QED
    BY <2>1, <1>4, EmptyWindow
<1>6. response'.starved = FALSE
    BY <1>2, NothingEffect DEF RowsInv, ReaderType, Responses
<1>7. RowsInv'
    BY <1>1, <1>5, <1>6, Zenon DEF RowsInv
<1> QED
    BY <1>1, <1>7 DEF ReadInv

LEMMA AbortKeeps ==
    ASSUME ReaderType, ReadInv, RowsInv, StreamAborts
    PROVE  ReadInv' /\ RowsInv'
<1>1. response'.rows = response.rows /\ response'.state = "aborted" /\ span' = span /\ removed' = removed
    BY AbortEffect, Zenon DEF StreamAborts
<1>2. response'.starved = FALSE
    BY AbortEffect DEF StreamAborts, RowsInv, ReaderType, Responses
<1> QED
    BY <1>1, <1>2 DEF ReadInv, RowsInv

-----------------------------------------------------------------------------
(* The text.                                                               *)

LEMMA BatchText ==
    ASSUME CountType, ReaderType, TextInv, StreamBatch, endless = FALSE
    PROVE  TextInv'
<1> SUFFICES ASSUME response'.kind = "json" PROVE TextInv'
    BY DEF TextInv
<1>1. /\ response'.first <=> response.first /\ New = <<>>
      /\ response'.state = IF Len(New) = Batch THEN "streaming" ELSE "complete"
      /\ response'.text = IF Len(New) = Batch THEN Sent ELSE Sent \o Closing(response.kind)
      /\ response.kind = "json"
    BY BatchEffect
<1>2. response.state = "streaming"
    BY DEF StreamBatch
<1>3. Shape(response.text) /\ (response.first <=> Len(response.text) = 1) /\ response.first \in BOOLEAN
    BY <1>1, <1>2, ResponseTyped, Zenon DEF TextInv
<1>4. Len(New) \in Nat /\ (Len(New) = 0 <=> New = <<>>)
    BY NewLines
<1>5. Shape(Sent) /\ (Len(Sent) = 1 <=> response.first /\ Len(New) = 0)
    BY <1>1, <1>3, <1>4, ShapeGrows, Zenon DEF Sent
<1>6. CASE Len(New) = Batch
  <2>1. response'.state = "streaming" /\ response'.text = Sent
    BY <1>1, <1>6
  <2>2. response'.first <=> Len(Sent) = 1
    BY <1>1, <1>4, <1>5, Zenon
  <2> QED
    BY <2>1, <2>2, <1>5, Zenon DEF TextInv
<1>7. CASE Len(New) # Batch
  <2>1. response'.state = "complete" /\ response'.text = Sent \o <<"]">>
    BY <1>1, <1>7 DEF Closing
  <2>2. IsArray(response'.text)
    BY <2>1, <1>5, ShapeCloses
  <2> QED
    BY <2>1, <2>2 DEF TextInv
<1> QED
    BY <1>6, <1>7

LEMMA HeadShape ==
    /\ Shape(Opening("json") \o Items("json", Notices, TRUE))
    /\ Len(Opening("json") \o Items("json", Notices, TRUE)) = 1 <=> Notices = 0
<1>1. Opening("json") = <<"[">>
    BY DEF Opening
<1>2. Shape(<<"[">>) /\ (TRUE <=> Len(<<"[">>) = 1) /\ TRUE \in BOOLEAN
    BY ShapeOpens
<1>3. Notices \in Nat
    BY DEF Notices
<1> DEFINE o == Opening("json")
<1>4. Shape(o) /\ (TRUE <=> Len(o) = 1) /\ TRUE \in BOOLEAN
    BY <1>1, <1>2, Zenon
<1> HIDE DEF o
<1>5. Shape(o \o Items("json", Notices, TRUE)) /\ (Len(o \o Items("json", Notices, TRUE)) = 1 <=> TRUE /\ Notices = 0)
    BY <1>3, <1>4, ShapeGrows, Zenon
<1> QED
    BY <1>5, Zenon DEF o

LEMMA RequestText ==
    ASSUME NEW kind \in {"json", "html"}, NEW window \in Nat, Request(kind, window)
    PROVE  TextInv'
<1>1. /\ response'.state = "streaming" /\ response'.kind = kind /\ response'.first = (Notices = 0)
      /\ response'.text = Opening(kind) \o Items(kind, Notices, TRUE)
    BY RequestEffect
<1> SUFFICES ASSUME kind = "json" PROVE TextInv'
    BY <1>1 DEF TextInv
<1>2. response'.text = Opening("json") \o Items("json", Notices, TRUE)
    BY <1>1, Zenon
<1>3. Shape(response'.text) /\ (response'.first <=> Len(response'.text) = 1)
    BY <1>1, <1>2, HeadShape, Zenon
<1> QED
    BY <1>1, <1>3 DEF TextInv

LEMMA SnapshotText ==
    ASSUME CountType, ReaderType, NEW kind \in {"json", "html"}, NEW window \in Nat, Snapshot(kind, window)
    PROVE  TextInv'
<1> DEFINE n == Len(Whole(window))
           head == Opening("json") \o Items("json", Notices, TRUE)
<1>1. /\ response'.state = "complete" /\ response'.kind = kind
      /\ response'.text = Text(kind, n) \o Closing(kind)
    BY SnapshotEffect
<1> SUFFICES ASSUME kind = "json" PROVE IsArray(response'.text)
    BY <1>1 DEF TextInv
<1>2. n \in Nat /\ (Notices = 0) \in BOOLEAN
    BY WholeTyped, Zenon
<1>3. Shape(head) /\ ((Notices = 0) <=> Len(head) = 1)
    BY HeadShape, Zenon
<1>4. Text("json", n) = head \o Items("json", n, Notices = 0)
    BY Zenon DEF Text
<1> HIDE DEF head, n
<1>5. Shape(head \o Items("json", n, Notices = 0))
  <2> DEFINE f == Notices = 0
  <2>1. f \in BOOLEAN /\ (f <=> Len(head) = 1)
    BY <1>2, <1>3, Zenon
  <2> HIDE DEF f
  <2>2. Shape(head \o Items("json", n, f))
    BY <2>1, <1>2, <1>3, ShapeGrows, Zenon
  <2> QED
    BY <2>2, Zenon DEF f
<1>6. IsArray(Text("json", n) \o <<"]">>)
    BY <1>4, <1>5, ShapeCloses, Zenon
<1>7. Closing("json") = <<"]">>
    BY DEF Closing
<1> QED
    BY <1>1, <1>6, <1>7, Zenon

LEMMA StarvedText ==
    ASSUME NEW kind \in {"json", "html"}, SnapshotOutOfMemory(kind)
    PROVE  TextInv'
<1>1. /\ response'.state = "complete" /\ response'.kind = kind
      /\ response'.text = Opening(kind) \o Closing(kind)
    BY StarvedEffect
<1> SUFFICES ASSUME kind = "json" PROVE IsArray(response'.text)
    BY <1>1 DEF TextInv
<1>2. Opening("json") = <<"[">> /\ Closing("json") = <<"]">>
    BY DEF Opening, Closing
<1>3. IsArray(<<"[">> \o <<"]">>)
    BY ShapeOpens, ShapeCloses, Zenon
<1> QED
    BY <1>1, <1>2, <1>3, Zenon

LEMMA NothingText ==
    ASSUME ReaderType, TextInv, StreamNothing
    PROVE  TextInv'
<1>1. /\ response'.state = "complete" /\ response'.kind = response.kind
      /\ response'.text = response.text \o Closing(response.kind)
    BY NothingEffect
<1> SUFFICES ASSUME response.kind = "json" PROVE IsArray(response'.text)
    BY <1>1 DEF TextInv
<1>2. Shape(response.text)
    BY DEF TextInv, StreamNothing
<1>3. Closing(response.kind) = <<"]">>
    BY DEF Closing
<1> QED
    BY <1>1, <1>2, <1>3, ShapeCloses, Zenon

LEMMA AbortText == ASSUME ReaderType, StreamAborts PROVE TextInv'
BY AbortEffect DEF TextInv

-----------------------------------------------------------------------------
LEMMA ResponseInit == Init => ResponseInv
<1> SUFFICES ASSUME Init PROVE ResponseInv
    OBVIOUS
<1>1. /\ response = NoResponse /\ response.state = "none" /\ response.rows = <<>> /\ entries = <<>>
      /\ response.starved = FALSE
    BY DEF Init, NoResponse
<1>2. ReaderType
  <2>1. <<>> \in Seq(Nat) /\ NoSpan \in [from : Int, to : Int]
    BY DEF NoSpan
  <2> QED
    BY <1>1, <2>1, NoResponseTyped DEF Init, ReaderType
<1>3. MutexInv
    BY <1>1 DEF Init, MutexInv
<1>4. Place
    BY DEF Init, Place
<1>5. ReadInv /\ TextInv
    BY <1>1 DEF ReadInv, TextInv
<1>6. RowsInv
    BY <1>1, EmptyRows DEF RowsInv
<1> QED
    BY <1>2, <1>3, <1>4, <1>5, <1>6, LinesInit DEF ResponseInv

LEMMA ResponseNext == ASSUME ResponseInv, [Next]_vars PROVE ResponseInv'
<1>0. CountType /\ ReaderType /\ MutexInv /\ LinesInv
    BY DEF ResponseInv, LinesInv
<1>1. CountType' /\ LinesInv' /\ ReaderType' /\ MutexInv'
    BY <1>0, LinesNext, ReaderTyped, MutexNext, LinesTyped
<1>2. endless' = endless
    BY Zenon DEF Next, vars, begin, Log, addEntry, Push, OutOfMemory, PushWithoutRoom, Count, clear, Snapshot, Request,
                 SnapshotOutOfMemory, StreamBatch, StreamNothing, StreamAborts, buffer
<1> SUFFICES ASSUME endless = FALSE PROVE Place' /\ ReadInv' /\ RowsInv' /\ TextInv'
    BY <1>1, <1>2 DEF ResponseInv
<1>3. Place /\ ReadInv /\ RowsInv /\ TextInv /\ CountInv
    BY DEF ResponseInv, LinesInv
<1>4. CASE Calm
  <2>1. UNCHANGED <<entries, last, broken, endless, response, removed, span>>
    BY <1>4 DEF Calm, reader
  <2> QED
    BY <2>1, <1>3 DEF Place, ReadInv, Behind, Position, RowsInv, Window, TextInv
<1>5. ASSUME NEW t \in Tasks, Push(t) \/ OutOfMemory(t) \/ clear(t)
      PROVE  Place' /\ ReadInv' /\ RowsInv' /\ TextInv'
  <2>1. broken = FALSE /\ UNCHANGED <<mutex, broken, endless, response, span>>
    BY <1>0, <1>5, Shifts
  <2>2. PICK d \in 0..Len(entries), kept \in Seq(Nat) :
            /\ kept = SubSeq(entries, d + 1, Len(entries))
            /\ Removed(d)
            /\ \/ entries' = kept /\ last' = last
               \/ Push(t) /\ entries' = Append(kept, last') /\ last' = Up(last)
    BY <1>0, <1>5, Shifts, Zenon
  <2>3. Push(t) => Up(last) = last + 1
    <3> SUFFICES ASSUME Push(t) PROVE Up(last) = last + 1
      OBVIOUS
    <3>1. Cardinality(Busy) >= 1 /\ Cardinality(Busy) \in Nat
      BY <1>0, Ends, BusyFinite DEF Push, Finish
    <3> QED
      BY <3>1, <1>0, <1>3, BoundsAssumption DEF Up, CountInv, CountType
  <2>4. (entries' = kept /\ last' = last) \/ (entries' = Append(kept, last') /\ last' = last + 1)
    BY <2>2, <2>3, Zenon
  <2>5. Place' /\ ReadInv' /\ RowsInv'
    BY <2>1, <2>2, <2>4, <1>0, <1>1, <1>3, ShiftKeeps, Zenon
  <2>6. TextInv'
    BY <2>1, <1>3 DEF TextInv
  <2> QED
    BY <2>5, <2>6
<1>6. ASSUME NEW t \in Tasks, PushWithoutRoom(t) PROVE Place' /\ ReadInv' /\ RowsInv' /\ TextInv'
  <2>1. broken' = TRUE /\ UNCHANGED <<endless, response, removed, span>>
    BY <1>6 DEF PushWithoutRoom, reader
  <2> QED
    BY <2>1, <1>3 DEF Place, ReadInv, RowsInv, Window, TextInv
<1>7. (\E kind \in {"json", "html"}, window \in Windows : Snapshot(kind, window) \/ Request(kind, window))
          \/ (\E kind \in {"json", "html"} : SnapshotOutOfMemory(kind))
          \/ StreamBatch \/ StreamNothing \/ StreamAborts => Place'
  <2>1. (\E kind \in {"json", "html"}, window \in Windows : Snapshot(kind, window) \/ Request(kind, window))
          \/ (\E kind \in {"json", "html"} : SnapshotOutOfMemory(kind))
          \/ StreamBatch \/ StreamNothing \/ StreamAborts => UNCHANGED <<entries, last, broken>>
    BY Zenon DEF Snapshot, SnapshotOutOfMemory, Request, StreamBatch, StreamNothing, StreamAborts, buffer
  <2>2. UNCHANGED <<entries, last, broken>> => Place'
    BY <1>3 DEF Place
  <2> QED
    BY <2>1, <2>2, Zenon
<1>8. ASSUME NEW kind \in {"json", "html"}, NEW window \in Windows, Snapshot(kind, window) \/ Request(kind, window)
      PROVE  ReadInv' /\ RowsInv' /\ TextInv'
  <2>1. window \in Nat
    BY BoundsAssumption
  <2> QED
    BY <2>1, <1>0, <1>3, <1>8, SnapshotKeeps, RequestKeeps, SnapshotText, RequestText, Zenon
<1>9. StreamBatch => ReadInv' /\ RowsInv' /\ TextInv'
    BY <1>0, <1>3, BatchKeeps, BatchText, Zenon
<1>10. StreamNothing => ReadInv' /\ RowsInv' /\ TextInv'
    BY <1>0, <1>3, NothingKeeps, NothingText, Zenon
<1>11. StreamAborts => ReadInv' /\ RowsInv' /\ TextInv'
    BY <1>0, <1>3, AbortKeeps, AbortText, Zenon
<1>12. ASSUME NEW kind \in {"json", "html"}, SnapshotOutOfMemory(kind)
       PROVE  ReadInv' /\ RowsInv' /\ TextInv'
    BY <1>12, StarvedKeeps, StarvedText, Zenon
<1> QED
    BY <1>4, <1>5, <1>6, <1>7, <1>8, <1>9, <1>10, <1>11, <1>12, CalmSteps, Zenon

(* However the batches fall and whatever leaves the buffer between them,   *)
(* a response repeats no line, misses at most as many as left meanwhile    *)
(* and is the whole window if none did, in an array: the index that        *)
(* streamLogsJson and streamLogsHtml keep across the mutex                 *)
(* (Logger.cpp:560) costs no more than that.  The exception is the answer  *)
(* of getLogsJSON and getLogsHTML when an allocation fails (lines 389 and  *)
(* 427): it is still an array, but has no line at all.                     *)
THEOREM ResponsesFaithful == Spec => []ResponseFaithful
<1>1. ResponseInv => ResponseFaithful
  <2> SUFFICES ASSUME ResponseInv PROVE ArrayWellFormed /\ SkipsOnlyRemoved
    BY DEF ResponseFaithful
  <2>0. endless \in BOOLEAN
    BY DEF ResponseInv, LinesInv, CountType
  <2>1. ArrayWellFormed
    <3> SUFFICES ASSUME Complete, response.kind = "json" PROVE IsArray(response.text)
      BY Zenon DEF ArrayWellFormed, IsArray
    <3>1. endless = FALSE /\ response.state = "complete"
      BY <2>0 DEF Complete
    <3> QED
      BY <3>1 DEF ResponseInv, TextInv
  <2>2. SkipsOnlyRemoved
    <3> SUFFICES ASSUME endless = FALSE PROVE SkipsOnlyRemoved
      BY <2>0, Zenon DEF SkipsOnlyRemoved
    <3>1. RowsInv
      BY DEF ResponseInv
    <3>2. \A i \in 1..(Len(response.rows) - 1) : response.rows[i] < response.rows[i + 1]
      BY <3>1, Zenon DEF RowsInv, Increasing
    <3>3. response.rows # <<>> => response.rows[Len(response.rows)] - response.rows[1] + 1 - Len(response.rows) <= removed
      BY <3>1, Zenon DEF RowsInv, Skipped
    <3>0. response.starved \in BOOLEAN
      BY DEF ResponseInv, ReaderType, Responses
    <3>4. Complete /\ removed = 0 /\ ~response.starved
            => response.rows = [i \in 1..(span.to - span.from + 1) |-> span.from + i - 1]
      BY <3>0, <3>1, Zenon DEF RowsInv, Window, Complete
    <3>5. response.starved => response.rows = <<>>
      BY <3>0, <3>1, Zenon DEF RowsInv
    <3> QED
      BY <3>2, <3>3, <3>4, <3>5, Zenon DEF SkipsOnlyRemoved
  <2> QED
    BY <2>1, <2>2
<1>2. Spec => []ResponseInv
    BY ResponseInit, ResponseNext, PTL DEF Spec
<1> QED
    BY <1>1, <1>2, PTL
=============================================================================
