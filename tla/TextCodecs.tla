----------------------------- MODULE TextCodecs -----------------------------
(***************************************************************************)
(* What the device and its pages write for each other: the form a page     *)
(* posts (urlDecode, formValue), the list of networks (listEscape), the    *)
(* settings (jsonEscape), the page that confirms them (htmlEscape,         *)
(* replaceAll, and the device name's normal form), the page a sign-in goes *)
(* back to (urlEncode, nextPath), and the headers that say which page a    *)
(* request comes from (isSameOrigin).  One input is chosen.                *)
(*                                                                         *)
(* A text is a sequence of characters, each a string; the alphabet is the  *)
(* characters these functions tell apart and some that they do not.  The   *)
(* browser's encoders and parsers are external, those of the setup page    *)
(* are not.                                                                *)
(***************************************************************************)
EXTENDS Integers, Sequences, SequencesExt

CONSTANTS
    FormAlphabet, ListAlphabet, PageAlphabet, PathAlphabet,
    MaxText,        \* bound: the characters of a text
    SOURCE_SIZE,    \* what of an Origin or Referer fits its buffer
    HOST_SIZE       \* and of a Host

BoundsAssumption == MaxText \in Nat /\ SOURCE_SIZE \in Nat /\ HOST_SIZE \in Nat

VARIABLE text       \* the input, a pair of texts and what they are for

Texts(alphabet) == UNION {[1..n -> alphabet] : n \in 0..MaxText}
Absent == <<"absent">>
Sources ==      \* a page's address, of which a long part may come before the host
    {Absent, <<"null">>} \cup {address[1] \o <<"://">> \o address[2] \o address[3] : address \in
        {<<"s">>, <<"s", "s", "s">>}
        \X (Texts({"h", "H"}) \cup {<<"h", "h", "h">>}) \X {<<>>, <<"/">>, <<"/", "h">>}}
Weak == "-80"
Strong == "-40"

Init ==
    \/ \E a, b \in Texts(FormAlphabet) : text = [for |-> "form", a |-> a, b |-> b]
    \/ \E a, b \in Texts(ListAlphabet), r, s \in { <<Weak>>, <<Strong>> } :
          text = [for |-> "list", a |-> a, b |-> b, rssi |-> <<r, s>>]
    \/ \E a, b \in Texts(PageAlphabet) : text = [for |-> "page", a |-> a, b |-> b]
    \/ \E a \in Texts(PathAlphabet) : text = [for |-> "path", a |-> <<"/">> \o a]
    \/ \E origin, referer \in Sources, host \in Texts({"h", "H"}) \cup {Absent} :
          text = [for |-> "origin", origin |-> origin, referer |-> referer, host |-> host]
Next == UNCHANGED text
Spec == Init /\ [][Next]_text

(* A text with a text for each of its characters. *)
Each(in, Written(_)) == FlattenSeq([i \in DOMAIN in |-> Written(in[i])])
Holds(in, i, part) == i + Len(part) - 1 <= Len(in) /\ SubSeq(in, i, i + Len(part) - 1) = part
Find(in, c, from) ==
    IF \E i \in from..Len(in) : in[i] = c
    THEN CHOOSE i \in from..Len(in) : in[i] = c /\ \A j \in from..(i - 1) : in[j] # c
    ELSE Len(in) + 1

(* A walk through a text: from each place, what is read there and from     *)
(* where it goes on (at most 6 further, or behind the end).                *)
Walk(in, read, next) ==
    LET from[i \in 1..(Len(in) + 6)] == IF i > Len(in) THEN <<>> ELSE read[i] \o from[next[i]]
    IN  from

-----------------------------------------------------------------------------
(* The form. *)

Hex == {"0", "2", "3", "5", "6", "B", "C", "D", "F"}
Byte == [x \in Hex \X Hex |->
            CASE x = <<"2", "5">> -> "%" [] x = <<"2", "6">> -> "&" [] x = <<"2", "B">> -> "+"
              [] x = <<"3", "D">> -> "=" [] x = <<"2", "0">> -> " "
              [] x = <<"3", "F">> -> "?" [] x = <<"5", "C">> -> "\\" [] OTHER -> "other"]
Percent(c) == LET x == CHOOSE x \in Hex \X Hex : Byte[x] = c IN <<"%", x[1], x[2]>>

(* The browser's: every reserved character, and no other. *)
Encoded(c) ==
    CASE c = " " -> <<"+">>
      [] c \in {"%", "&", "+", "="} -> Percent(c)
      [] OTHER -> <<c>>
Form(a, b) == <<"k", "=">> \o Each(a, Encoded) \o <<"&", "n", "=">> \o Each(b, Encoded)

urlDecode(in) ==
    LET escape(i) == in[i] = "%" /\ i + 2 <= Len(in) /\ {in[i + 1], in[i + 2]} \subseteq Hex
        read == [i \in DOMAIN in |-> IF escape(i) THEN <<Byte[in[i + 1], in[i + 2]]>>
                                     ELSE <<IF in[i] = "+" THEN " " ELSE in[i]>>]
        next == [i \in DOMAIN in |-> IF escape(i) THEN i + 3 ELSE i + 1]
    IN  Walk(in, read, next)[1]

(* The first field with this name, or nothing. *)
formValue(body, key) ==
    LET amp(pos) == Find(body, "&", pos)
        eq(pos) == Find(body, "=", pos)
        read == [pos \in DOMAIN body |->
                    IF eq(pos) < amp(pos) /\ urlDecode(SubSeq(body, pos, eq(pos) - 1)) = key
                    THEN <<urlDecode(SubSeq(body, eq(pos) + 1, amp(pos) - 1))>> ELSE <<>>]
        found == Walk(body, read, [pos \in DOMAIN body |-> amp(pos) + 1])[1]
    IN  IF found = <<>> THEN <<>> ELSE found[1]

-----------------------------------------------------------------------------
(* The list of networks, written by scanNetworks and read by the page. *)

ListEscapedCommasOnly(c) == IF c \in {",", "|"} THEN <<"\\", c>> ELSE <<c>>
ListEscaped(c) == IF c \in {"\\", ",", "|"} THEN <<"\\", c>> ELSE <<c>>
listEscape(in) == Each(in, ListEscaped)
Network(ssid, rssi, open) == listEscape(ssid) \o <<"|">> \o rssi \o <<"|", open>>

(* Behind a character, or an escape and what it escapes. *)
Behind(in) == [i \in DOMAIN in |-> IF in[i] = "\\" /\ i < Len(in) THEN i + 2 ELSE i + 1]

(* What the text is cut into, its escapes kept. *)
splitEscaped(in, delim) ==
    LET cuts == Walk(in, [i \in DOMAIN in |-> IF in[i] = delim THEN <<i>> ELSE <<>>], Behind(in))[1]
        ends == <<0>> \o cuts \o <<Len(in) + 1>>
    IN  [j \in 1..(Len(cuts) + 1) |-> SubSeq(in, ends[j] + 1, ends[j + 1] - 1)]

unescapeField(in) == Walk(in, [i \in DOMAIN in |-> <<in[Behind(in)[i] - 1]>>], Behind(in))[1]

Stronger(r, s) == r = <<Strong>> /\ s # <<Strong>>
Part(row, i) == IF i <= Len(row) THEN row[i] ELSE <<>>

Rows(data) ==
    LET lines == splitEscaped(data, ",") IN [i \in DOMAIN lines |-> splitEscaped(lines[i], "|")]

(* With a row more: each name once, at its strongest. *)
Added(networks, row) ==
    LET ssid == unescapeField(row[1])
        known == {n \in networks : n.ssid = ssid}
    IN  IF ssid = <<>> \/ \E n \in known : ~Stronger(Part(row, 2), n.rssi) THEN networks
        ELSE (networks \ known) \cup {[ssid |-> ssid, rssi |-> Part(row, 2), open |-> Part(row, 3) = <<"0">>]}

populateNetworks(data) ==
    LET networks[i \in 0..Len(Rows(data))] == IF i = 0 THEN {} ELSE Added(networks[i - 1], Rows(data)[i])
    IN  networks[Len(Rows(data))]

-----------------------------------------------------------------------------
(* The settings, as JSON, and the page that confirms a save. *)

JsonEscaped(c) ==
    CASE c \in {"\\", "\""} -> <<"\\", c>>
      [] c = "\n" -> <<"\\", "n">>
      [] c = "SOH" -> <<"\\", "u", "0", "0", "0", "1">>     \* as any other below 0x20
      [] OTHER -> <<c>>
jsonEscape(in) == Each(in, JsonEscaped)

(* JSON.parse of the string that begins there: up to the first quote that is not escaped. *)
JsonParsed(in) ==
    LET escape(i) == in[i] = "\\" /\ i < Len(in)
        read == [i \in DOMAIN in |->
                    IF in[i] = "\"" THEN <<>> ELSE IF ~escape(i) THEN <<in[i]>>
                    ELSE CASE in[i + 1] = "n" -> <<"\n">> [] in[i + 1] = "u" -> <<"SOH">> [] OTHER -> <<in[i + 1]>>]
        next == [i \in DOMAIN in |->
                    IF in[i] = "\"" THEN Len(in) + 1 ELSE IF ~escape(i) THEN i + 1
                    ELSE IF in[i + 1] = "u" THEN i + 6 ELSE i + 2]
    IN  Walk(in, read, next)[1]

Entity == [c \in {"&", "<"} |-> IF c = "&" THEN <<"&", "amp;">> ELSE <<"&", "lt;">>]
HtmlEscaped(c) == IF c \in DOMAIN Entity THEN Entity[c] ELSE <<c>>
htmlEscape(in) == Each(in, HtmlEscaped)

(* A browser shows an entity as its character; "<" opens a tag. *)
HtmlShown(in) ==
    LET entities(i) == {c \in DOMAIN Entity : Holds(in, i, Entity[c])}
        read == [i \in DOMAIN in |-> IF entities(i) # {} THEN <<CHOOSE c \in entities(i) : TRUE>>
                                     ELSE <<IF in[i] = "<" THEN "tag" ELSE in[i]>>]
    IN  Walk(in, read, [i \in DOMAIN in |-> IF entities(i) # {} THEN i + 2 ELSE i + 1])[1]

replaceAll(in, token, value) ==
    LET read == [i \in DOMAIN in |-> IF Holds(in, i, token) THEN value ELSE <<in[i]>>]
    IN  Walk(in, read, [i \in DOMAIN in |-> IF Holds(in, i, token) THEN i + Len(token) ELSE i + 1])[1]

NameToken == <<"%", "N">>     \* %DEVICE_NAME%
WifiToken == <<"%", "W">>     \* %WIFI_NAME%
WIFI_SAVED_HTML == <<"x">> \o NameToken \o <<"y">> \o WifiToken \o <<"z">>

(* handleSaveWifi: the device name as an mDNS label, then both values into the page. *)
Label(in) ==
    LET spaces == {" ", "\n"}
        kept == {i \in DOMAIN in : (\E j \in 1..i : in[j] \notin spaces) /\ (\E j \in i..Len(in) : in[j] \notin spaces)}
        plain == [i \in DOMAIN in |-> IF in[i] = "N" THEN "n" ELSE IF in[i] \in {"n", "u", "0"} THEN in[i] ELSE "-"]
    IN  IF kept = {} THEN <<>>
        ELSE SubSeq(plain, CHOOSE i \in kept : \A j \in kept : i <= j, CHOOSE i \in kept : \A j \in kept : i >= j)

SavedPage(name, wifi) ==
    replaceAll(replaceAll(WIFI_SAVED_HTML, NameToken, htmlEscape(name)), WifiToken, htmlEscape(wifi))

-----------------------------------------------------------------------------
(* The page that asks for a sign-in, and where the sign-in goes.           *)

UrlEncoded(c) == IF c \in {"a", "/"} THEN <<c>> ELSE Percent(c)
urlEncode(in) == Each(in, UrlEncoded)
LoginQuery(uri) == <<"n", "=">> \o urlEncode(uri)

nextPath(next) ==
    IF next # <<>> /\ next[1] = "/" /\ (Len(next) = 1 \/ next[2] \notin {"/", "\\"}) THEN next ELSE <<"/">>

-----------------------------------------------------------------------------
(* Does a request come from the device's own pages? *)

Source(req) == IF req.origin # Absent THEN req.origin ELSE req.referer
HasAuthority(source) == \E i \in DOMAIN source : source[i] = "://"
AuthorityStart(source) == Find(source, "://", 1) + 1
AuthorityEnd(source) == Find(source, "/", AuthorityStart(source))
Folded(in) == [i \in DOMAIN in |-> IF in[i] = "H" THEN "h" ELSE in[i]]
IsHost(source, host) ==
    HasAuthority(source) /\ Folded(SubSeq(source, AuthorityStart(source), AuthorityEnd(source) - 1)) = Folded(host)

Seen(source) == SubSeq(source, 1, IF Len(source) < SOURCE_SIZE THEN Len(source) ELSE SOURCE_SIZE)

(* The authority counts only if its end is in the buffer.                  *)
EndSeen(source) == Len(source) <= SOURCE_SIZE \/ AuthorityEnd(Seen(source)) <= SOURCE_SIZE

isSameOrigin(req) ==
    \/ Source(req) = Absent
    \/ /\ req.host # Absent /\ Len(req.host) <= HOST_SIZE
       /\ EndSeen(Source(req)) /\ IsHost(Seen(Source(req)), req.host)

-----------------------------------------------------------------------------
(* The device reads from a form what was typed into it. *)
FormSurvives == text.for = "form" =>
    /\ formValue(Form(text.a, text.b), <<"k">>) = text.a
    /\ formValue(Form(text.a, text.b), <<"n">>) = text.b

(* The page lists the networks that were found, each named once and at its *)
(* strongest, whatever they are called.                                    *)
ListSurvives == text.for = "list" =>
    LET ssid == <<text.a, text.b>>
        row(i) == [ssid |-> ssid[i], rssi |-> text.rssi[i], open |-> i = 1]
    IN  populateNetworks(Network(text.a, text.rssi[1], "0") \o <<",">> \o Network(text.b, text.rssi[2], "1"))
          = {row(i) : i \in {i \in {1, 2} : ssid[i] # <<>> /\
                ~\E j \in {1, 2} \ {i} : ssid[j] = ssid[i] /\
                    (Stronger(text.rssi[j], text.rssi[i]) \/ (text.rssi[j] = text.rssi[i] /\ j < i))}}

(* The pages show the names that are stored: the settings, and the page    *)
(* that confirms them, in which a name may look like a token or a tag.     *)
PagesShowNames == text.for = "page" =>
    /\ JsonParsed(jsonEscape(text.a) \o <<"\"", "}">>) = text.a
    /\ HtmlShown(SavedPage(Label(text.a), text.b)) = <<"x">> \o Label(text.a) \o <<"y">> \o text.b \o <<"z">>

(* A sign-in goes back to the page that asked for it, with its query; only *)
(* a path that would name another host is replaced.                        *)
PathSurvives == text.for = "path" =>
    LET next == nextPath(formValue(LoginQuery(text.a), <<"n">>)) IN
    next = IF Len(text.a) > 1 /\ text.a[2] \in {"/", "\\"} THEN <<"/">> ELSE text.a

(* A request counts as the device's own when the whole of its source names *)
(* the host it was sent to, or when it has none, also where the source was *)
(* cut to the buffer in front of its host or within it.                    *)
SourceJudgedWhole == text.for = "origin" /\ Len(text.host) <= HOST_SIZE =>
    /\ isSameOrigin(text) => Source(text) = Absent \/ (text.host # Absent /\ IsHost(Source(text), text.host))
    /\ Source(text) = Absent => isSameOrigin(text)
    /\ Len(Source(text)) <= SOURCE_SIZE /\ text.host # Absent /\ IsHost(Source(text), text.host) => isSameOrigin(text)

(* What device and browser write for each other is understood as meant.    *)
TextsSurvive == FormSurvives /\ ListSurvives /\ PagesShowNames /\ PathSurvives /\ SourceJudgedWhole
=============================================================================
