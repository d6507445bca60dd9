-------------------------- MODULE DeviceCertProofs --------------------------
(***************************************************************************)
(* Theorems about DeviceCert: what HTTPS is started with, the authority a  *)
(* browser is told to trust, and an installation that was answered; for    *)
(* every number of keys, names, authorities, socket limits and faults.     *)
(***************************************************************************)
EXTENDS MCDeviceCert, TLAPS

Names == Hosts \cup {NoHost}
Certs == [key : 0..MaxKeys, by : CAs \cup {Nobody}, name : Names]
Entries == [host : Names, cert : Certs, key : 0..MaxKeys, ca : CAs \cup {Nobody},
            signed : BOOLEAN, https : BOOLEAN]

Typed ==
    /\ nvs \in Entries /\ hostname \in Names /\ made \in Certs /\ keys \in 0..MaxKeys
    /\ promised \in Certs \cup {Wiped}
    /\ stage \in {"boot", "store", "serving"}
    /\ op \in {"idle", "store", "https", "install", "revert", "clear"}
    /\ clearing \in BOOLEAN /\ restarting \in BOOLEAN /\ torn \in SUBSET {"key", "signed"}

(* Entries that fit each other; each of these stays true when entries are  *)
(* erased, one by one and in any order.                                    *)
Paired == nvs.cert # NoCert /\ nvs.key # 0 => nvs.cert.key = nvs.key
OwnIsForHost == nvs.cert # NoCert /\ nvs.key # 0 /\ nvs.host # NoHost /\ nvs.cert.by = Nobody =>
                    nvs.cert.name = nvs.host
Anchored == nvs.signed /\ nvs.cert # NoCert => nvs.cert.by # Nobody /\ nvs.ca \in {Nobody, nvs.cert.by}

PairWhole == "key" \notin torn => Paired /\ OwnIsForHost
AnchorWhole == "signed" \notin torn => Anchored

Call(f, v) == <<f, v>>
Signed == <<"signed", TRUE>>
Unsigned == <<"signed", FALSE>>

(* What is under way, and the calls it has still to make.                  *)
OpInv ==
    /\ stage = "boot" => op = "idle"
    /\ op = "store" => stage = "store"
    /\ op \in {"idle", "clear"} => todo = <<>>
    /\ op = "https" => todo = <<>> \/ \E on \in BOOLEAN : todo = << Call("https", on) >>
    /\ op # "store" \/ todo = <<>> => PairWhole
    /\ op \notin {"store", "install"} \/ todo = <<>> => AnchorWhole

(* What a series has stored, where a factory reset has not erased it since.*)
HostStored == nvs.host \in {made.name, NoHost}
CertStored == nvs.cert \in {made, NoCert}
KeyStored == nvs.key \in {made.key, 0}
CaStored == nvs.ca \in {made.by, Nobody}

(* A new certificate.                                                      *)
StoreInv ==
    op = "store" =>
        /\ made.by = Nobody /\ made.key # 0 /\ made.name \in Hosts
        /\ made.name = hostname \/ clearing \/ restarting
        /\ \/ todo = << Call("host", made.name), Call("cert", made), Call("key", made.key), Unsigned >>
           \/ todo = << Call("cert", made), Call("key", made.key), Unsigned >> /\ HostStored
           \/ todo = << Call("key", made.key), Unsigned >> /\ HostStored /\ CertStored
           \/ todo = << Unsigned >> /\ HostStored /\ CertStored /\ KeyStored
           \/ todo = <<>> /\ ("signed" \notin torn => ~nvs.signed)

(* An installation: the key it was made for stays under it, unless the     *)
(* entries are wiped.                                                      *)
InstallInv ==
    op = "install" =>
        /\ made.by \in CAs /\ made.key # 0 /\ promised \in {NoCert, Wiped} /\ KeyStored
        /\ promised # Wiped => nvs.key = made.key /\ nvs.host # NoHost
        /\ \/ todo = << Call("cert", made), Call("ca", made.by), Signed >>
           \/ /\ todo = << Call("ca", made.by), Signed >> /\ CertStored
              /\ promised # Wiped => nvs.cert = made
           \/ /\ todo = << Signed >> /\ CertStored /\ CaStored
              /\ promised # Wiped => nvs.cert = made /\ nvs.ca = made.by
           \/ /\ todo = <<>>
              /\ promised # Wiped => nvs.cert = made /\ nvs.ca = made.by /\ nvs.signed

(* A return to the self-signed certificate: the name goes first.           *)
RevertInv ==
    op = "revert" =>
        /\ promised \in {NoCert, Wiped}
        /\ \/ todo = << Call("host", NoHost), Call("cert", NoCert), Call("key", 0), Call("ca", Nobody), Unsigned >>
           \/ todo = << Call("cert", NoCert), Call("key", 0), Call("ca", Nobody), Unsigned >>
           \/ todo = << Call("key", 0), Call("ca", Nobody), Unsigned >>
           \/ todo = << Call("ca", Nobody), Unsigned >>
           \/ todo = << Unsigned >>
           \/ todo = <<>>

(* An answered installation: nothing that could undo it is under way.      *)
PromiseInv == promised \notin {NoCert, Wiped} => op \notin {"store", "install", "revert"} /\ InstalledStays

CertInv == Typed /\ OpInv /\ StoreInv /\ InstallInv /\ RevertInv /\ PromiseInv

(* What the running server was started with.                               *)
ServerInv ==
    server.kind = "https" =>
        /\ stage = "serving"
        /\ "key" \notin torn => server.cert.key = server.key
        /\ torn = {} /\ server.cert.by = Nobody /\ ~restarting /\ ~clearing => server.cert.name = hostname
        /\ op \in {"idle", "https"} /\ ~restarting /\ ~clearing /\ "signed" \notin torn
              /\ nvs.signed /\ nvs.ca # Nobody => server.cert.by = nvs.ca

-----------------------------------------------------------------------------
(* The first call of a series is made, the others are left.                *)
LEMMA CallMade ==
    ASSUME Write
    PROVE  /\ todo' = Tail(todo)
           /\ torn' = IF op = "store" /\ todo' = <<>> THEN {} ELSE torn
           /\ \A f, v : todo[1] = Call(f, v) => nvs' = [nvs EXCEPT ![f] = v]
           /\ todo[1] = Signed => nvs' = [nvs EXCEPT !["signed"] = TRUE]
           /\ todo[1] = Unsigned => nvs' = [nvs EXCEPT !["signed"] = FALSE]
<1>1. /\ todo' = Tail(todo) /\ nvs' = [nvs EXCEPT ![todo[1][1]] = todo[1][2]]
      /\ torn' = IF op = "store" /\ todo' = <<>> THEN {} ELSE torn
    BY DEF Write
<1>2. \A f, v : Call(f, v)[1] = f /\ Call(f, v)[2] = v BY DEF Call
<1>3. Signed[1] = "signed" /\ Signed[2] = TRUE BY DEF Signed
<1>4. Unsigned[1] = "signed" /\ Unsigned[2] = FALSE BY DEF Unsigned
<1>5. ASSUME NEW f, NEW v, todo[1] = Call(f, v) PROVE nvs' = [nvs EXCEPT ![f] = v]
    BY <1>1, <1>2, <1>5
<1>6. todo[1] = Signed => nvs' = [nvs EXCEPT !["signed"] = TRUE]
    BY <1>1, <1>3, Zenon
<1>7. todo[1] = Unsigned => nvs' = [nvs EXCEPT !["signed"] = FALSE]
    BY <1>1, <1>4, Zenon
<1> QED BY <1>1, <1>5, <1>6, <1>7

LEMMA Tuples == /\ \A a : <<a>> # <<>>
                /\ \A a, b : <<a, b>> # <<>>
                /\ \A a, b, c : <<a, b, c>> # <<>>
                /\ \A a, b, c, d : <<a, b, c, d>> # <<>>
                /\ \A a, b, c, d, e : <<a, b, c, d, e>> # <<>>
OBVIOUS

LEMMA ConstantsTyped == NoCert \in Certs /\ Wiped \notin Certs /\ Empty \in Entries /\ MaxKeys \in Nat /\ 0 \in 0..MaxKeys
<1>1. MaxKeys \in Nat BY BoundsAssumption
<1> QED BY <1>1 DEF NoCert, Wiped, Empty, Certs, Entries, Names

-----------------------------------------------------------------------------
(* The calls of the series, one at a time.                                 *)
LEMMA StoreGoesOn ==
    ASSUME CertInv, Write, op = "store"
    PROVE  Typed' /\ OpInv' /\ StoreInv'
<1> USE DEF CertInv, Typed
<1>0. /\ UNCHANGED <<hostname, stage, op, made, keys, server, clearing, restarting, promised>>
      /\ todo # <<>> /\ stage # "boot" /\ torn' = IF todo' = <<>> THEN {} ELSE torn
    BY DEF Write, OpInv
<1>m. /\ made.by = Nobody /\ made.key # 0 /\ made.key \in 0..MaxKeys /\ made.name \in Hosts
      /\ made.name = hostname \/ clearing \/ restarting
    BY DEF StoreInv, Certs
<1>a. made # NoCert /\ NoHost \notin Hosts /\ Nobody \notin CAs /\ made.name \in Names
    BY <1>m, NamesAssumption DEF NoCert, Names
<1>t. torn' \in SUBSET {"key", "signed"} BY <1>0
<1>1. CASE todo = << Call("host", made.name), Call("cert", made), Call("key", made.key), Unsigned >>
    <2>0. todo[1] = Call("host", made.name) /\ Tail(todo) = << Call("cert", made), Call("key", made.key), Unsigned >> BY <1>1
    <2>1. nvs' = [nvs EXCEPT !["host"] = made.name] /\ todo' = << Call("cert", made), Call("key", made.key), Unsigned >>
        BY <2>0, CallMade, Zenon
    <2>2. nvs' \in Entries /\ nvs'.host = made.name
        BY <2>1, <1>a DEF Entries
    <2>3. todo' # <<>> BY <2>1, Tuples
    <2>4. StoreInv' BY <1>0, <1>m, <2>1, <2>2 DEF StoreInv, HostStored
    <2> QED BY <1>0, <1>t, <2>2, <2>3, <2>4 DEF OpInv
<1>2. CASE todo = << Call("cert", made), Call("key", made.key), Unsigned >> /\ HostStored
    <2>0. todo[1] = Call("cert", made) /\ Tail(todo) = << Call("key", made.key), Unsigned >> BY <1>2
    <2>1. nvs' = [nvs EXCEPT !["cert"] = made] /\ todo' = << Call("key", made.key), Unsigned >>
        BY <2>0, CallMade, Zenon
    <2>2. nvs' \in Entries /\ nvs'.cert = made /\ nvs'.host = nvs.host
        BY <2>1 DEF Entries
    <2>3. todo' # <<>> BY <2>1, Tuples
    <2>4. StoreInv' BY <1>0, <1>m, <1>2, <2>1, <2>2 DEF StoreInv, HostStored, CertStored
    <2> QED BY <1>0, <1>t, <2>2, <2>3, <2>4 DEF OpInv
<1>3. CASE todo = << Call("key", made.key), Unsigned >> /\ HostStored /\ CertStored
    <2>0. todo[1] = Call("key", made.key) /\ Tail(todo) = << Unsigned >> BY <1>3
    <2>1. nvs' = [nvs EXCEPT !["key"] = made.key] /\ todo' = << Unsigned >>
        BY <2>0, CallMade, Zenon
    <2>2. nvs' \in Entries /\ nvs'.key = made.key /\ nvs'.host = nvs.host /\ nvs'.cert = nvs.cert
        BY <2>1, <1>m DEF Entries
    <2>3. todo' # <<>> BY <2>1, Tuples
    <2>4. StoreInv' BY <1>0, <1>m, <1>3, <2>1, <2>2 DEF StoreInv, HostStored, CertStored, KeyStored
    <2> QED BY <1>0, <1>t, <2>2, <2>3, <2>4 DEF OpInv
<1>4. CASE todo = << Unsigned >> /\ HostStored /\ CertStored /\ KeyStored
    <2>0. todo[1] = Unsigned /\ Tail(todo) = <<>> BY <1>4
    <2>1. nvs' = [nvs EXCEPT !["signed"] = FALSE] /\ todo' = <<>> BY <2>0, CallMade, Zenon
    <2>2. /\ nvs' \in Entries /\ nvs'.key = nvs.key /\ nvs'.host = nvs.host /\ nvs'.cert = nvs.cert
          /\ ~nvs'.signed
        BY <2>1 DEF Entries
    <2>3. PairWhole' /\ AnchorWhole'
        BY <1>4, <1>m, <2>2 DEF PairWhole, AnchorWhole, Paired, OwnIsForHost, Anchored, HostStored, CertStored, KeyStored
    <2>4. StoreInv' BY <1>0, <1>m, <2>1, <2>2 DEF StoreInv
    <2> QED BY <1>0, <1>t, <2>2, <2>3, <2>4 DEF OpInv
<1> QED BY <1>0, <1>1, <1>2, <1>3, <1>4 DEF StoreInv

LEMMA InstallGoesOn ==
    ASSUME CertInv, Write, op = "install"
    PROVE  Typed' /\ OpInv' /\ InstallInv'
<1> USE DEF CertInv, Typed
<1>0. /\ UNCHANGED <<hostname, stage, op, made, keys, server, clearing, restarting, promised, torn>>
      /\ todo # <<>> /\ stage # "boot"
    BY DEF Write, OpInv
<1>m. /\ made.by \in CAs /\ made.key # 0 /\ promised \in {NoCert, Wiped} /\ KeyStored
      /\ promised # Wiped => nvs.key = made.key /\ nvs.host # NoHost
    BY <1>0 DEF InstallInv
<1>a. made # NoCert /\ Nobody \notin CAs /\ made.by # Nobody
    BY <1>m, NamesAssumption DEF NoCert
<1>p. PairWhole BY DEF OpInv
<1>1. CASE todo = << Call("cert", made), Call("ca", made.by), Signed >>
    <2>0. todo[1] = Call("cert", made) /\ Tail(todo) = << Call("ca", made.by), Signed >> BY <1>1
    <2>1. nvs' = [nvs EXCEPT !["cert"] = made] /\ todo' = << Call("ca", made.by), Signed >>
        BY <2>0, CallMade, Zenon
    <2>2. nvs' \in Entries /\ nvs'.cert = made /\ nvs'.key = nvs.key /\ nvs'.host = nvs.host
        BY <2>1 DEF Entries
    <2>3. todo' # <<>> BY <2>1, Tuples
    <2>4. InstallInv' BY <1>0, <1>m, <2>1, <2>2 DEF InstallInv, KeyStored, CertStored
    <2>5. PairWhole' BY <1>m, <1>a, <2>2 DEF PairWhole, Paired, OwnIsForHost, KeyStored
    <2> QED BY <1>0, <2>2, <2>3, <2>4, <2>5 DEF OpInv
<1>2. CASE /\ todo = << Call("ca", made.by), Signed >> /\ CertStored
           /\ promised # Wiped => nvs.cert = made
    <2>0. todo[1] = Call("ca", made.by) /\ Tail(todo) = << Signed >> BY <1>2
    <2>1. nvs' = [nvs EXCEPT !["ca"] = made.by] /\ todo' = << Signed >> BY <2>0, CallMade, Zenon
    <2>2. /\ nvs' \in Entries /\ nvs'.ca = made.by /\ nvs'.cert = nvs.cert /\ nvs'.key = nvs.key
          /\ nvs'.host = nvs.host
        BY <2>1, <1>m DEF Entries
    <2>3. todo' # <<>> BY <2>1, Tuples
    <2>4. InstallInv' BY <1>0, <1>m, <1>2, <2>1, <2>2 DEF InstallInv, KeyStored, CertStored, CaStored
    <2>5. PairWhole' BY <1>0, <1>p, <2>2 DEF PairWhole, Paired, OwnIsForHost
    <2> QED BY <1>0, <2>2, <2>3, <2>4, <2>5 DEF OpInv
<1>3. CASE /\ todo = << Signed >> /\ CertStored /\ CaStored
           /\ promised # Wiped => nvs.cert = made /\ nvs.ca = made.by
    <2>0. todo[1] = Signed /\ Tail(todo) = <<>> BY <1>3
    <2>1. nvs' = [nvs EXCEPT !["signed"] = TRUE] /\ todo' = <<>> BY <2>0, CallMade, Zenon
    <2>2. /\ nvs' \in Entries /\ nvs'.signed /\ nvs'.ca = nvs.ca /\ nvs'.cert = nvs.cert
          /\ nvs'.key = nvs.key /\ nvs'.host = nvs.host
        BY <2>1 DEF Entries
    <2>3. PairWhole' BY <1>0, <1>p, <2>2 DEF PairWhole, Paired, OwnIsForHost
    <2>4. Anchored' BY <1>3, <1>a, <2>2 DEF Anchored, CertStored, CaStored
    <2>5. InstallInv' BY <1>0, <1>m, <1>3, <2>1, <2>2 DEF InstallInv, KeyStored
    <2> QED BY <1>0, <2>2, <2>3, <2>4, <2>5 DEF OpInv, AnchorWhole
<1> QED BY <1>0, <1>1, <1>2, <1>3 DEF InstallInv

(* An erased entry, or several, leave what is left in order.               *)
LEMMA ErasedFits ==
    ASSUME nvs \in Entries, nvs' \in PartlyErased
    PROVE  /\ nvs' \in Entries
           /\ Paired => Paired'
           /\ OwnIsForHost => OwnIsForHost'
           /\ Anchored => Anchored'
           /\ made' = made => /\ (HostStored => HostStored') /\ (CertStored => CertStored')
                              /\ (KeyStored => KeyStored') /\ (CaStored => CaStored')
           /\ nvs'.signed => nvs.signed
<1>1. /\ nvs'.host \in {nvs.host, NoHost} /\ nvs'.cert \in {nvs.cert, NoCert} /\ nvs'.key \in {nvs.key, 0}
      /\ nvs'.ca \in {nvs.ca, Nobody} /\ nvs'.signed \in {nvs.signed, FALSE} /\ nvs'.https \in {nvs.https, FALSE}
    BY DEF PartlyErased
<1>2. nvs' \in Entries
    BY <1>1, ConstantsTyped DEF PartlyErased, Entries, Names
<1>3. nvs'.signed => nvs.signed BY <1>1, Zenon
<1>4. Paired => Paired' BY <1>1 DEF Paired
<1>5. OwnIsForHost => OwnIsForHost' BY <1>1 DEF OwnIsForHost
<1>6. Anchored => Anchored' BY <1>1, <1>3 DEF Anchored
<1>7. made' = made => (HostStored => HostStored') BY <1>1 DEF HostStored
<1>8. made' = made => (CertStored => CertStored') BY <1>1 DEF CertStored
<1>9. made' = made => (KeyStored => KeyStored') BY <1>1 DEF KeyStored
<1>10. made' = made => (CaStored => CaStored') BY <1>1 DEF CaStored
<1> QED BY <1>2, <1>3, <1>4, <1>5, <1>6, <1>7, <1>8, <1>9, <1>10

LEMMA EmptyIsErased == ASSUME nvs \in Entries PROVE Empty \in PartlyErased
BY DEF Empty, PartlyErased, Entries

LEMMA RevertStep ==
    ASSUME CertInv, op = "revert", nvs' \in PartlyErased,
           UNCHANGED <<hostname, stage, op, made, keys, clearing, restarting, promised, torn>>
    PROVE  Typed' /\ OpInv'
<1>1. nvs \in Entries BY DEF CertInv, Typed
<1>2. nvs' \in Entries /\ (Paired => Paired') /\ (OwnIsForHost => OwnIsForHost') /\ (Anchored => Anchored')
    BY <1>1, ErasedFits
<1>3. PairWhole' /\ AnchorWhole' BY <1>2 DEF CertInv, OpInv, PairWhole, AnchorWhole
<1> QED BY <1>2, <1>3 DEF CertInv, Typed, OpInv

LEMMA RevertGoesOn ==
    ASSUME CertInv, Write, op = "revert"
    PROVE  Typed' /\ OpInv' /\ RevertInv'
<1>0. /\ UNCHANGED <<hostname, stage, op, made, keys, server, clearing, restarting, promised, torn>>
      /\ todo # <<>> /\ stage # "boot"
    BY DEF Write, CertInv, OpInv
<1>m. promised \in {NoCert, Wiped} /\ nvs \in Entries BY DEF CertInv, RevertInv, Typed
<1>1. CASE todo = << Call("host", NoHost), Call("cert", NoCert), Call("key", 0), Call("ca", Nobody), Unsigned >>
    <2>0. todo[1] = Call("host", NoHost) /\ Tail(todo) = << Call("cert", NoCert), Call("key", 0), Call("ca", Nobody), Unsigned >>
        BY <1>1
    <2>1. nvs' = [nvs EXCEPT !["host"] = NoHost] /\ todo' = << Call("cert", NoCert), Call("key", 0), Call("ca", Nobody), Unsigned >>
        BY <2>0, CallMade, Zenon
    <2>2. nvs' \in PartlyErased BY <2>1, <1>m DEF Entries, PartlyErased
    <2> QED BY <1>0, <1>m, <2>1, <2>2, RevertStep DEF RevertInv
<1>2. CASE todo = << Call("cert", NoCert), Call("key", 0), Call("ca", Nobody), Unsigned >>
    <2>0. todo[1] = Call("cert", NoCert) /\ Tail(todo) = << Call("key", 0), Call("ca", Nobody), Unsigned >> BY <1>2
    <2>1. nvs' = [nvs EXCEPT !["cert"] = NoCert] /\ todo' = << Call("key", 0), Call("ca", Nobody), Unsigned >>
        BY <2>0, CallMade, Zenon
    <2>2. nvs' \in PartlyErased BY <2>1, <1>m DEF Entries, PartlyErased
    <2> QED BY <1>0, <1>m, <2>1, <2>2, RevertStep DEF RevertInv
<1>3. CASE todo = << Call("key", 0), Call("ca", Nobody), Unsigned >>
    <2>0. todo[1] = Call("key", 0) /\ Tail(todo) = << Call("ca", Nobody), Unsigned >> BY <1>3
    <2>1. nvs' = [nvs EXCEPT !["key"] = 0] /\ todo' = << Call("ca", Nobody), Unsigned >> BY <2>0, CallMade, Zenon
    <2>2. nvs' \in PartlyErased BY <2>1, <1>m DEF Entries, PartlyErased
    <2> QED BY <1>0, <1>m, <2>1, <2>2, RevertStep DEF RevertInv
<1>4. CASE todo = << Call("ca", Nobody), Unsigned >>
    <2>0. todo[1] = Call("ca", Nobody) /\ Tail(todo) = << Unsigned >> BY <1>4
    <2>1. nvs' = [nvs EXCEPT !["ca"] = Nobody] /\ todo' = << Unsigned >> BY <2>0, CallMade, Zenon
    <2>2. nvs' \in PartlyErased BY <2>1, <1>m DEF Entries, PartlyErased
    <2> QED BY <1>0, <1>m, <2>1, <2>2, RevertStep DEF RevertInv
<1>5. CASE todo = << Unsigned >>
    <2>0. todo[1] = Unsigned /\ Tail(todo) = <<>> BY <1>5
    <2>1. nvs' = [nvs EXCEPT !["signed"] = FALSE] /\ todo' = <<>> BY <2>0, CallMade, Zenon
    <2>2. nvs' \in PartlyErased BY <2>1, <1>m DEF Entries, PartlyErased
    <2> QED BY <1>0, <1>m, <2>1, <2>2, RevertStep DEF RevertInv
<1> QED BY <1>0, <1>1, <1>2, <1>3, <1>4, <1>5 DEF CertInv, RevertInv

LEMMA WriteKeeps == ASSUME CertInv, Write PROVE CertInv'
<1>0. /\ UNCHANGED <<hostname, stage, op, made, keys, server, clearing, restarting, promised>>
      /\ todo # <<>> /\ stage # "boot"
    BY DEF Write, CertInv, OpInv
<1>1. CASE op \in {"store", "install", "revert"}
    <2>1. PromiseInv' BY <1>0, <1>1 DEF CertInv, PromiseInv
    <2>2. op = "store" \/ op = "install" \/ op = "revert" BY <1>1
    <2> QED BY <1>0, <2>1, <2>2, StoreGoesOn, InstallGoesOn, RevertGoesOn DEF CertInv, StoreInv, InstallInv, RevertInv
<1>2. CASE op = "https"
    <2>0. UNCHANGED torn BY <1>2, CallMade
    <2>1. PICK on \in BOOLEAN : todo = << Call("https", on) >> BY <1>0, <1>2 DEF CertInv, OpInv
    <2> DEFINE a == Call("https", on)
    <2>2. a[1] = "https" /\ a[2] = on BY DEF Call
    <2>a. todo = <<a>> BY <2>1, Zenon
    <2> HIDE DEF a
    <2>3. todo[1] = a /\ Tail(todo) = <<>> BY <2>a
    <2>4. nvs' = [nvs EXCEPT !["https"] = on] /\ todo' = <<>> BY <2>2, <2>3, Zenon DEF Write
    <2>5. /\ nvs' \in Entries /\ nvs'.host = nvs.host /\ nvs'.cert = nvs.cert /\ nvs'.key = nvs.key
          /\ nvs'.ca = nvs.ca /\ nvs'.signed = nvs.signed
        BY <2>4 DEF CertInv, Typed, Entries
    <2>6. Typed' BY <1>0, <2>0, <2>5 DEF CertInv, Typed
    <2>7. OpInv' BY <1>0, <1>2, <2>0, <2>4, <2>5 DEF CertInv, OpInv, PairWhole, AnchorWhole, Paired, OwnIsForHost, Anchored
    <2>8. PromiseInv' BY <1>0, <2>5 DEF CertInv, PromiseInv, InstalledStays, Loadable
    <2> QED BY <1>0, <1>2, <2>6, <2>7, <2>8 DEF CertInv, StoreInv, InstallInv, RevertInv
<1> QED BY <1>0, <1>1, <1>2 DEF CertInv, Typed, OpInv

(* What ends a series of writes early tags the entries it left outdated.   *)
LEMMA TornGrows ==
    ASSUME CertInv
    PROVE  /\ TornNow \in SUBSET {"key", "signed"} /\ torn \subseteq TornNow
           /\ op \notin {"store", "install"} => TornNow = torn
           /\ op \in {"store", "install"} /\ "key" \notin TornNow => ~Outdated("key")
           /\ op \in {"store", "install"} /\ "signed" \notin TornNow => ~Outdated("signed")
<1>1. torn \in SUBSET {"key", "signed"} BY DEF CertInv, Typed
<1> QED BY <1>1 DEF TornNow

LEMMA SignedPending ==
    ASSUME CertInv, op \in {"store", "install"}, todo # <<>>, ~Outdated("signed")
    PROVE  ~nvs.signed
<1>1. \E i \in DOMAIN todo : todo[i] = Signed \/ todo[i] = Unsigned
    <2>1. CASE op = "store"
        <3>1. CASE todo = << Call("host", made.name), Call("cert", made), Call("key", made.key), Unsigned >>
            <4>1. 4 \in DOMAIN todo /\ todo[4] = Unsigned BY <3>1
            <4> QED BY <4>1
        <3>2. CASE todo = << Call("cert", made), Call("key", made.key), Unsigned >>
            <4>1. 3 \in DOMAIN todo /\ todo[3] = Unsigned BY <3>2
            <4> QED BY <4>1
        <3>3. CASE todo = << Call("key", made.key), Unsigned >>
            <4>1. 2 \in DOMAIN todo /\ todo[2] = Unsigned BY <3>3
            <4> QED BY <4>1
        <3>4. CASE todo = << Unsigned >>
            <4>1. 1 \in DOMAIN todo /\ todo[1] = Unsigned BY <3>4
            <4> QED BY <4>1
        <3> QED BY <2>1, <3>1, <3>2, <3>3, <3>4, Zenon DEF CertInv, StoreInv
    <2>2. CASE op = "install"
        <3>1. CASE todo = << Call("cert", made), Call("ca", made.by), Signed >>
            <4>1. 3 \in DOMAIN todo /\ todo[3] = Signed BY <3>1
            <4> QED BY <4>1
        <3>2. CASE todo = << Call("ca", made.by), Signed >>
            <4>1. 2 \in DOMAIN todo /\ todo[2] = Signed BY <3>2
            <4> QED BY <4>1
        <3>3. CASE todo = << Signed >>
            <4>1. 1 \in DOMAIN todo /\ todo[1] = Signed BY <3>3
            <4> QED BY <4>1
        <3> QED BY <2>2, <3>1, <3>2, <3>3, Zenon DEF CertInv, InstallInv
    <2> QED BY <2>1, <2>2
<1>2. Signed[1] = "signed" /\ Unsigned[1] = "signed" BY DEF Signed, Unsigned
<1>3. nvs["signed"] = Empty["signed"] BY <1>1, <1>2, Zenon DEF Outdated
<1> QED BY <1>3 DEF Empty

(* While a new certificate is stored, its key is in flash, or none is, or  *)
(* the old one is still to be replaced.                                    *)
LEMMA KeyPending ==
    ASSUME CertInv, op = "store", todo # <<>>, ~Outdated("key")
    PROVE  nvs.key = 0 \/ (HostStored /\ CertStored /\ KeyStored)
<1>1. CASE \E i \in DOMAIN todo : todo[i] = Call("key", made.key)
    <2>1. Call("key", made.key)[1] = "key" BY DEF Call
    <2>2. nvs["key"] = Empty["key"] BY <1>1, <2>1, Zenon DEF Outdated
    <2> QED BY <2>2 DEF Empty
<1>2. CASE ~\E i \in DOMAIN todo : todo[i] = Call("key", made.key)
    <2>1. todo # << Call("host", made.name), Call("cert", made), Call("key", made.key), Unsigned >>
        <3>1. todo = << Call("host", made.name), Call("cert", made), Call("key", made.key), Unsigned >>
                  => 3 \in DOMAIN todo /\ todo[3] = Call("key", made.key)
            OBVIOUS
        <3> QED BY <1>2, <3>1, Zenon
    <2>2. todo # << Call("cert", made), Call("key", made.key), Unsigned >>
        <3>1. todo = << Call("cert", made), Call("key", made.key), Unsigned >>
                  => 2 \in DOMAIN todo /\ todo[2] = Call("key", made.key)
            OBVIOUS
        <3> QED BY <1>2, <3>1, Zenon
    <2>3. todo # << Call("key", made.key), Unsigned >>
        <3>1. todo = << Call("key", made.key), Unsigned >>
                  => 1 \in DOMAIN todo /\ todo[1] = Call("key", made.key)
            OBVIOUS
        <3> QED BY <1>2, <3>1, Zenon
    <2> QED BY <2>1, <2>2, <2>3, Zenon DEF CertInv, StoreInv
<1> QED BY <1>1, <1>2

(* What an early end leaves is whole, where it is not tagged.              *)
LEMMA CutWhole ==
    ASSUME CertInv
    PROVE  /\ "key" \notin TornNow => Paired /\ OwnIsForHost
           /\ "signed" \notin TornNow => Anchored
<1>1. ASSUME "key" \notin TornNow PROVE Paired /\ OwnIsForHost
    <2>1. "key" \notin torn BY <1>1, TornGrows
    <2>2. CASE op # "store" \/ todo = <<>> BY <2>1, <2>2 DEF CertInv, OpInv, PairWhole
    <2>3. CASE op = "store" /\ todo # <<>>
        <3>1. ~Outdated("key") BY <1>1, <2>3, TornGrows
        <3>2. nvs.key = 0 \/ (HostStored /\ CertStored /\ KeyStored) BY <2>3, <3>1, KeyPending
        <3>3. made.key # 0 /\ made.name \in Hosts BY <2>3 DEF CertInv, StoreInv
        <3> QED BY <3>2, <3>3 DEF Paired, OwnIsForHost, HostStored, CertStored, KeyStored
    <2> QED BY <2>2, <2>3
<1>2. ASSUME "signed" \notin TornNow PROVE Anchored
    <2>1. "signed" \notin torn BY <1>2, TornGrows
    <2>2. CASE op \notin {"store", "install"} \/ todo = <<>> BY <2>1, <2>2 DEF CertInv, OpInv, AnchorWhole
    <2>3. CASE op \in {"store", "install"} /\ todo # <<>>
        <3>1. ~Outdated("signed") BY <1>2, <2>3, TornGrows
        <3>2. ~nvs.signed BY <2>3, <3>1, SignedPending
        <3> QED BY <3>2 DEF Anchored
    <2> QED BY <2>2, <2>3
<1> QED BY <1>1, <1>2

(* A failed call ends the series of a store or an installation.            *)
LEMMA RevertSkips ==
    ASSUME CertInv, op = "revert", todo # <<>>, todo' = Tail(todo), UNCHANGED <<promised, op>>
    PROVE  RevertInv'
<1>1. \/ todo' = << Call("cert", NoCert), Call("key", 0), Call("ca", Nobody), Unsigned >>
      \/ todo' = << Call("key", 0), Call("ca", Nobody), Unsigned >>
      \/ todo' = << Call("ca", Nobody), Unsigned >>
      \/ todo' = << Unsigned >>
      \/ todo' = <<>>
    <2>1. CASE todo = << Call("host", NoHost), Call("cert", NoCert), Call("key", 0), Call("ca", Nobody), Unsigned >>
        BY <2>1
    <2>2. CASE todo = << Call("cert", NoCert), Call("key", 0), Call("ca", Nobody), Unsigned >>
        BY <2>2
    <2>3. CASE todo = << Call("key", 0), Call("ca", Nobody), Unsigned >>
        BY <2>3
    <2>4. CASE todo = << Call("ca", Nobody), Unsigned >>
        BY <2>4
    <2>5. CASE todo = << Unsigned >>
        BY <2>5
    <2> QED BY <2>1, <2>2, <2>3, <2>4, <2>5 DEF CertInv, RevertInv
<1>2. promised' \in {NoCert, Wiped} BY DEF CertInv, RevertInv
<1> QED BY <1>1, <1>2 DEF RevertInv

LEMMA WriteFailsKeeps == ASSUME CertInv, WriteFails PROVE CertInv'
<1>0. /\ UNCHANGED <<nvs, hostname, stage, keys, server, clearing, restarting, promised>>
      /\ todo # <<>> /\ todo' = (IF op = "revert" THEN Tail(todo) ELSE <<>>)
      /\ op' = (IF op \in {"https", "install"} THEN "idle" ELSE op)
      /\ made' = (IF op = "store" THEN made ELSE NoCert)
      /\ torn' = TornNow
    BY DEF WriteFails
<1>2. op \in {"store", "https", "install", "revert"} /\ op' \in {"idle", "store", "revert"}
    BY <1>0 DEF CertInv, Typed, OpInv
<1>3. Typed' BY <1>0, <1>2, TornGrows, ConstantsTyped DEF CertInv, Typed
<1>4. stage' # "boot" BY <1>0, <1>2 DEF CertInv, OpInv
<1>5. PairWhole' /\ AnchorWhole'
    BY <1>0, CutWhole DEF PairWhole, AnchorWhole, Paired, OwnIsForHost, Anchored
<1>6. OpInv' BY <1>0, <1>2, <1>4, <1>5 DEF CertInv, OpInv
<1>7. StoreInv'
    <2> SUFFICES ASSUME op' = "store" PROVE StoreInv' BY DEF StoreInv
    <2>1. op = "store" /\ todo' = <<>> /\ made' = made BY <1>0
    <2>2. "signed" \notin torn' => ~nvs.signed
        BY <1>0, <2>1, TornGrows, SignedPending
    <2> QED BY <1>0, <2>1, <2>2 DEF CertInv, StoreInv
<1>8. InstallInv' BY <1>2 DEF InstallInv
<1>9. RevertInv'
    <2>1. CASE op # "revert" BY <2>1, <1>0, <1>2 DEF RevertInv
    <2>2. CASE op = "revert" BY <2>2, <1>0, RevertSkips
    <2> QED BY <2>1, <2>2
<1>10. PromiseInv' BY <1>0, <1>2 DEF CertInv, PromiseInv, InstalledStays, Loadable
<1> QED BY <1>3, <1>6, <1>7, <1>8, <1>9, <1>10 DEF CertInv

-----------------------------------------------------------------------------
(* Requests, boots and cuts.                                               *)

(* The variables a step leaves alone that only starts a server.            *)
LEMMA StartKeeps ==
    ASSUME CertInv, BootPlain \/ BootHttps \/ GenerateFails \/ Stored
    PROVE  CertInv'
<1>1. /\ UNCHANGED <<nvs, hostname, todo, keys, clearing, restarting, promised, torn>>
      /\ made' \in {made, NoCert} /\ stage' = "serving" /\ op' \in {op, "idle"} /\ (op' # op => op = "store" /\ todo = <<>>)
    BY DEF BootPlain, BootHttps, GenerateFails, Stored
<1>2. Typed' BY <1>1, ConstantsTyped DEF CertInv, Typed
<1>3. op # "store" => op' = op BY <1>1
<1>4. stage = "boot" \/ op = "store" BY DEF BootPlain, BootHttps, GenerateFails, Stored
<1>5. op' = "idle" /\ todo = <<>>
    BY <1>1, <1>4 DEF CertInv, OpInv, BootPlain, BootHttps, GenerateFails, Stored
<1>6. OpInv' BY <1>1, <1>5 DEF CertInv, OpInv, PairWhole, AnchorWhole, Paired, OwnIsForHost, Anchored
<1>7. PromiseInv' BY <1>1, <1>5 DEF CertInv, PromiseInv, InstalledStays, Loadable
<1> QED BY <1>2, <1>5, <1>6, <1>7 DEF CertInv, StoreInv, InstallInv, RevertInv

LEMMA GenerateKeeps == ASSUME CertInv, Generate PROVE CertInv'
<1> USE DEF CertInv
<1>1. /\ UNCHANGED <<nvs, hostname, server, clearing, restarting, promised, torn>>
      /\ keys' = keys + 1 /\ keys < MaxKeys /\ op' = "store" /\ stage' = "store" /\ hostname # NoHost /\ ~Loadable
      /\ made' = [key |-> keys', by |-> Nobody, name |-> hostname]
      /\ todo' = << <<"host", hostname>>, <<"cert", made'>>, <<"key", made'.key>>, <<"signed", FALSE>> >>
      /\ stage = "boot" /\ op = "idle" /\ todo = <<>>
    BY DEF Generate, OpInv, StoreWrites
<1>2. keys' \in 0..MaxKeys /\ keys' # 0 /\ hostname \in Hosts
    BY <1>1, BoundsAssumption DEF Typed, Names
<1>3. made' \in Certs /\ made'.by = Nobody /\ made'.key # 0 /\ made'.name = hostname
    BY <1>1, <1>2 DEF Certs, Names
<1>4. todo' = << Call("host", made'.name), Call("cert", made'), Call("key", made'.key), Unsigned >>
    BY <1>1, <1>3, Zenon DEF Call, Unsigned
<1>5. todo' # <<>> BY <1>4, Tuples
<1>7. promised \in {NoCert, Wiped} BY <1>1 DEF PromiseInv, InstalledStays
<1>8. Typed' BY <1>1, <1>2, <1>3 DEF Typed
<1>9. OpInv' BY <1>1, <1>5 DEF OpInv
<1>10. StoreInv' BY <1>1, <1>2, <1>3, <1>4 DEF StoreInv
<1> QED BY <1>1, <1>7, <1>8, <1>9, <1>10 DEF InstallInv, RevertInv, PromiseInv

LEMMA AnsweredKeeps == ASSUME CertInv, Answered PROVE CertInv'
<1> USE DEF CertInv
<1>1. /\ UNCHANGED <<nvs, hostname, stage, todo, keys, server, clearing, torn>> /\ made' = NoCert
      /\ op \in {"https", "install", "revert"} /\ todo = <<>> /\ op' = "idle" /\ restarting' = TRUE
      /\ promised' = IF op = "install" /\ promised # Wiped THEN made ELSE promised
    BY DEF Answered
<1>2. Typed' BY <1>1, ConstantsTyped DEF Typed
<1>3. OpInv' BY <1>1 DEF OpInv, PairWhole, AnchorWhole, Paired, OwnIsForHost, Anchored
<1>4. PromiseInv'
    <2>1. CASE op = "install" /\ promised # Wiped
        <3>1. nvs.cert = made /\ nvs.signed /\ nvs.key = made.key /\ nvs.host # NoHost /\ made.key # 0
            BY <1>1, <2>1, Tuples DEF InstallInv
        <3>2. made # NoCert BY <3>1 DEF NoCert
        <3> QED BY <1>1, <2>1, <3>1, <3>2 DEF PromiseInv, InstalledStays, Loadable
    <2>2. CASE ~(op = "install" /\ promised # Wiped)
        BY <1>1, <2>2 DEF PromiseInv, InstalledStays, Loadable
    <2> QED BY <2>1, <2>2
<1> QED BY <1>1, <1>2, <1>3, <1>4 DEF StoreInv, InstallInv, RevertInv

LEMMA ReadyIdle == ASSUME CertInv, Ready PROVE stage = "serving" /\ op = "idle" /\ todo = <<>>
BY DEF CertInv, OpInv, Ready

LEMMA HttpsKeeps == ASSUME CertInv, NEW on \in BOOLEAN, handleHttps(on) PROVE CertInv'
<1> USE DEF CertInv
<1>1. /\ UNCHANGED <<nvs, hostname, stage, made, keys, server, clearing, restarting, promised, torn>>
      /\ stage = "serving" /\ op = "idle" /\ todo = <<>> /\ op' = "https" /\ todo' = << <<"https", on>> >>
    BY ReadyIdle DEF handleHttps
<1>2. Typed' BY <1>1 DEF Typed
<1>3. todo' = << Call("https", on) >> BY <1>1, Zenon DEF Call
<1>4. OpInv' BY <1>1, <1>3 DEF OpInv, PairWhole, AnchorWhole, Paired, OwnIsForHost, Anchored
<1>5. PromiseInv' BY <1>1 DEF PromiseInv, InstalledStays, Loadable
<1> QED BY <1>1, <1>2, <1>4, <1>5 DEF StoreInv, InstallInv, RevertInv

LEMMA InstallKeeps == ASSUME CertInv, NEW ca \in CAs, NEW cert \in Certificates, handleInstall(cert, ca) PROVE CertInv'
<1> USE DEF CertInv
<1>1. /\ UNCHANGED <<nvs, hostname, stage, keys, server, clearing, restarting, torn>>
      /\ nvs.key # 0 /\ nvs.host # NoHost /\ cert.key = nvs.key /\ cert.by = ca
      /\ made' = cert /\ op' = "install" /\ promised' = NoCert
      /\ todo' = << <<"cert", cert>>, <<"ca", ca>>, <<"signed", TRUE>> >>
      /\ stage = "serving" /\ op = "idle" /\ todo = <<>>
    BY ReadyIdle DEF handleInstall, Verified, InstallWrites
<1>2. cert \in Certs
    <2>1. keys \in 0..MaxKeys /\ cert \in [key : 1..keys, by : CAs, name : {NoHost}] BY DEF Typed, Certificates
    <2> QED BY <2>1, BoundsAssumption DEF Certs, Names
<1>3. Typed' BY <1>1, <1>2, ConstantsTyped DEF Typed
<1>4. todo' = << Call("cert", made'), Call("ca", made'.by), Signed >>
    BY <1>1, Zenon DEF Call, Signed
<1>5. todo' # <<>> BY <1>4, Tuples
<1>6. OpInv' BY <1>1, <1>5 DEF OpInv, PairWhole, Paired, OwnIsForHost
<1>7. promised' # Wiped BY <1>1, ConstantsTyped
<1>8. InstallInv' BY <1>1, <1>4, <1>7 DEF InstallInv, KeyStored
<1>9. PromiseInv' BY <1>1 DEF PromiseInv
<1> QED BY <1>1, <1>3, <1>6, <1>8, <1>9 DEF StoreInv, RevertInv

LEMMA ResetKeeps == ASSUME CertInv, handleReset PROVE CertInv'
<1> USE DEF CertInv
<1>1. /\ UNCHANGED <<nvs, hostname, stage, made, keys, server, clearing, restarting, torn>>
      /\ op' = "revert" /\ promised' = NoCert
      /\ todo' = << <<"host", NoHost>>, <<"cert", NoCert>>, <<"key", 0>>, <<"ca", Nobody>>, <<"signed", FALSE>> >>
      /\ stage = "serving" /\ op = "idle" /\ todo = <<>>
    BY ReadyIdle DEF handleReset
<1>2. Typed' BY <1>1, ConstantsTyped DEF Typed
<1>3. todo' = << Call("host", NoHost), Call("cert", NoCert), Call("key", 0), Call("ca", Nobody), Unsigned >>
    BY <1>1, Zenon DEF Call, Unsigned
<1>4. todo' # <<>> BY <1>3, Tuples
<1>5. OpInv' BY <1>1, <1>4 DEF OpInv, PairWhole, AnchorWhole, Paired, OwnIsForHost, Anchored
<1>6. RevertInv' BY <1>1, <1>3 DEF RevertInv
<1>7. PromiseInv' BY <1>1 DEF PromiseInv
<1> QED BY <1>1, <1>2, <1>5, <1>6, <1>7 DEF StoreInv, InstallInv

(* The device name goes, or changes: a signed certificate stays loadable.  *)
LEMMA NameKeeps == ASSUME CertInv, factoryReset \/ \E host \in Hosts : Rename(host) PROVE CertInv'
<1> USE DEF CertInv
<1>1. CASE factoryReset
    <2>1. /\ UNCHANGED <<nvs, stage, todo, made, keys, server, restarting, promised, torn>>
          /\ hostname' = NoHost /\ clearing' = TRUE
          /\ op' = op \/ (op' = "clear" /\ stage = "serving" /\ op = "idle" /\ todo = <<>>)
        BY <1>1, ReadyIdle DEF factoryReset
    <2>2. Typed' BY <2>1 DEF Typed, Names
    <2>3. OpInv' BY <2>1 DEF OpInv, PairWhole, AnchorWhole, Paired, OwnIsForHost, Anchored
    <2>4. StoreInv' BY <2>1 DEF StoreInv, HostStored, CertStored, KeyStored
    <2>5. InstallInv' BY <2>1 DEF InstallInv, CertStored, KeyStored, CaStored
    <2>6. RevertInv' BY <2>1 DEF RevertInv
    <2>7. PromiseInv' BY <2>1 DEF PromiseInv, InstalledStays, Loadable
    <2> QED BY <2>2, <2>3, <2>4, <2>5, <2>6, <2>7
<1>2. CASE \E host \in Hosts : Rename(host)
    <2>1. PICK host \in Hosts : Rename(host) BY <1>2
    <2>2. /\ UNCHANGED <<nvs, stage, todo, op, made, keys, server, clearing, promised, torn>>
          /\ hostname' = host /\ restarting' = TRUE /\ op = "idle" /\ todo = <<>>
        BY <2>1, ReadyIdle DEF Rename
    <2>3. Typed' BY <2>2 DEF Typed, Names
    <2>4. OpInv' BY <2>2 DEF OpInv, PairWhole, AnchorWhole, Paired, OwnIsForHost, Anchored
    <2>5. PromiseInv' BY <2>2 DEF PromiseInv, InstalledStays, Loadable
    <2> QED BY <2>2, <2>3, <2>4, <2>5 DEF StoreInv, InstallInv, RevertInv
<1> QED BY <1>1, <1>2

LEMMA ClearKeeps == ASSUME CertInv, clearDeviceCert PROVE CertInv'
<1> USE DEF CertInv
<1>1. /\ UNCHANGED <<hostname, stage, todo, made, keys, server, torn>>
      /\ nvs' = Empty \/ nvs' \in PartlyErased
      /\ promised' = (IF op = "install" THEN Wiped ELSE NoCert)
      /\ clearing' = FALSE /\ restarting' = TRUE /\ op' = IF op = "clear" THEN "idle" ELSE op
    BY DEF clearDeviceCert
<1>2. nvs \in Entries /\ nvs' \in PartlyErased BY <1>1, EmptyIsErased DEF Typed
<1>3. /\ nvs' \in Entries /\ (Paired => Paired') /\ (OwnIsForHost => OwnIsForHost') /\ (Anchored => Anchored')
      /\ (HostStored => HostStored') /\ (CertStored => CertStored') /\ (KeyStored => KeyStored')
      /\ (CaStored => CaStored') /\ (nvs'.signed => nvs.signed)
    BY <1>1, <1>2, ErasedFits
<1>4. Typed' BY <1>1, <1>3, ConstantsTyped DEF Typed
<1>5. OpInv' BY <1>1, <1>3 DEF OpInv, PairWhole, AnchorWhole
<1>6. StoreInv' BY <1>1, <1>3 DEF StoreInv
<1>7. InstallInv'
    <2> SUFFICES ASSUME op' = "install" PROVE InstallInv' BY DEF InstallInv
    <2>1. op = "install" /\ promised' = Wiped BY <1>1
    <2> QED BY <1>1, <1>3, <2>1 DEF InstallInv
<1>8. RevertInv' BY <1>1 DEF RevertInv
<1>9. PromiseInv' BY <1>1 DEF PromiseInv
<1> QED BY <1>4, <1>5, <1>6, <1>7, <1>8, <1>9

LEMMA RebootKeeps == ASSUME CertInv, Reboot PROVE CertInv'
<1> USE DEF CertInv
<1>1. /\ UNCHANGED <<hostname, keys>>
      /\ UNCHANGED <<nvs, promised>> \/ (nvs' \in PartlyErased /\ promised' = NoCert)
      /\ stage' = "boot" /\ todo' = <<>> /\ op' = "idle" /\ made' = NoCert
      /\ clearing' = FALSE /\ restarting' = FALSE /\ torn' = IF nvs'.cert = NoCert THEN {} ELSE TornNow
    BY DEF Reboot
<1>2. nvs \in Entries BY DEF Typed
<1>3. /\ nvs' \in Entries /\ (Paired => Paired') /\ (OwnIsForHost => OwnIsForHost') /\ (Anchored => Anchored')
    <2>1. CASE nvs' = nvs BY <2>1, <1>2 DEF Paired, OwnIsForHost, Anchored
    <2>2. CASE nvs' \in PartlyErased BY <2>2, <1>2, ErasedFits
    <2> QED BY <1>1, <2>1, <2>2
<1>4. torn' \in SUBSET {"key", "signed"} BY <1>1, TornGrows
<1>5. Typed' BY <1>1, <1>3, <1>4, ConstantsTyped DEF Typed
<1>6. PairWhole' /\ AnchorWhole'
    <2>1. CASE nvs'.cert = NoCert BY <2>1 DEF PairWhole, AnchorWhole, Paired, OwnIsForHost, Anchored
    <2>2. CASE nvs'.cert # NoCert
        <3>1. torn' = TornNow BY <1>1, <2>2
        <3> QED BY <3>1, <1>3, CutWhole DEF PairWhole, AnchorWhole
    <2> QED BY <2>1, <2>2
<1>7. OpInv' BY <1>1, <1>6 DEF OpInv
<1>8. PromiseInv' BY <1>1 DEF PromiseInv, InstalledStays, Loadable
<1> QED BY <1>1, <1>5, <1>7, <1>8 DEF StoreInv, InstallInv, RevertInv

LEMMA CertInit == Init => CertInv
<1> SUFFICES ASSUME Init PROVE CertInv OBVIOUS
<1>1. Typed BY ConstantsTyped DEF Init, Typed, Names
<1>2. Empty.cert = NoCert /\ ~Empty.signed BY DEF Empty
<1>3. OpInv BY <1>2 DEF Init, OpInv, PairWhole, AnchorWhole, Paired, OwnIsForHost, Anchored
<1> QED BY <1>1, <1>3 DEF Init, CertInv, StoreInv, InstallInv, RevertInv, PromiseInv

LEMMA CertNext == CertInv /\ [Next]_vars => CertInv'
<1> SUFFICES ASSUME CertInv, [Next]_vars PROVE CertInv' OBVIOUS
<1>1. CASE Next
    BY <1>1, WriteKeeps, WriteFailsKeeps, StartKeeps, GenerateKeeps, AnsweredKeeps, HttpsKeeps, InstallKeeps, ResetKeeps, NameKeeps, ClearKeeps, RebootKeeps, Zenon DEF Next, Restart, PowerCut
<1>2. CASE UNCHANGED vars
    <2>1. Typed' BY <1>2 DEF CertInv, Typed, vars
    <2>2. OpInv' BY <1>2 DEF CertInv, OpInv, vars, PairWhole, AnchorWhole, Paired, OwnIsForHost, Anchored
    <2>3. StoreInv' BY <1>2 DEF CertInv, StoreInv, vars, HostStored, CertStored, KeyStored
    <2>4. InstallInv' /\ RevertInv' BY <1>2 DEF CertInv, InstallInv, RevertInv, vars, CertStored, KeyStored, CaStored
    <2>5. PromiseInv' BY <1>2 DEF CertInv, PromiseInv, InstalledStays, Loadable, vars
    <2> QED BY <2>1, <2>2, <2>3, <2>4, <2>5 DEF CertInv
<1> QED BY <1>1, <1>2

-----------------------------------------------------------------------------
(* The server is started with what is whole, and is off after a reboot.    *)
LEMMA StartedFits ==
    ASSUME CertInv, stage' = "serving", UNCHANGED <<nvs, hostname, clearing, restarting, torn>>, op' = "idle",
           \/ stage = "boot" /\ Loadable /\ server'.cert = nvs.cert /\ server'.key = nvs.key
           \/ op = "store" /\ todo = <<>> /\ server'.cert = made /\ server'.key = made.key
    PROVE  ServerInv'
<1>1. CASE stage = "boot" /\ Loadable /\ server'.cert = nvs.cert /\ server'.key = nvs.key
    <2>1. PairWhole /\ AnchorWhole BY <1>1 DEF CertInv, OpInv
    <2>2. "key" \notin torn => server'.cert.key = server'.key
        BY <1>1, <2>1 DEF PairWhole, Paired, Loadable
    <2>3. torn = {} /\ server'.cert.by = Nobody => server'.cert.name = hostname
        BY <1>1, <2>1 DEF PairWhole, AnchorWhole, OwnIsForHost, Anchored, Loadable
    <2>4. "signed" \notin torn /\ nvs.signed /\ nvs.ca # Nobody => server'.cert.by = nvs.ca
        BY <1>1, <2>1 DEF AnchorWhole, Anchored, Loadable
    <2> QED BY <2>2, <2>3, <2>4 DEF ServerInv
<1>2. CASE op = "store" /\ todo = <<>> /\ server'.cert = made /\ server'.key = made.key
    <2>1. /\ made.by = Nobody /\ (made.name = hostname \/ clearing \/ restarting)
          /\ "signed" \notin torn => ~nvs.signed
        BY <1>2, Tuples DEF CertInv, StoreInv
    <2> QED BY <1>2, <2>1 DEF ServerInv
<1> QED BY <1>1, <1>2

LEMMA HttpStarted ==
    ASSUME StartHttp
    PROVE  /\ server'.kind # "https" /\ ~server'.redirect
           /\ server'.sockets = server'.max /\ server'.sockets \in Nat
<1>1. Off \in [kind : {"off"}, cert : {NoCert}, key : {0}, max : {0}, sockets : {0}, redirect : {FALSE}]
    BY DEF Off
<1>o. Off.kind = "off" /\ ~Off.redirect /\ Off.sockets = 0 /\ Off.max = 0 BY DEF Off
<1>2. CASE server' = Off BY <1>o, <1>2
<1>3. CASE \E max \in MaxOpenSockets : server' = [Off EXCEPT !.kind = "http", !.max = max, !.sockets = max]
    <2>1. PICK max \in MaxOpenSockets : server' = [Off EXCEPT !.kind = "http", !.max = max, !.sockets = max]
        BY <1>3
    <2>2. server'.kind = "http" /\ server'.redirect = Off.redirect /\ server'.max = max /\ server'.sockets = max
        BY <1>1, <2>1
    <2> QED BY <1>o, <2>2, BoundsAssumption
<1> QED BY <1>2, <1>3 DEF StartHttp

LEMMA HttpsStarted ==
    ASSUME NEW cert, NEW key, StartHttps(cert, key)
    PROVE  server'.kind = "https" => server'.cert = cert /\ server'.key = key
BY HttpStarted DEF StartHttps

LEMMA ServerNext == CertInv /\ ServerInv /\ [Next]_vars => ServerInv'
<1> SUFFICES ASSUME CertInv, ServerInv, [Next]_vars PROVE ServerInv' OBVIOUS
<1>1. CASE BootPlain \/ GenerateFails
    <2>1. server'.kind # "https" BY <1>1, HttpStarted DEF BootPlain, GenerateFails
    <2> QED BY <2>1 DEF ServerInv
<1>2. CASE BootHttps
    <2>1. /\ UNCHANGED <<nvs, hostname, clearing, restarting, torn>> /\ stage = "boot" /\ Loadable
          /\ StartHttps(nvs.cert, nvs.key) /\ stage' = "serving" /\ op' = op /\ op = "idle"
        BY <1>2 DEF BootHttps, CertInv, OpInv
    <2>2. CASE server'.kind = "https"
        <3>1. server'.cert = nvs.cert /\ server'.key = nvs.key BY <2>1, <2>2, HttpsStarted
        <3> QED BY <2>1, <3>1, StartedFits
    <2> QED BY <2>2 DEF ServerInv
<1>3. CASE Stored
    <2>1. /\ UNCHANGED <<nvs, hostname, clearing, restarting, torn>> /\ op = "store" /\ todo = <<>>
          /\ StartHttps(made, made.key) /\ stage' = "serving" /\ op' = "idle"
        BY <1>3 DEF Stored
    <2>2. CASE server'.kind = "https"
        <3>1. server'.cert = made /\ server'.key = made.key BY <2>1, <2>2, HttpsStarted
        <3> QED BY <2>1, <3>1, StartedFits
    <2> QED BY <2>2 DEF ServerInv
<1>4. CASE Restart \/ PowerCut
    <2>1. server'.kind # "https" BY <1>4 DEF Restart, PowerCut, Reboot, Off
    <2> QED BY <2>1 DEF ServerInv
<1>5. CASE Generate
    <2>1. server'.kind # "https" BY <1>5 DEF Generate, ServerInv
    <2> QED BY <2>1 DEF ServerInv
<1>6. CASE Answered
    <2>1. UNCHANGED <<nvs, stage, server, torn>> /\ restarting' BY <1>6 DEF Answered
    <2> QED BY <2>1 DEF ServerInv
<1>7. CASE UNCHANGED vars BY <1>7 DEF vars, ServerInv
<1>8. CASE Write
    <2> SUFFICES ASSUME server'.kind = "https" PROVE ServerInv' BY DEF ServerInv
    <2>1. UNCHANGED <<stage, op, server, hostname, clearing, restarting>> /\ todo # <<>> BY <1>8 DEF Write
    <2>2. op # "store" /\ stage = "serving" BY <2>1 DEF ServerInv, CertInv, OpInv
    <2>3. torn' = torn BY <1>8, <2>2, CallMade
    <2>4. CASE op = "https"
        <3>1. PICK on \in BOOLEAN : todo = << Call("https", on) >> BY <2>1, <2>4 DEF CertInv, OpInv
        <3> DEFINE a == Call("https", on)
        <3>2. a[1] = "https" /\ a[2] = on BY DEF Call
        <3>a. todo = <<a>> BY <3>1, Zenon
        <3> HIDE DEF a
        <3>3. todo[1] = a BY <3>a
        <3>4. nvs' = [nvs EXCEPT !["https"] = on] BY <1>8, <3>2, <3>3, Zenon DEF Write
        <3>5. nvs'.ca = nvs.ca /\ nvs'.signed = nvs.signed
            BY <3>4 DEF CertInv, Typed, Entries
        <3> QED BY <2>1, <2>3, <3>5 DEF ServerInv
    <2>5. CASE op # "https"
        <3>1. op # "idle" BY <2>1 DEF CertInv, OpInv
        <3> QED BY <2>1, <2>3, <2>5, <3>1 DEF ServerInv
    <2> QED BY <2>4, <2>5
<1>9. CASE WriteFails
    <2> SUFFICES ASSUME server'.kind = "https" PROVE ServerInv' BY DEF ServerInv
    <2>1. /\ UNCHANGED <<nvs, stage, server, hostname, clearing, restarting>> /\ todo # <<>> /\ torn' = TornNow
          /\ op' = (IF op \in {"https", "install"} THEN "idle" ELSE op)
        BY <1>9 DEF WriteFails
    <2>2. torn \subseteq torn' BY <2>1, TornGrows
    <2>3. CASE op = "install"
        <3>1. "signed" \notin torn' => ~nvs.signed BY <2>1, <2>3, TornGrows, SignedPending
        <3> QED BY <2>1, <2>2, <3>1 DEF ServerInv
    <2>4. CASE op # "install" BY <2>1, <2>2, <2>4 DEF ServerInv
    <2> QED BY <2>3, <2>4
<1>10. CASE (\E on \in BOOLEAN : handleHttps(on)) \/ handleReset
           \/ \E ca \in CAs, cert \in Certificates : handleInstall(cert, ca)
    <2>1. UNCHANGED <<nvs, stage, server, hostname, clearing, restarting, torn>>
          /\ op' \in {"https", "revert", "install"} /\ op = "idle"
        BY <1>10, ReadyIdle DEF handleHttps, handleReset, handleInstall, Ready
    <2> QED BY <2>1 DEF ServerInv
<1>11. CASE factoryReset
    <2>1. UNCHANGED <<stage, server, torn>> /\ clearing' BY <1>11 DEF factoryReset
    <2> QED BY <2>1 DEF ServerInv
<1>12. CASE clearDeviceCert
    <2>1. UNCHANGED <<stage, server, torn>> /\ restarting' BY <1>12 DEF clearDeviceCert
    <2> QED BY <2>1 DEF ServerInv
<1>13. CASE \E host \in Hosts : Rename(host)
    <2>1. UNCHANGED <<stage, server, torn>> /\ restarting' BY <1>13 DEF Rename
    <2> QED BY <2>1 DEF ServerInv
<1> QED BY <1>1, <1>2, <1>3, <1>4, <1>5, <1>6, <1>7, <1>8, <1>9, <1>10, <1>11, <1>12, <1>13, Zenon DEF Next

LEMMA CertSafe == Spec => [](CertInv /\ ServerInv)
<1>1. Init => ServerInv BY DEF Init, ServerInv, Off
<1> QED BY <1>1, CertInit, CertNext, ServerNext, PTL DEF Spec

(* The limits the code has sockets for: below four it takes one for HTTPS  *)
(* and three for the redirect all the same.                                *)
EnoughSockets == \A max \in MaxOpenSockets : max >= 4

LEMMA SocketsSafe == ASSUME EnoughSockets PROVE Spec => []SocketsWithinLimit
<1>1. \A max \in MaxOpenSockets : max \in Nat /\ TlsSockets(max) + 3 = max
    BY BoundsAssumption, EnoughSockets DEF EnoughSockets, TlsSockets
<1>2. Init => SocketsWithinLimit BY DEF Init, SocketsWithinLimit, Off
<1>3. ASSUME StartHttp PROVE SocketsWithinLimit'
    BY <1>3, HttpStarted DEF SocketsWithinLimit
<1>4. ASSUME NEW cert, NEW key, StartHttps(cert, key) PROVE SocketsWithinLimit'
    <2>1. CASE StartHttp BY <2>1, <1>3
    <2>2. CASE \E max \in MaxOpenSockets, redirect \in BOOLEAN :
                 server' = [kind |-> "https", cert |-> cert, key |-> key, max |-> max,
                            sockets |-> TlsSockets(max), redirect |-> redirect]
        <3>1. PICK max \in MaxOpenSockets, redirect \in BOOLEAN :
                 server' = [kind |-> "https", cert |-> cert, key |-> key, max |-> max,
                            sockets |-> TlsSockets(max), redirect |-> redirect]
            BY <2>2
        <3>2. server'.max = max /\ server'.sockets = TlsSockets(max) BY <3>1
        <3>3. TlsSockets(max) \in Nat BY <1>1 DEF TlsSockets
        <3>4. server'.sockets + (IF server'.redirect THEN 3 ELSE 0) <= server'.max
            BY <1>1, <3>2, <3>3
        <3> QED BY <3>4 DEF SocketsWithinLimit
    <2> QED BY <1>4, <2>1, <2>2 DEF StartHttps
<1>5. SocketsWithinLimit /\ [Next]_vars => SocketsWithinLimit'
    <2> SUFFICES ASSUME SocketsWithinLimit, [Next]_vars PROVE SocketsWithinLimit' OBVIOUS
    <2>1. CASE BootPlain \/ GenerateFails \/ BootHttps \/ Stored
        BY <2>1, <1>3, <1>4 DEF BootPlain, GenerateFails, BootHttps, Stored
    <2>2. CASE Restart \/ PowerCut
        BY <2>2 DEF Restart, PowerCut, Reboot, Off, SocketsWithinLimit
    <2>3. CASE UNCHANGED server BY <2>3 DEF SocketsWithinLimit
    <2> QED BY <2>1, <2>2, <2>3 DEF Next, vars, Write, WriteFails, Generate, Answered, handleHttps,
        handleInstall, handleReset, factoryReset, clearDeviceCert, Rename
<1> QED BY <1>2, <1>5, PTL DEF Spec

-----------------------------------------------------------------------------
(* What HTTPS is started with fits: the certificate is for its key, a      *)
(* self-made one for the device's name, and with the redirect it takes no  *)
(* more sockets than HTTP alone; through power cuts, flash errors and      *)
(* resets between any two writes (DeviceCert.cpp, ServerHost.cpp).         *)
THEOREM HttpsStartFits == ASSUME EnoughSockets PROVE Spec => []ServedFits
<1>1. ServerInv /\ SocketsWithinLimit => ServedFits
    BY DEF ServerInv, ServedFits, PairMatches, SelfSignedIsForHost
<1> QED BY <1>1, CertSafe, SocketsSafe, PTL

(* The authority handed to browsers (loadTrustedCa) is the one that signed *)
(* the certificate in flash and the one that is presented; through cuts    *)
(* and errors in a first installation, in a store over self-signed entries *)
(* and inside nvs_erase_all, where an authority may stay without its       *)
(* certificate; unless a series that replaced a signed one was cut short.  *)
THEOREM AnchorSigned == Spec => []TrustAnchorSigned
<1>1. CertInv /\ ServerInv => TrustAnchorSigned
    <2> SUFFICES ASSUME CertInv, ServerInv, Quiet, "signed" \notin torn, nvs.signed, nvs.ca # Nobody
                 PROVE  /\ nvs.cert # NoCert => nvs.cert.by = nvs.ca
                        /\ server.kind = "https" /\ op = "idle" /\ ~clearing /\ ~restarting => server.cert.by = nvs.ca
        BY DEF TrustAnchorSigned
    <2>1. Anchored BY DEF CertInv, OpInv, AnchorWhole, Quiet
    <2> QED BY <2>1 DEF Anchored, ServerInv
<1> QED BY <1>1, CertSafe, PTL

(* An installation answered with success is what every later start finds,  *)
(* with its key, whatever the device is called by then, until the user     *)
(* replaces, reverts or resets it (installSignedDeviceCert, loadStored).   *)
THEOREM InstallationStays == Spec => []InstalledStays
<1>1. CertInv => InstalledStays
    BY DEF CertInv, PromiseInv, InstalledStays
<1> QED BY <1>1, CertSafe, PTL
=============================================================================
