-------------------------- MODULE KeyExchangeProofs --------------------------
(***************************************************************************)
(* KeyExchange for any number of exchanges, any preferences and offers and *)
(* any packets under way.  The inductive invariant says, for each pair of  *)
(* positions of client and server, which packets are under way in either   *)
(* direction and with which keys they are sealed.                          *)
(***************************************************************************)
EXTENDS KeyExchange, NaturalsInduction, WellFoundedInduction, TLAPS

Talk == {"data", "global"}
Stuff == {"channel", "answer"}
Agreed == {"request", "getgroup", "init", "getreply", "newkeys", "getnewkeys"}

Method == Chosen(CryptPrefs, peer.offer.crypt)
Common == Chosen(KexPrefs, peer.offer.kex) # None /\ Method # None

(* The seal of exchange n while the methods stay the same.                  *)
SealOf(n) == Seal(Method, n, 1)

PeerSeals == Seals \cup ({None} \X (1..MaxRounds) \X {1})
PeerRecords ==
    [pos : {"kexinit", "getkexinit", "getrequest", "getnewkeys", "idle", "closed"},
     round : 0..MaxRounds, offer : Offers, changed : BOOLEAN,
     in : Seals, out : Seals, next : PeerSeals,
     complaint : {None, "seal"}]

(* The half sent packet is the one that the next call gives again, or an    *)
(* answer that no call knows of.                                            *)
HalfOK ==
    /\ half # None =>
          \/ half.type \in Sending /\ half.type = pos /\ ~jump
          \/ half.type = "channel" /\ pos = "idle" /\ api = "send" /\ ~jump
          \/ half.type = "answer" /\ pos = "idle" /\ jump
    /\ jump => half # None

(* The brigade holds at most the packet that the exchange needs next.       *)
PacketsOK ==
    /\ \/ packets = {}
       \/ pos \in DOMAIN Awaits /\ packets = {Awaits[pos]}
       \/ pos = "kexinit" /\ packets = {"kexinit"}
    /\ pos \in {"kexinit", "getkexinit"} /\ packets = {} => round = 1

KeysOK ==
    /\ keys \in {round - 1, round}
    /\ pos # "idle" => keys = round - 1
    /\ session_id = IF keys = 0 THEN 0 ELSE 1
    /\ keys > 0 \/ pos \in Agreed =>
          crypt \in Methods /\ (~peer.changed => crypt = Method)

(* Where the two ends can be at the same time.                              *)
EndsOK ==
    /\ peer.pos = "kexinit" =>
          peer.round = 0 /\ round = 1 /\ pos \in {"kexinit", "getkexinit"}
    /\ peer.pos = "getkexinit" =>
          \/ /\ peer.round = round /\ pos \notin {"newkeys", "getnewkeys"}
             /\ pos = "idle" => keys # round /\ ~Common
          \/ /\ peer.round = round + 1 /\ pos \in {"getnewkeys", "idle"}
             /\ pos = "idle" => keys = round
    /\ peer.pos = "getrequest" =>
          /\ peer.round = round /\ Common
          /\ pos \in {"getkexinit", "request", "getgroup", "init", "getreply"}
    /\ peer.pos = "getnewkeys" =>
          /\ peer.round = round
          /\ pos \in {"getreply", "newkeys", "getnewkeys", "idle"}
          /\ pos = "idle" => keys = round
    /\ peer.pos = "idle" =>
          /\ peer.round = round /\ pos \in {"getnewkeys", "idle"}
          /\ pos = "idle" => keys = round

(* What is under way to the server.                                         *)
IsStuff(k) == c2s[k].type \in Stuff

Outbound ==
    LET n == Len(c2s)
        last(type) == n >= 1 /\ c2s[n].type = type
    IN
    /\ peer.pos = "kexinit" =>
          /\ pos = "kexinit" => n = 0
          /\ pos = "getkexinit" => n = 1 /\ last("kexinit")
    /\ peer.pos = "getkexinit" /\ peer.round = round =>
          /\ pos = "kexinit" => \A k \in 1..n : IsStuff(k)
          /\ pos \in {"getkexinit", "request", "init"} =>
                last("kexinit") /\ \A k \in 1..(n - 1) : IsStuff(k)
          /\ pos \in {"getgroup", "getreply"} =>
                /\ last(IF pos = "getgroup" THEN "request" ELSE "init")
                /\ n >= 2 /\ c2s[n - 1].type = "kexinit"
                /\ \A k \in 1..(n - 2) : IsStuff(k)
          /\ pos = "idle" =>
                \A k \in 1..n : IsStuff(k) \/ c2s[k].type = "kexinit"
    /\ (peer.pos = "getkexinit" /\ peer.round # round) \/ peer.pos = "idle" =>
          /\ pos = "getnewkeys" => n = 0
          /\ pos = "idle" => \A k \in 1..n : IsStuff(k)
    /\ peer.pos = "getrequest" =>
          /\ pos \in {"getkexinit", "request", "init"} => n = 0
          /\ pos = "getgroup" => n = 0 \/ (n = 1 /\ last("request"))
          /\ pos = "getreply" => n = 1 /\ last("init")
    /\ peer.pos = "getnewkeys" =>
          /\ pos \in {"getreply", "newkeys"} => n = 0
          /\ pos = "getnewkeys" => n = 1 /\ last("newkeys")
          /\ pos = "idle" => /\ n >= 1 /\ c2s[1].type = "newkeys"
                             /\ \A k \in 2..n : IsStuff(k)

(* What is under way to the client, until it fails to open a packet: type   *)
(* by type, where the client and the server are then.                       *)
Inbound(k) ==
    LET type == s2c[k].type
        n == Len(s2c)
    IN
    /\ type \in {"kexinit", "group", "reply", "newkeys"} \cup Talk
    /\ type = "kexinit" =>
          /\ k = n
          /\ \/ /\ pos \in {"kexinit", "getkexinit"} /\ packets = {} /\ n = 1
                /\ peer.round = round
                /\ peer.pos \in {"getkexinit", "getrequest", "closed"}
             \/ /\ pos \in {"getnewkeys", "idle"} /\ peer.round = round + 1
                /\ peer.pos \in {"getkexinit", "closed"}
                /\ pos = "getnewkeys" => packets = {"newkeys"} \/ k > 1
    /\ type = "group" => pos = "getgroup" /\ packets = {} /\ n = 1
    /\ type = "reply" => pos = "getreply" /\ packets = {} /\ k = 1
    /\ type = "newkeys" =>
          \/ pos = "getreply" /\ packets = {} /\ k = 2
          \/ pos = "getreply" /\ packets = {"reply"} /\ k = 1
          \/ pos = "newkeys" /\ k = 1
          \/ pos = "getnewkeys" /\ packets = {} /\ k = 1
    /\ type \in Talk =>
          \/ pos = "getreply" /\ packets = {} /\ k > 2
          \/ pos = "getreply" /\ packets = {"reply"} /\ k > 1
          \/ pos = "newkeys" /\ k > 1
          \/ pos = "getnewkeys" /\ (packets = {"newkeys"} \/ k > 1)
          \/ pos = "idle" /\ keys = round

HasType(type) == packets = {type} \/ \E k \in 1..Len(s2c) : s2c[k].type = type

(* Which of the exchange's packets the client has yet to get.               *)
Pending ==
    /\ peer.pos = "kexinit" => s2c = <<>> /\ packets = {}
    /\ packets = {"kexinit"} => /\ peer.round = round
                                /\ peer.pos \in {"getkexinit", "getrequest", "closed"}
    /\ HasType("group") => \/ peer.pos = "closed"
                           \/ peer.pos = "getrequest" /\ c2s = <<>>
    /\ pos = "getgroup" /\ peer.pos = "getrequest" /\ c2s # <<>> =>
          s2c = <<>> /\ packets = {}
    /\ pos = "getreply" /\ peer.pos \in {"getkexinit", "getrequest"} =>
          s2c = <<>> /\ packets = {}
    /\ pos = "getreply" /\ peer.pos = "getnewkeys" =>
          Len(s2c) >= IF packets = {} THEN 2 ELSE 1
    /\ pos = "newkeys" /\ peer.pos # "closed" => Len(s2c) >= 1
    /\ pos = "getnewkeys" /\ packets = {} /\ peer.pos # "closed" => Len(s2c) >= 1
    /\ pos = "idle" /\ keys # round => s2c = <<>>

InboundOK == failed # "mac" => Pending /\ \A k \in 1..Len(s2c) : Inbound(k)

(* The seals, while the methods have not changed.                           *)
ServerSealsOK ==
    /\ peer.pos \in {"getrequest", "getnewkeys"} => peer.next \in Seals
    /\ ~peer.changed =>
          /\ peer.pos = "kexinit" => peer.in = SealOf(0) /\ peer.out = SealOf(0)
          /\ peer.pos \in {"getkexinit", "getrequest"} =>
                peer.in = SealOf(peer.round - 1) /\ peer.out = SealOf(peer.round - 1)
          /\ peer.pos \in {"getrequest", "getnewkeys"} => peer.next = SealOf(peer.round)
          /\ peer.pos = "getnewkeys" =>
                peer.in = SealOf(peer.round - 1) /\ peer.out = SealOf(peer.round)
          /\ peer.pos = "idle" =>
                peer.in = SealOf(peer.round) /\ peer.out = SealOf(peer.round)

InSeal(k) ==
    s2c[k].seal = IF \/ s2c[k].type \in Talk
                     \/ s2c[k].type = "kexinit" /\ pos \in {"getnewkeys", "idle"}
                  THEN SealOf(round) ELSE SealOf(round - 1)

OutSeal(k) ==
    c2s[k].seal = IF c2s[k].type \in Stuff THEN SealOf(keys) ELSE SealOf(round - 1)

SealsOK ==
    ~peer.changed =>
        /\ failed # "mac" /\ peer.complaint = None
        /\ half # None => half.seal = SealOf(keys)
        /\ \A k \in 1..Len(s2c) : InSeal(k)
        /\ peer.pos # "closed" => \A k \in 1..Len(c2s) : OutSeal(k)

IInv ==
    /\ TypeOK /\ peer \in PeerRecords
    /\ OnlyAnswersInTheWay
    /\ HalfOK /\ PacketsOK /\ KeysOK
    /\ EndsOK /\ Outbound /\ InboundOK
    /\ ServerSealsOK /\ SealsOK

-----------------------------------------------------------------------------
(* What the exchange waits for and where it goes on, position by position.  *)
LEMMA Positions ==
    /\ DOMAIN Awaits = {"getkexinit", "getgroup", "getreply", "getnewkeys"}
    /\ Awaits["getkexinit"] = "kexinit" /\ Awaits["getgroup"] = "group"
    /\ Awaits["getreply"] = "reply" /\ Awaits["getnewkeys"] = "newkeys"
    /\ After["kexinit"] = "getkexinit" /\ After["request"] = "getgroup"
    /\ After["init"] = "getreply" /\ After["newkeys"] = "getnewkeys"
  BY DEF Awaits, After, Sending

(* The least element that Agree chooses exists, so client and server take   *)
(* the same method from the same offer.                                     *)
LEMMA AgreeIsChosen ==
  ASSUME NEW prefs, NEW offer, Len(prefs) \in Nat, DOMAIN prefs = 1..Len(prefs)
  PROVE  /\ Agree(prefs, offer) = Chosen(prefs, offer)
         /\ Chosen(prefs, offer) \in {prefs[i] : i \in DOMAIN prefs} \cup {None}
  <1> DEFINE common == {i \in DOMAIN prefs : prefs[i] \in offer}
  <1>1. CASE common = {}
    <2>1. First(prefs, offer) = {}
      BY <1>1 DEF First
    <2> QED BY <1>1, <2>1 DEF Agree, Chosen
  <1>2. CASE common # {}
    <2>1. common \subseteq Nat
      OBVIOUS
    <2> DEFINE R == {ss \in Nat \X Nat : ss[1] < ss[2]}
    <2>2. PICK i \in common : \A j \in common : <<j, i>> \notin R
      <3>1. IsWellFoundedOn(R, Nat)
        BY NatLessThanWellFounded DEF OpToRel
      <3> HIDE DEF R, common
      <3> QED BY <1>2, <2>1, <3>1, WFMin
    <2>3. \A j \in common : i <= j
      <3>1. \A j \in Nat : j < i => <<j, i>> \in R
        BY <2>1
      <3> HIDE DEF R, common
      <3>2. \A j \in common : ~(j < i)
        BY <2>1, <2>2, <3>1, Zenon
      <3> QED BY <2>1, <3>2
    <2>4. First(prefs, offer) = {i}
      <3>1. i \in First(prefs, offer)
        BY <2>3 DEF First
      <3>2. ASSUME NEW j \in First(prefs, offer) PROVE j = i
        BY <2>3, <3>2 DEF First
      <3> QED BY <3>1, <3>2
    <2>5. (CHOOSE j \in First(prefs, offer) : TRUE) = i
      BY <2>4
    <2>6. (CHOOSE j \in common : \A l \in common : j <= l) = i
      BY <2>1, <2>3
    <2>7. Agree(prefs, offer) = prefs[i]
      BY <1>2, <2>6 DEF Agree
    <2>8. Chosen(prefs, offer) = prefs[i]
      BY <2>4, <2>5 DEF Chosen
    <2> QED BY <2>7, <2>8
  <1> QED BY <1>1, <1>2

(* The two uses that kex_agree_methods makes of it.                         *)
LEMMA AgreedMethods ==
  ASSUME NEW o
  PROVE  /\ Agree(KexPrefs, o) = Chosen(KexPrefs, o)
         /\ Agree(CryptPrefs, o) = Chosen(CryptPrefs, o)
         /\ Chosen(KexPrefs, o) \in {None, "gex", "group"}
         /\ Chosen(CryptPrefs, o) \in Methods \cup {None}
         /\ None \notin Methods
  <1>1. DOMAIN KexPrefs = 1..Len(KexPrefs) /\ Len(KexPrefs) \in Nat
    BY KeyExchangeAssumption
  <1>2. {KexPrefs[i] : i \in DOMAIN KexPrefs} \subseteq {"gex", "group"}
    BY KeyExchangeAssumption
  <1>3. DOMAIN CryptPrefs = 1..Len(CryptPrefs) /\ Len(CryptPrefs) \in Nat
    BY KeyExchangeAssumption
  <1>4. None \notin Methods
    BY KeyExchangeAssumption DEF Methods
  <1> QED BY <1>1, <1>2, <1>3, <1>4, AgreeIsChosen DEF Methods

(* What the client seals a packet with.                                     *)
LEMMA ClientSealIs ==
  ASSUME TypeOK, KeysOK
  PROVE  /\ ClientSeal \in Seals
         /\ ~peer.changed => ClientSeal = SealOf(keys)
  <1>1. MaxRounds \in Nat /\ keys \in 0..MaxRounds /\ session_id \in 0..MaxRounds
    BY KeyExchangeAssumption DEF TypeOK
  <1>2. CASE keys = 0
    BY <1>2 DEF ClientSeal, SealOf, Seal, Seals
  <1>3. CASE keys > 0
    <2>1. crypt \in Methods /\ session_id = 1 /\ (~peer.changed => crypt = Method)
      BY <1>1, <1>3 DEF KeysOK
    <2>2. keys \in 1..MaxRounds /\ keys # 0
      BY <1>1, <1>3
    <2>3. <<crypt, keys, session_id>> \in Seals
      BY <1>1, <2>1, <2>2 DEF Seals
    <2> QED BY <2>1, <2>2, <2>3 DEF ClientSeal, SealOf, Seal
  <1> QED BY <1>1, <1>2, <1>3

(* The packets under way, kept opaque in what follows.                      *)
Packets == [type : Types, seal : Seals]

(* What Append, Tail and Append again do to packets under way.              *)
LEMMA AppendPackets ==
  ASSUME NEW q \in Seq(Packets), NEW p \in Packets
  PROVE  /\ Append(q, p) \in Seq(Packets)
         /\ Len(q) \in Nat
         /\ Len(Append(q, p)) = Len(q) + 1
         /\ Append(q, p) # <<>>
         /\ \A k \in 1..Len(q) : Append(q, p)[k] = q[k]
         /\ Append(q, p)[Len(q) + 1] = p
  OBVIOUS

LEMMA TailPackets ==
  ASSUME NEW q \in Seq(Packets), q # <<>>
  PROVE  /\ Tail(q) \in Seq(Packets)
         /\ Len(q) \in Nat /\ Len(q) >= 1
         /\ Len(Tail(q)) = Len(q) - 1
         /\ \A k \in 1..(Len(q) - 1) : Tail(q)[k] = q[k + 1]
         /\ Head(q) = q[1] /\ Head(q) \in Packets
  OBVIOUS

LEMMA NoPackets ==
  ASSUME NEW q \in Seq(Packets)
  PROVE  Len(q) \in Nat /\ (q = <<>> <=> Len(q) = 0)
  OBVIOUS

(* One packet goes to the server, whether it was given before or not.       *)
SendEffect(type) ==
    /\ half' = None /\ Len(c2s) < MaxQueue /\ Len(c2s) \in Nat
    /\ c2s' \in Seq(Packets) /\ Len(c2s') = Len(c2s) + 1
    /\ \A k \in 1..Len(c2s) : c2s'[k] = c2s[k]
    /\ c2s'[Len(c2s) + 1].type = type
    /\ ~peer.changed => c2s'[Len(c2s) + 1].seal = SealOf(keys)

LEMMA SendsOne ==
  ASSUME IInv, NEW type \in Types, Sends(type)
  PROVE  SendEffect(type)
  <1>1. c2s \in Seq(Packets)
    BY DEF IInv, TypeOK, Packets
  <1>2. ClientSeal \in Seals /\ (~peer.changed => ClientSeal = SealOf(keys))
    BY ClientSealIs DEF IInv
  <1>3. CASE half = None
    <2> DEFINE p == Packet(type, ClientSeal)
    <2>1. p \in Packets /\ p.type = type /\ p.seal = ClientSeal
      BY <1>2 DEF Packet, Packets
    <2>2. c2s' = Append(c2s, p) /\ half' = None /\ Len(c2s) < MaxQueue
      BY <1>3 DEF Sends
    <2> HIDE DEF p
    <2> QED BY <1>1, <1>2, <2>1, <2>2, AppendPackets DEF SendEffect
  <1>4. CASE half # None
    <2>1. half \in Packets
      BY <1>4 DEF IInv, TypeOK, Packets
    <2>2. c2s' = Append(c2s, half) /\ half' = None /\ Len(c2s) < MaxQueue /\ half.type = type
      BY <1>4 DEF Sends
    <2>3. ~peer.changed => half.seal = SealOf(keys)
      BY <1>4 DEF IInv, SealsOK
    <2> QED BY <1>1, <2>1, <2>2, <2>3, AppendPackets DEF SendEffect
  <1> QED BY <1>3, <1>4

(* A packet is kept back.                                                   *)
AgainEffect(type) ==
    /\ half = None /\ half' # None
    /\ half' \in Packets /\ half'.type = type /\ UNCHANGED c2s
    /\ ~peer.changed => half'.seal = SealOf(keys)

LEMMA AgainKeeps ==
  ASSUME IInv, NEW type \in Types, Again(type)
  PROVE  AgainEffect(type)
  <1>1. ClientSeal \in Seals /\ (~peer.changed => ClientSeal = SealOf(keys))
    BY ClientSealIs DEF IInv
  <1>2. Packet(type, ClientSeal) \in Packets
    BY <1>1 DEF Packet, Packets
  <1>3. None \notin Packets
    BY NoneIsNoPacket DEF Packets
  <1>4. half' = Packet(type, ClientSeal)
    BY DEF Again
  <1>5. half'.type = type /\ half'.seal = ClientSeal
    BY <1>4 DEF Packet
  <1> QED BY <1>1, <1>2, <1>3, <1>4, <1>5 DEF Again, AgainEffect

-----------------------------------------------------------------------------
(* The exchange gives a packet to the transport.                            *)
LEMMA KexSendKeeps ==
  ASSUME IInv, KexSend
  PROVE  IInv'
  <1> USE DEF Sending, Packets
  <1>1. pos \in Types /\ jump = FALSE
    BY DEF IInv, TypeOK, HalfOK, KexSend, Types
  <1>2. ~Refused(pos)
    BY DEF IInv, HalfOK, KexSend, Refused
  <1>3. UNCHANGED <<round, kex, crypt, keys, session_id, packets, unread, api,
                    jump, badUse, failed, peer, s2c>>
    BY <1>2 DEF KexSend, BadUse
  <1>4. CASE Sends(pos) /\ pos' = After[pos]
    <2>1. SendEffect(pos)
      BY <1>1, <1>4, SendsOne
    <2>2. \/ pos = "kexinit" /\ pos' = "getkexinit"
          \/ pos = "request" /\ pos' = "getgroup"
          \/ pos = "init" /\ pos' = "getreply"
          \/ pos = "newkeys" /\ pos' = "getnewkeys"
      BY <1>4, Positions DEF KexSend
    <2>3. TypeOK' /\ (peer \in PeerRecords)' /\ OnlyAnswersInTheWay'
      BY <1>3, <2>1, <2>2, Positions, KeyExchangeAssumption
         DEF SendEffect, IInv, TypeOK, OnlyAnswersInTheWay, PeerRecords, PeerSeals,
             Types, Seals, Methods
    <2>4. HalfOK'
      BY <1>1, <1>3, <2>1 DEF SendEffect, HalfOK
    <2>5. PacketsOK' /\ KeysOK'
      BY <1>3, <2>2, Positions DEF IInv, PacketsOK, KeysOK, Agreed, Method, Methods
    <2>6. EndsOK'
      BY <1>3, <2>2 DEF IInv, EndsOK, Common, Method
    <2>7. Outbound'
      BY <1>3, <2>1, <2>2 DEF IInv, EndsOK, Outbound, SendEffect, IsStuff, Stuff, Common
    <2>8. InboundOK'
      <3> SUFFICES ASSUME failed # "mac" PROVE Pending' /\ \A k \in 1..Len(s2c) : Inbound(k)'
        BY <1>3 DEF InboundOK
      <3>1. s2c \in Seq(Packets) /\ packets \in {{}, {"kexinit"}}
        BY <2>2, Positions DEF IInv, TypeOK, PacketsOK
      <3>2. \A k \in 1..Len(s2c) : Inbound(k)
        BY DEF IInv, InboundOK
      <3>3. \A k \in 1..Len(s2c) : Inbound(k)'
        BY <1>3, <2>2, <3>2, Positions DEF Inbound, IInv, PacketsOK
      <3>4. pos \in {"request", "init"} => s2c = <<>> /\ packets = {}
        <4> SUFFICES ASSUME pos \in {"request", "init"} PROVE Len(s2c) = 0 /\ packets = {}
          BY <3>1, NoPackets
        <4>1. \A k \in 1..Len(s2c) : FALSE
          BY <3>2 DEF Inbound, Talk
        <4> QED BY <3>1, <4>1, NoPackets, Positions DEF IInv, PacketsOK
      <3>5. Pending
        BY DEF IInv, InboundOK
      <3>6. ~HasType("group")'
        BY <1>3, <3>1, <3>2, <2>2 DEF HasType, Inbound
      <3> QED BY <1>3, <2>2, <3>3, <3>4, <3>5, <3>6, Positions DEF Pending, IInv, EndsOK, PacketsOK
    <2>9. ServerSealsOK'
      BY <1>3 DEF IInv, ServerSealsOK, SealOf, Method, Seals, Methods
    <2>10. SealsOK'
      <3> SUFFICES ASSUME ~peer.changed PROVE SealsOK'
        BY <1>3 DEF SealsOK
      <3>1. /\ failed # "mac" /\ peer.complaint = None
            /\ \A k \in 1..Len(s2c) : InSeal(k) /\ Inbound(k)
            /\ peer.pos # "closed" => \A k \in 1..Len(c2s) : OutSeal(k)
        BY DEF IInv, SealsOK, InboundOK
      <3>2. \A n : SealOf(n)' = SealOf(n)
        BY <1>3 DEF SealOf, Method
      <3>3. \A k \in 1..Len(s2c) : InSeal(k)'
        BY <1>3, <2>2, <3>1, <3>2 DEF InSeal, Inbound
      <3>4. ASSUME NEW k \in 1..Len(c2s'), peer.pos # "closed" PROVE OutSeal(k)'
        <4>1. CASE k \in 1..Len(c2s)
          BY <1>3, <2>1, <3>1, <3>2, <3>4, <4>1 DEF OutSeal, SendEffect
        <4>2. CASE k = Len(c2s) + 1
          BY <1>3, <2>1, <2>2, <3>2, <4>2 DEF OutSeal, SendEffect, Stuff, IInv, KeysOK
        <4> QED BY <2>1, <4>1, <4>2 DEF SendEffect
      <3> QED BY <1>3, <2>1, <3>1, <3>3, <3>4 DEF SealsOK, SendEffect
    <2> QED BY <2>3, <2>4, <2>5, <2>6, <2>7, <2>8, <2>9, <2>10 DEF IInv
  <1>5. CASE Again(pos) /\ UNCHANGED pos
    <2>1. AgainEffect(pos)
      BY <1>1, <1>5, AgainKeeps
    <2>3. TypeOK' /\ (peer \in PeerRecords)' /\ OnlyAnswersInTheWay'
      BY <1>3, <1>5, <2>1
         DEF AgainEffect, IInv, TypeOK, OnlyAnswersInTheWay, PeerRecords, PeerSeals,
             Types, Seals, Methods
    <2>4. HalfOK'
      BY <1>1, <1>3, <1>5, <2>1 DEF AgainEffect, HalfOK, KexSend
    <2>5. PacketsOK' /\ KeysOK' /\ EndsOK' /\ Outbound' /\ InboundOK' /\ ServerSealsOK'
      BY <1>3, <1>5, <2>1 DEF AgainEffect, IInv, PacketsOK, KeysOK, Agreed, Method, Methods,
         EndsOK, Common, Outbound, IsStuff, InboundOK, Pending, Inbound, HasType,
         ServerSealsOK, SealOf, Seals
    <2>6. SealsOK'
      BY <1>3, <1>5, <2>1 DEF AgainEffect, IInv, SealsOK, InSeal, OutSeal, SealOf, Method
    <2> QED BY <2>3, <2>4, <2>5, <2>6 DEF IInv
  <1> QED BY <1>2, <1>4, <1>5 DEF KexSend, BadUse

(* A client that has not failed knows of every packet under way to it, and  *)
(* takes the one packet that is in the brigade.                             *)
LEMMA Waiting ==
  ASSUME IInv, failed = None, Ready
  PROVE  /\ pos \in {"getkexinit", "getgroup", "getreply", "getnewkeys"}
         /\ half = None /\ jump = FALSE
         /\ packets = {Awaits[pos]} /\ packets # {} /\ packets \ {Awaits[pos]} = {}
         /\ Pending /\ \A k \in 1..Len(s2c) : Inbound(k)
         /\ s2c \in Seq(Packets) /\ Len(s2c) \in Nat
         /\ pos \in {"getkexinit", "getgroup"} => s2c = <<>>
  <1>1. pos \in {"getkexinit", "getgroup", "getreply", "getnewkeys"}
    BY Positions DEF Ready
  <1>2. half = None /\ jump = FALSE
    BY <1>1 DEF IInv, HalfOK, Sending, TypeOK
  <1>3. packets = {Awaits[pos]}
    BY <1>1, Positions DEF Ready, IInv, PacketsOK
  <1>4. failed # "mac"
    BY KeyExchangeAssumption
  <1>5. Pending /\ \A k \in 1..Len(s2c) : Inbound(k)
    BY <1>4 DEF IInv, InboundOK
  <1>6. s2c \in Seq(Packets)
    BY DEF IInv, TypeOK, Packets
  <1>7. ASSUME pos \in {"getkexinit", "getgroup"} PROVE s2c = <<>>
    <2>1. packets \in {{"kexinit"}, {"group"}}
      BY <1>3, <1>7, Positions
    <2>2. \A k \in 1..Len(s2c) : FALSE
      BY <1>5, <1>7, <2>1 DEF Inbound, Talk
    <2> QED BY <1>6, <2>2, NoPackets
  <1> QED BY <1>1, <1>2, <1>3, <1>5, <1>6, <1>7, NoPackets

(* The exchange takes the server's KEXINIT and sets the ciphers.            *)
LEMMA KexAgreeKeeps ==
  ASSUME IInv, failed = None, KexAgree
  PROVE  IInv'
  <1>1. /\ half = None /\ jump = FALSE /\ pos = "getkexinit"
        /\ packets = {"kexinit"} /\ packets' = {}
        /\ Pending /\ s2c = <<>> /\ Len(s2c) = 0
    BY Waiting, Positions, NoPackets DEF KexAgree, Took
  <1>2. UNCHANGED <<round, keys, session_id, unread, api, half, jump, badUse, peer, c2s, s2c>>
    BY DEF KexAgree
  <1>3. keys = round - 1 /\ keys # round /\ round \in Nat
    BY <1>1 DEF IInv, KeysOK, TypeOK
  <1>4. \/ /\ ~Common /\ pos' = "idle" /\ crypt' = crypt
           /\ failed' \in {None, "kex"}
        \/ /\ pos' \in {"request", "init"} /\ crypt' = Method /\ crypt' \in Methods
           /\ failed' = failed
    BY AgreedMethods DEF KexAgree, Common, Method
  <1>5. kex' \in {None, "gex", "group"} /\ failed' # "mac"
    BY <1>4, AgreedMethods, KeyExchangeAssumption DEF KexAgree
  <1>6. TypeOK' /\ (peer \in PeerRecords)' /\ OnlyAnswersInTheWay'
    BY <1>1, <1>2, <1>4, <1>5
       DEF IInv, TypeOK, Sending, OnlyAnswersInTheWay, PeerRecords, PeerSeals, Types, Seals, Methods
  <1>7. HalfOK' /\ PacketsOK'
    BY <1>1, <1>2, <1>4 DEF HalfOK, PacketsOK
  <1>8. KeysOK'
    BY <1>1, <1>2, <1>3, <1>4 DEF IInv, KeysOK, Agreed, Method, Methods
  <1>9. EndsOK'
    BY <1>1, <1>2, <1>3, <1>4 DEF IInv, EndsOK, Common, Method, Pending
  <1>10. Outbound'
    BY <1>1, <1>2, <1>3, <1>4 DEF IInv, EndsOK, Outbound, Pending, IsStuff, TypeOK
  <1>11. InboundOK'
    BY <1>1, <1>2, <1>4 DEF InboundOK, Pending, HasType
  <1>12. ServerSealsOK'
    BY <1>2 DEF IInv, ServerSealsOK, SealOf, Method, Seals, Methods
  <1>13. SealsOK'
    BY <1>1, <1>2, <1>5 DEF IInv, SealsOK, OutSeal, SealOf, Method
  <1> QED BY <1>6, <1>7, <1>8, <1>9, <1>10, <1>11, <1>12, <1>13 DEF IInv

(* The exchange takes the group or the server's reply.                      *)
LEMMA KexGroupKeeps ==
  ASSUME IInv, failed = None, KexGroup
  PROVE  IInv'
  <1>1. /\ half = None /\ jump = FALSE
        /\ \/ pos = "getgroup" /\ packets = {"group"} /\ pos' = "init" /\ Len(s2c) = 0 /\ s2c = <<>>
           \/ pos = "getreply" /\ packets = {"reply"} /\ pos' = "newkeys"
        /\ packets' = {}
        /\ Pending /\ \A k \in 1..Len(s2c) : Inbound(k)
    BY Waiting, Positions, NoPackets DEF KexGroup, Took
  <1>2. UNCHANGED <<round, kex, crypt, keys, session_id, unread, api, half,
                    jump, badUse, failed, peer, c2s, s2c>>
    BY DEF KexGroup
  <1>3. pos = "getgroup" => \/ peer.pos = "closed"
                            \/ peer.pos = "getrequest" /\ c2s = <<>> /\ Len(c2s) = 0
    BY <1>1, NoPackets DEF Pending, HasType, IInv, TypeOK, Packets
  <1>6. TypeOK' /\ (peer \in PeerRecords)' /\ OnlyAnswersInTheWay'
    BY <1>1, <1>2
       DEF IInv, TypeOK, Sending, OnlyAnswersInTheWay, PeerRecords, PeerSeals, Types, Seals, Methods
  <1>7. HalfOK' /\ PacketsOK'
    BY <1>1, <1>2 DEF HalfOK, PacketsOK
  <1>8. KeysOK'
    BY <1>1, <1>2 DEF IInv, KeysOK, Agreed, Method, Methods
  <1>9. EndsOK'
    BY <1>1, <1>2, <1>3 DEF IInv, EndsOK, Common, Method, Pending
  <1>10. Outbound'
    BY <1>1, <1>2, <1>3 DEF IInv, EndsOK, Outbound, Pending, IsStuff
  <1>11. InboundOK'
    <2>1. \A k \in 1..Len(s2c) : Inbound(k)'
      BY <1>1, <1>2 DEF Inbound
    <2>2. ~HasType("group")'
      BY <1>1, <1>2 DEF HasType, Inbound
    <2>3. Pending'
      BY <1>1, <1>2, <1>3, <2>2 DEF Pending, IInv, EndsOK, TypeOK, PeerRecords
    <2> QED BY <1>2, <2>1, <2>3 DEF InboundOK
  <1>12. ServerSealsOK'
    BY <1>2 DEF IInv, ServerSealsOK, SealOf, Method, Seals, Methods
  <1>13. SealsOK'
    BY <1>1, <1>2 DEF IInv, SealsOK, OutSeal, InSeal, Inbound, SealOf, Method
  <1> QED BY <1>6, <1>7, <1>8, <1>9, <1>10, <1>11, <1>12, <1>13 DEF IInv

(* The exchange takes NEWKEYS: nothing is under way that is sealed with the *)
(* keys that are now gone, but NEWKEYS itself.                              *)
LEMMA KexSwitchKeeps ==
  ASSUME IInv, failed = None, KexSwitch
  PROVE  IInv'
  <1>1. /\ half = None /\ jump = FALSE
        /\ pos = "getnewkeys" /\ packets = {"newkeys"} /\ pos' = "idle"
        /\ packets' = {}
        /\ Pending /\ \A k \in 1..Len(s2c) : Inbound(k)
    BY Waiting, Positions, NoPackets DEF KexSwitch, Took
  <1>2. UNCHANGED <<round, kex, crypt, unread, api, half, jump, badUse, failed,
                    peer, c2s, s2c>>
    BY DEF KexSwitch
  <1>3. keys = round - 1 /\ keys' = round /\ round \in Nat /\ round > 0
    BY <1>1 DEF IInv, KeysOK, TypeOK, KexSwitch
  <1>4. session_id' = 1
    BY <1>1, <1>3 DEF IInv, KeysOK, KexSwitch, SessionId
  <1>6. TypeOK' /\ (peer \in PeerRecords)' /\ OnlyAnswersInTheWay'
    BY <1>1, <1>2, <1>3, <1>4
       DEF IInv, TypeOK, Sending, OnlyAnswersInTheWay, PeerRecords, PeerSeals, Types, Seals, Methods
  <1>7. HalfOK' /\ PacketsOK'
    BY <1>1, <1>2 DEF HalfOK, PacketsOK
  <1>8. KeysOK'
    BY <1>1, <1>2, <1>3, <1>4 DEF IInv, KeysOK, Agreed, Method, Methods
  <1>9. EndsOK'
    BY <1>1, <1>2, <1>3 DEF IInv, EndsOK, Common, Method
  <1>10. Outbound'
    BY <1>1, <1>2, <1>3 DEF IInv, EndsOK, Outbound, IsStuff, TypeOK
  <1>11. InboundOK'
    <2>1. \A k \in 1..Len(s2c) : Inbound(k)'
      BY <1>1, <1>2, <1>3 DEF Inbound
    <2>2. ~HasType("group")'
      BY <1>1, <1>2 DEF HasType, Inbound
    <2>3. Pending'
      BY <1>1, <1>2, <1>3, <2>2 DEF Pending, IInv, EndsOK
    <2> QED BY <1>2, <2>1, <2>3 DEF InboundOK
  <1>12. ServerSealsOK'
    BY <1>2 DEF IInv, ServerSealsOK, SealOf, Method, Seals, Methods
  <1>13. SealsOK'
    <2>1. peer.pos # "closed" => \A k \in 1..Len(c2s) : c2s[k].type \notin Stuff
      BY <1>1, <1>3 DEF IInv, EndsOK, Outbound, Stuff, PeerRecords
    <2> QED BY <1>1, <1>2, <1>3, <2>1 DEF IInv, SealsOK, OutSeal, InSeal, SealOf, Method
  <1> QED BY <1>6, <1>7, <1>8, <1>9, <1>10, <1>11, <1>12, <1>13 DEF IInv

-----------------------------------------------------------------------------
(* What a client that reads has before it: nothing half sent, and a first   *)
(* packet that fits its position and is sealed with its keys.               *)
LEMMA ReadingClient ==
  ASSUME IInv, failed = None, Reading, s2c # <<>>
  PROVE  /\ half = None /\ jump = FALSE /\ failed # "mac"
         /\ s2c \in Seq(Packets) /\ Len(s2c) \in Nat /\ Len(s2c) >= 1
         /\ Pending /\ \A k \in 1..Len(s2c) : Inbound(k)
         /\ \/ pos = "idle" /\ keys = round /\ packets = {} /\ s2c[1].type \in Talk \cup {"kexinit"}
            \/ pos = "getkexinit" /\ packets = {} /\ s2c[1].type = "kexinit"
            \/ pos = "getgroup" /\ packets = {} /\ s2c[1].type = "group"
            \/ pos = "getreply" /\ packets = {} /\ s2c[1].type = "reply"
            \/ pos = "getnewkeys" /\ packets = {} /\ s2c[1].type = "newkeys"
         /\ ~peer.changed => s2c[1].seal = ClientSeal
  <1>1. pos \in {"idle", "getkexinit", "getgroup", "getreply", "getnewkeys"}
    BY Positions DEF Reading
  <1>2. half = None /\ jump = FALSE
    BY <1>1, Positions DEF Reading, IInv, HalfOK, TypeOK, Sending
  <1>3. failed # "mac"
    BY KeyExchangeAssumption
  <1>4. Pending /\ \A k \in 1..Len(s2c) : Inbound(k)
    BY <1>3 DEF IInv, InboundOK
  <1>5. s2c \in Seq(Packets) /\ Len(s2c) \in Nat /\ Len(s2c) >= 1
    BY NoPackets DEF IInv, TypeOK, Packets
  <1>6. packets = {}
    BY <1>1, Positions DEF Reading, Ready, IInv, PacketsOK
  <1>7. Inbound(1)
    BY <1>4, <1>5
  <1>8. \/ pos = "idle" /\ keys = round /\ s2c[1].type \in Talk \cup {"kexinit"}
        \/ pos = "getkexinit" /\ s2c[1].type = "kexinit"
        \/ pos = "getgroup" /\ s2c[1].type = "group"
        \/ pos = "getreply" /\ s2c[1].type = "reply"
        \/ pos = "getnewkeys" /\ s2c[1].type = "newkeys"
    BY <1>1, <1>4, <1>6, <1>7 DEF Inbound, Talk, Pending
  <1>9. ASSUME ~peer.changed PROVE s2c[1].seal = ClientSeal
    <2>1. ClientSeal = SealOf(keys)
      BY <1>9, ClientSealIs DEF IInv
    <2>2. InSeal(1)
      BY <1>5, <1>9 DEF IInv, SealsOK
    <2>3. pos # "idle" => keys = round - 1
      BY DEF IInv, KeysOK
    <2> QED BY <1>8, <2>1, <2>2, <2>3 DEF InSeal, Talk
  <1> QED BY <1>2, <1>3, <1>4, <1>5, <1>6, <1>8, <1>9

(* The packets behind the one that is received.                             *)
NextPackets ==
    /\ s2c' \in Seq(Packets) /\ Len(s2c') = Len(s2c) - 1
    /\ \A k \in 1..(Len(s2c) - 1) : s2c'[k] = s2c[k + 1]

(* A packet that the client's keys do not open.                             *)
LEMMA ReceiveFails ==
  ASSUME IInv, failed = None, Receive, Head(s2c).seal # ClientSeal
  PROVE  IInv'
  <1>1. Reading /\ s2c # <<>> /\ s2c \in Seq(Packets)
    BY DEF Receive, IInv, TypeOK, Packets
  <1>2. peer.changed
    BY <1>1, ReadingClient, TailPackets
  <1>3. s2c' \in Seq(Packets) /\ Len(s2c') = Len(s2c) - 1 /\ Len(s2c) \in Nat
    BY <1>1, TailPackets DEF Receive
  <1>4. failed' = "mac"
    BY DEF Receive
  <1>5. UNCHANGED <<packets, unread, pos, round, kex, half, jump, badUse, c2s,
                    crypt, keys, session_id, api, peer>>
    BY DEF Receive
  <1>6. TypeOK' /\ (peer \in PeerRecords)' /\ OnlyAnswersInTheWay'
    BY <1>3, <1>4, <1>5, KeyExchangeAssumption
       DEF IInv, TypeOK, OnlyAnswersInTheWay, PeerRecords, PeerSeals, Types, Seals, Methods, Packets
  <1>7. HalfOK' /\ PacketsOK' /\ KeysOK' /\ EndsOK' /\ Outbound'
    BY <1>5 DEF IInv, HalfOK, PacketsOK, KeysOK, Agreed, Method, Methods, EndsOK, Common,
       Outbound, IsStuff
  <1>8. InboundOK' /\ SealsOK'
    BY <1>2, <1>4, <1>5 DEF InboundOK, SealsOK
  <1>9. ServerSealsOK'
    BY <1>5 DEF IInv, ServerSealsOK, SealOf, Method, Seals, Methods
  <1> QED BY <1>6, <1>7, <1>8, <1>9 DEF IInv

(* A packet of the exchange goes into the brigade; KEXINIT starts one.      *)
LEMMA ReceiveKex ==
  ASSUME IInv, failed = None, Receive, Head(s2c).seal = ClientSeal,
         Head(s2c).type \notin Talk
  PROVE  IInv'
  <1>1. Reading /\ s2c # <<>> /\ s2c \in Seq(Packets) /\ Head(s2c) = s2c[1]
    BY TailPackets DEF Receive, IInv, TypeOK, Packets
  <1>2. NextPackets /\ Len(s2c) \in Nat /\ Len(s2c) >= 1
    BY <1>1, TailPackets DEF Receive, NextPackets
  <1> DEFINE type == s2c[1].type
  <1>3. UNCHANGED <<unread, crypt, keys, session_id, api, half, jump, badUse, failed, peer, c2s>>
    <2>1. type # "data" /\ type # "global"
      BY <1>1 DEF Talk
    <2> QED BY <1>1, <2>1 DEF Receive, PacketAdd, IInv, TypeOK
  <1>4. /\ half = None /\ jump = FALSE /\ failed # "mac"
        /\ Pending /\ \A k \in 1..Len(s2c) : Inbound(k)
    BY <1>1, ReadingClient
  <1>5. /\ pos \in {"idle", "getkexinit", "getgroup", "getreply", "getnewkeys"}
        /\ keys = IF pos = "idle" THEN round ELSE round - 1
    BY <1>1, ReadingClient, Positions DEF IInv, KeysOK
  <1>6. /\ packets = {} /\ packets' = {type}
        /\ \/ /\ pos = "idle" /\ type = "kexinit" /\ pos' = "kexinit"
              /\ round' = round + 1 /\ kex' = None
           \/ /\ pos # "idle" /\ type = Awaits[pos]
              /\ UNCHANGED <<pos, round, kex>>
    BY <1>1, ReadingClient, Positions DEF Receive, PacketAdd, Queued, Talk
  <1>7. /\ type \in {"kexinit", "group"} => Len(s2c') = 0 /\ s2c' = <<>>
        /\ type = "kexinit" => /\ peer.round = IF pos = "idle" THEN round + 1 ELSE round
                               /\ peer.pos \in {"getkexinit", "getrequest", "closed"}
                               /\ pos = "idle" => peer.pos # "getrequest"
    <2>1. Inbound(1)
      BY <1>2, <1>4
    <2>2. Len(s2c') = 0 => s2c' = <<>>
      BY <1>2, NoPackets DEF NextPackets
    <2> QED BY <1>2, <1>6, <2>1, <2>2, Positions DEF Inbound, NextPackets
  <1>8. round \in 1..MaxRounds /\ peer.round \in 0..MaxRounds /\ MaxRounds \in Nat
    BY KeyExchangeAssumption DEF IInv, TypeOK, PeerRecords
  <1>9. TypeOK' /\ (peer \in PeerRecords)' /\ OnlyAnswersInTheWay'
    <2>1. OnlyAnswersInTheWay' /\ (peer \in PeerRecords)'
      BY <1>3 DEF IInv, OnlyAnswersInTheWay, PeerRecords, PeerSeals, Seals, Methods
    <2>2. round' \in 1..MaxRounds /\ keys' \in 0..round'
      <3>1. round' \in {round, round + 1} /\ round' \in 1..MaxRounds
        BY <1>6, <1>7, <1>8
      <3>2. keys \in 0..round /\ keys' = keys
        BY <1>3 DEF IInv, TypeOK
      <3> QED BY <1>8, <3>1, <3>2
    <2>3. s2c' \in Seq(Packets) /\ Len(s2c') <= MaxQueue
      <3>1. Len(s2c) <= MaxQueue /\ MaxQueue \in Nat
        BY KeyExchangeAssumption DEF IInv, TypeOK
      <3> QED BY <1>2, <3>1 DEF NextPackets
    <2>4. pos' \in Sending \cup DOMAIN Awaits \cup {"idle"} /\ kex' \in {None, "gex", "group"}
      BY <1>6 DEF IInv, TypeOK, Sending
    <2>5. packets' \subseteq Types
      BY <1>5, <1>6, Positions DEF Types
    <2> QED BY <1>3, <2>1, <2>2, <2>3, <2>4, <2>5 DEF IInv, TypeOK, Packets, Types, Seals, Methods
  <1>10. HalfOK' /\ PacketsOK'
    BY <1>3, <1>4, <1>5, <1>6, Positions DEF HalfOK, PacketsOK
  <1>11. KeysOK'
    BY <1>3, <1>5, <1>6, <1>8 DEF IInv, KeysOK, Agreed, Method, Methods
  <1>12. EndsOK'
    BY <1>3, <1>5, <1>6, <1>7, <1>8 DEF IInv, EndsOK, Common, Method
  <1>13. Outbound'
    BY <1>3, <1>5, <1>6, <1>7, <1>8 DEF IInv, EndsOK, Outbound, IsStuff
  <1>14. \A k \in 1..(Len(s2c) - 1) : Inbound(k)'
    <2>1. ASSUME NEW k \in 1..(Len(s2c) - 1) PROVE Inbound(k)'
      <3>1. Inbound(k + 1) /\ Inbound(1)
        BY <1>2, <1>4
      <3>2. s2c'[k] = s2c[k + 1] /\ Len(s2c') = Len(s2c) - 1
        BY <1>2 DEF NextPackets
      <3> QED BY <1>2, <1>3, <1>5, <1>6, <1>7, <3>1, <3>2, Positions DEF Inbound
    <2> QED BY <2>1
  <1>15. InboundOK'
    <2>1. HasType("group")' => type = "group"
      BY <1>2, <1>6, <1>14 DEF HasType, Inbound, NextPackets
    <2>2. type = "group" => HasType("group")
      BY <1>2 DEF HasType
    <2>3. Pending'
      <3>1. CASE type \in {"kexinit", "group"}
        BY <1>3, <1>4, <1>5, <1>6, <1>7, <2>1, <2>2, <3>1, Positions
           DEF Pending, IInv, EndsOK
      <3>2. CASE type \in {"reply", "newkeys"}
        <4>1. packets' # {} /\ packets' # {"kexinit"} /\ ~HasType("group")'
          BY <1>6, <2>1, <3>2
        <4>2. pos \in {"getreply", "getnewkeys"} /\ pos' = pos /\ packets = {}
          BY <1>5, <1>6, <3>2, Positions
        <4> QED BY <1>1, <1>2, <1>3, <1>4, <4>1, <4>2 DEF Pending, NextPackets
      <3> QED BY <1>5, <1>6, <3>1, <3>2, Positions
    <2> QED BY <1>2, <1>14, <2>3 DEF InboundOK, NextPackets
  <1>16. ServerSealsOK'
    BY <1>3 DEF IInv, ServerSealsOK, SealOf, Method, Seals, Methods
  <1>17. SealsOK'
    <2> SUFFICES ASSUME ~peer.changed PROVE SealsOK'
      BY <1>3 DEF SealsOK
    <2>1. \A n : SealOf(n)' = SealOf(n)
      BY <1>3 DEF SealOf, Method
    <2>2. \A k \in 1..(Len(s2c) - 1) : InSeal(k)'
      <3>1. ASSUME NEW k \in 1..(Len(s2c) - 1) PROVE InSeal(k)'
        <4>1. InSeal(k + 1) /\ Inbound(k + 1)
          BY <1>2, <1>4 DEF IInv, SealsOK
        <4>2. s2c'[k] = s2c[k + 1]
          BY <1>2 DEF NextPackets
        <4> QED BY <1>2, <1>3, <1>6, <1>7, <2>1, <4>1, <4>2 DEF InSeal, NextPackets
      <3> QED BY <3>1
    <2>3. ASSUME peer.pos # "closed", NEW k \in 1..Len(c2s) PROVE OutSeal(k)'
      <3>1. OutSeal(k)
        BY <2>3 DEF IInv, SealsOK
      <3>2. CASE pos = "idle"
        <4>1. c2s[k].type \in Stuff
          BY <1>5, <1>6, <1>7, <1>8, <2>3, <3>2 DEF IInv, Outbound, IsStuff
        <4> QED BY <1>3, <2>1, <3>1, <4>1 DEF OutSeal
      <3>3. CASE pos # "idle"
        BY <1>3, <1>6, <2>1, <3>1, <3>3 DEF OutSeal
      <3> QED BY <3>2, <3>3
    <2> QED BY <1>2, <1>3, <1>4, <2>2, <2>3 DEF IInv, SealsOK, NextPackets
  <1> QED BY <1>9, <1>10, <1>11, <1>12, <1>13, <1>15, <1>16, <1>17 DEF IInv

-----------------------------------------------------------------------------
(* The steps outside an exchange leave the positions and the keys alone.    *)
Steady == UNCHANGED <<pos, round, kex, crypt, keys, session_id, packets, peer>>

LEMMA SteadyKeeps ==
  ASSUME IInv, Steady
  PROVE  /\ (peer \in PeerRecords)' /\ PacketsOK' /\ KeysOK' /\ EndsOK' /\ ServerSealsOK'
         /\ \A n : SealOf(n)' = SealOf(n)
  BY DEF IInv, Steady, PeerRecords, PeerSeals, PacketsOK, KeysOK, Agreed, Methods, Method,
     EndsOK, Common, ServerSealsOK, SealOf, Seals

(* A packet that is not of the exchange goes out while there is none.       *)
LEMMA StuffSent ==
  ASSUME IInv, Steady, pos = "idle", NEW type \in Stuff, SendEffect(type)
  PROVE  /\ Outbound'
         /\ ~peer.changed /\ peer.pos # "closed" => \A k \in 1..Len(c2s') : OutSeal(k)'
         /\ c2s' \in Seq(Packets) /\ Len(c2s') <= MaxQueue
  <1>1. Outbound'
    BY DEF IInv, Steady, EndsOK, Outbound, SendEffect, IsStuff
  <1>2. ASSUME ~peer.changed, peer.pos # "closed", NEW k \in 1..Len(c2s')
        PROVE  OutSeal(k)'
    <2>1. CASE k \in 1..Len(c2s)
      <3>1. OutSeal(k)
        BY <1>2, <2>1 DEF IInv, SealsOK
      <3> QED BY <2>1, <3>1, SteadyKeeps DEF OutSeal, SendEffect, Steady
    <2>2. CASE k = Len(c2s) + 1
      BY <1>2, <2>2, SteadyKeeps DEF OutSeal, SendEffect, Steady
    <2> QED BY <2>1, <2>2 DEF SendEffect
  <1> QED BY <1>1, <1>2, KeyExchangeAssumption DEF SendEffect

(* What the client has yet to get does not depend on what it sends then.    *)
LEMMA InboundSteady ==
  ASSUME IInv, Steady, UNCHANGED s2c, failed' # "mac" => failed # "mac",
         pos = "idle" \/ UNCHANGED c2s
  PROVE  /\ InboundOK'
         /\ ~peer.changed => \A k \in 1..Len(s2c) : InSeal(k)'
  <1>1. ASSUME failed # "mac" PROVE Pending' /\ \A k \in 1..Len(s2c) : Inbound(k)'
    <2>1. Pending /\ \A k \in 1..Len(s2c) : Inbound(k)
      BY <1>1 DEF IInv, InboundOK
    <2>2. \A k \in 1..Len(s2c) : Inbound(k)'
      BY <2>1 DEF Steady, Inbound
    <2>3. HasType("group")' => HasType("group")
      BY DEF HasType, Steady
    <2>4. pos = "idle" => ~HasType("group")
      BY <2>1, Positions DEF HasType, Inbound, IInv, PacketsOK
    <2> QED BY <2>1, <2>2, <2>3, <2>4 DEF Pending, Steady
  <1>2. ~peer.changed => \A k \in 1..Len(s2c) : InSeal(k)'
    BY SteadyKeeps DEF IInv, SealsOK, InSeal, Steady
  <1> QED BY <1>1, <1>2 DEF InboundOK

(* The rest of an answer.                                                   *)
LEMMA RetryKeeps ==
  ASSUME IInv, failed = None, Retry
  PROVE  IInv'
  <1>1. jump /\ api = "read" /\ pos = "idle" /\ half # None
    BY DEF Retry, IInv, HalfOK, Sending
  <1>2. Steady /\ jump' = FALSE /\ UNCHANGED <<unread, api, badUse, failed, s2c>>
    BY DEF Retry, Steady
  <1>3. SendEffect("answer") /\ "answer" \in Stuff
    BY SendsOne DEF Retry, Types, Stuff
  <1>4. TypeOK' /\ OnlyAnswersInTheWay' /\ HalfOK'
    <2>1. OnlyAnswersInTheWay' /\ HalfOK'
      BY <1>2, <1>3 DEF SendEffect, IInv, OnlyAnswersInTheWay, HalfOK
    <2>2. Len(c2s') <= MaxQueue /\ c2s' \in Seq(Packets) /\ half' = None
      BY <1>3, KeyExchangeAssumption DEF SendEffect
    <2> QED BY <1>2, <2>1, <2>2 DEF IInv, TypeOK, Steady, Types, Seals, Methods, Packets
  <1>5. Outbound' /\ InboundOK'
    BY <1>1, <1>2, <1>3, StuffSent, InboundSteady
  <1>6. SealsOK'
    BY <1>1, <1>2, <1>3, StuffSent, InboundSteady DEF IInv, SealsOK, Steady, SendEffect
  <1> QED BY <1>2, <1>4, <1>5, <1>6, SteadyKeeps DEF IInv

(* The connection is found closed.                                          *)
LEMMA ClosedKeeps ==
  ASSUME IInv, failed = None, Closed
  PROVE  IInv'
  <1>1. Steady /\ UNCHANGED <<unread, api, half, jump, badUse, c2s, s2c>> /\ failed' = "socket"
    BY DEF Closed, Steady
  <1>2. failed # "mac" /\ failed' # "mac"
    BY <1>1, KeyExchangeAssumption
  <1>3. TypeOK' /\ OnlyAnswersInTheWay' /\ HalfOK' /\ Outbound'
    BY <1>1 DEF IInv, TypeOK, Steady, OnlyAnswersInTheWay, Types, Seals, Methods, HalfOK, Outbound, IsStuff
  <1>4. InboundOK'
    BY <1>1, <1>2, InboundSteady
  <1>5. SealsOK'
    BY <1>1, <1>2, InboundSteady, SteadyKeeps DEF IInv, SealsOK, Steady, OutSeal
  <1> QED BY <1>1, <1>3, <1>4, <1>5, SteadyKeeps DEF IInv

(* A read returns to its caller.                                            *)
LEMMA LeaveReadKeeps ==
  ASSUME IInv, failed = None, LeaveRead
  PROVE  IInv'
  <1>1. /\ Steady /\ UNCHANGED <<half, jump, badUse, failed, c2s, s2c>>
        /\ unread' = FALSE /\ api' \in {"read", "send"} /\ api = "read"
    BY DEF LeaveRead, Steady
  <1>2. failed # "mac"
    BY KeyExchangeAssumption
  <1>3. TypeOK' /\ OnlyAnswersInTheWay' /\ Outbound'
    <2>1. unread' \in BOOLEAN
      BY <1>1
    <2>2. TypeOK'
      BY <1>1, <2>1 DEF IInv, TypeOK, Steady, Types, Seals, Methods
    <2>3. OnlyAnswersInTheWay' /\ Outbound'
      BY <1>1 DEF IInv, Steady, OnlyAnswersInTheWay, Outbound, IsStuff
    <2> QED BY <2>2, <2>3
  <1>4. HalfOK'
    BY <1>1 DEF IInv, HalfOK, Steady
  <1>5. InboundOK'
    BY <1>1, <1>2, InboundSteady
  <1>6. SealsOK'
    BY <1>1, <1>2, InboundSteady, SteadyKeeps DEF IInv, SealsOK, Steady, OutSeal
  <1> QED BY <1>1, <1>3, <1>4, <1>5, <1>6, SteadyKeeps DEF IInv

(* A packet of the caller's own: it may meet the rest of an answer.         *)
LEMMA SendKeeps ==
  ASSUME IInv, failed = None, Send
  PROVE  IInv'
  <1>1. Steady /\ UNCHANGED <<unread, jump, s2c>> /\ api = "send" /\ pos = "idle"
    BY DEF Send, Steady, Redirected
  <1>2. failed # "mac" /\ "channel" \in Types /\ "channel" \in Stuff
    BY KeyExchangeAssumption DEF Types, Stuff
  <1>3. CASE Sends("channel") /\ api' = "read" /\ UNCHANGED <<badUse, failed>>
    <2>1. SendEffect("channel") /\ jump = FALSE
      BY <1>2, <1>3, SendsOne DEF IInv, HalfOK, Sends, TypeOK
    <2>2. TypeOK' /\ OnlyAnswersInTheWay' /\ HalfOK'
      BY <1>1, <1>3, <2>1, KeyExchangeAssumption
         DEF SendEffect, IInv, TypeOK, Steady, OnlyAnswersInTheWay, Types, Seals, Methods, Packets, HalfOK
    <2>3. Outbound' /\ InboundOK'
      BY <1>1, <1>2, <1>3, <2>1, StuffSent, InboundSteady
    <2>4. SealsOK'
      BY <1>1, <1>2, <1>3, <2>1, StuffSent, InboundSteady DEF IInv, SealsOK, Steady, SendEffect
    <2> QED BY <1>1, <2>2, <2>3, <2>4, SteadyKeeps DEF IInv
  <1>4. CASE Again("channel") /\ api' = AfterAgain /\ UNCHANGED <<badUse, failed>>
    <2>1. AgainEffect("channel") /\ jump = FALSE /\ api' = "send"
      BY <1>2, <1>4, AgainKeeps DEF IInv, HalfOK, Again, TypeOK, AfterAgain
    <2>2. TypeOK' /\ OnlyAnswersInTheWay' /\ HalfOK' /\ Outbound'
      BY <1>1, <1>4, <2>1
         DEF AgainEffect, IInv, TypeOK, Steady, OnlyAnswersInTheWay, Types, Seals, Methods, Packets,
             HalfOK, Outbound, IsStuff
    <2>3. InboundOK'
      BY <1>1, <1>2, <1>4, InboundSteady
    <2>4. SealsOK'
      BY <1>1, <1>2, <1>4, <2>1, SteadyKeeps, InboundSteady
         DEF IInv, SealsOK, Steady, AgainEffect, OutSeal
    <2> QED BY <1>1, <2>2, <2>3, <2>4, SteadyKeeps DEF IInv
  <1>5. CASE BadUse("channel") /\ failed' = "bad_use" /\ UNCHANGED api
    <2>1. half.type = "answer" /\ badUse' = badUse \cup {<<half.type, "channel">>}
      BY <1>1, <1>5 DEF IInv, HalfOK, BadUse, Refused, Sending
    <2>2. UNCHANGED <<half, c2s>> /\ failed' # "mac"
      BY <1>5 DEF BadUse
    <2>3. OnlyAnswersInTheWay'
      BY <2>1 DEF IInv, OnlyAnswersInTheWay
    <2>4. TypeOK' /\ HalfOK' /\ Outbound'
      BY <1>1, <1>5, <2>2 DEF IInv, TypeOK, Steady, Types, Seals, Methods, HalfOK, Outbound, IsStuff
    <2>5. InboundOK'
      BY <1>1, <1>2, <2>2, InboundSteady
    <2>6. SealsOK'
      BY <1>1, <1>2, <2>2, InboundSteady, SteadyKeeps DEF IInv, SealsOK, Steady, OutSeal
    <2> QED BY <1>1, <2>3, <2>4, <2>5, <2>6, SteadyKeeps DEF IInv
  <1> QED BY <1>3, <1>4, <1>5 DEF Send

(* Data, or a request that is answered.                                     *)
LEMMA ReceiveTalk ==
  ASSUME IInv, failed = None, Receive, Head(s2c).seal = ClientSeal,
         Head(s2c).type \in Talk
  PROVE  IInv'
  <1>1. Reading /\ s2c # <<>> /\ s2c \in Seq(Packets) /\ Head(s2c) = s2c[1]
    BY TailPackets DEF Receive, IInv, TypeOK, Packets
  <1>2. NextPackets /\ Len(s2c) \in Nat /\ Len(s2c) >= 1
    BY <1>1, TailPackets DEF Receive, NextPackets
  <1>3. /\ half = None /\ jump = FALSE /\ failed # "mac" /\ pos = "idle" /\ keys = round
        /\ Pending /\ \A k \in 1..Len(s2c) : Inbound(k)
    BY <1>1, ReadingClient DEF Talk
  <1>4. PacketAdd(Head(s2c).type)
    BY DEF Receive
  <1>5. /\ Steady /\ UNCHANGED <<api, failed>>
        /\ unread' = (unread \/ Head(s2c).type = "data")
    BY <1>4 DEF Receive, PacketAdd, Queued, Talk, Steady
  <1>6. unread' \in BOOLEAN
    BY <1>5
  <1>7. \A k \in 1..(Len(s2c) - 1) : Inbound(k)'
    <2>1. ASSUME NEW k \in 1..(Len(s2c) - 1) PROVE Inbound(k)'
      <3>1. Inbound(k + 1)
        BY <1>2, <1>3
      <3>2. s2c'[k] = s2c[k + 1] /\ Len(s2c') = Len(s2c) - 1
        BY <1>2 DEF NextPackets
      <3> QED BY <1>2, <1>3, <1>5, <3>1, <3>2 DEF Inbound, Steady
    <2> QED BY <2>1
  <1>8. InboundOK'
    <2>1. ~HasType("group")'
      BY <1>2, <1>3, <1>5, <1>7, Positions DEF HasType, Inbound, NextPackets, Steady, IInv, PacketsOK
    <2>2. Pending'
      BY <1>1, <1>3, <1>5, <2>1 DEF Pending, Steady
    <2> QED BY <1>2, <1>7, <2>2 DEF InboundOK, NextPackets
  <1>9. ~peer.changed => \A k \in 1..(Len(s2c) - 1) : InSeal(k)'
    <2>1. ASSUME ~peer.changed, NEW k \in 1..(Len(s2c) - 1) PROVE InSeal(k)'
      <3>1. InSeal(k + 1)
        BY <1>2, <2>1 DEF IInv, SealsOK
      <3>2. s2c'[k] = s2c[k + 1]
        BY <1>2 DEF NextPackets
      <3> QED BY <1>5, <3>1, <3>2, SteadyKeeps DEF InSeal, Steady
    <2> QED BY <2>1
  <1>10. Len(s2c') <= MaxQueue
    BY <1>2, KeyExchangeAssumption DEF IInv, TypeOK, NextPackets
  <1>11. CASE Sends("answer") /\ UNCHANGED <<jump, badUse>>
    <2>1. SendEffect("answer") /\ "answer" \in Stuff
      BY <1>11, SendsOne DEF Types, Stuff
    <2>2. Len(c2s') <= MaxQueue /\ c2s' \in Seq(Packets) /\ half' = None /\ Outbound'
      BY <1>3, <1>5, <2>1, StuffSent DEF SendEffect
    <2>3. OnlyAnswersInTheWay' /\ HalfOK'
      BY <1>3, <1>11, <2>2 DEF IInv, OnlyAnswersInTheWay, HalfOK
    <2>4. TypeOK'
      BY <1>2, <1>5, <1>6, <1>10, <1>11, <2>2
         DEF IInv, TypeOK, Steady, Types, Seals, Methods, Packets, NextPackets
    <2>5. SealsOK'
      BY <1>2, <1>3, <1>5, <1>9, <2>1, <2>2, StuffSent DEF IInv, SealsOK, Steady, NextPackets
    <2> QED BY <1>5, <1>8, <2>2, <2>3, <2>4, <2>5, SteadyKeeps DEF IInv
  <1>12. CASE Again("answer") /\ jump' = TRUE /\ UNCHANGED badUse
    <2>1. AgainEffect("answer")
      BY <1>12, AgainKeeps DEF Types
    <2>2. OnlyAnswersInTheWay' /\ HalfOK' /\ Outbound'
      BY <1>3, <1>5, <1>12, <2>1
         DEF AgainEffect, IInv, OnlyAnswersInTheWay, HalfOK, Steady, Outbound, IsStuff
    <2>3. TypeOK'
      BY <1>2, <1>5, <1>6, <1>10, <1>12, <2>1
         DEF AgainEffect, IInv, TypeOK, Steady, Types, Seals, Methods, Packets, NextPackets
    <2>4. SealsOK'
      BY <1>2, <1>3, <1>5, <1>9, <2>1, SteadyKeeps
         DEF AgainEffect, IInv, SealsOK, Steady, NextPackets, OutSeal
    <2> QED BY <1>5, <1>8, <2>2, <2>3, <2>4, SteadyKeeps DEF IInv
  <1>13. CASE UNCHANGED <<half, jump, badUse, c2s>>
    <2>1. OnlyAnswersInTheWay' /\ HalfOK' /\ Outbound'
      BY <1>3, <1>5, <1>13 DEF IInv, OnlyAnswersInTheWay, HalfOK, Steady, Outbound, IsStuff
    <2>2. TypeOK'
      BY <1>2, <1>5, <1>6, <1>10, <1>13
         DEF IInv, TypeOK, Steady, Types, Seals, Methods, Packets, NextPackets
    <2>3. SealsOK'
      BY <1>2, <1>3, <1>5, <1>9, <1>13, SteadyKeeps
         DEF IInv, SealsOK, Steady, NextPackets, OutSeal
    <2> QED BY <1>5, <1>8, <2>1, <2>2, <2>3, SteadyKeeps DEF IInv
  <1> QED BY <1>3, <1>4, <1>11, <1>12, <1>13 DEF PacketAdd, BadUse, Refused

(* Every step of the client.                                                *)
LEMMA ClientKeeps ==
  ASSUME IInv, Client
  PROVE  IInv'
  <1>1. failed = None
    BY DEF Client
  <1>2. CASE Kex
    BY <1>1, <1>2, KexSendKeeps, KexAgreeKeeps, KexGroupKeeps, KexSwitchKeeps DEF Kex
  <1>3. CASE Receive
    BY <1>1, <1>3, ReceiveFails, ReceiveKex, ReceiveTalk
  <1> QED BY <1>1, <1>2, <1>3, RetryKeeps, ClosedKeeps, LeaveReadKeeps, SendKeeps DEF Client

-----------------------------------------------------------------------------
(* The server sends one packet.                                             *)
ServerSends(type) ==
    /\ Len(s2c) \in Nat /\ s2c' \in Seq(Packets) /\ Len(s2c') = Len(s2c) + 1
    /\ Len(s2c') <= MaxQueue
    /\ \A k \in 1..Len(s2c) : s2c'[k] = s2c[k]
    /\ s2c'[Len(s2c) + 1].type = type /\ s2c'[Len(s2c) + 1].seal = peer.out

LEMMA ServerSendsOne ==
  ASSUME IInv, NEW type \in Types, Room(1), s2c' = Append(s2c, Out(peer, type))
  PROVE  ServerSends(type)
  <1>1. s2c \in Seq(Packets) /\ peer.out \in Seals
    BY DEF IInv, TypeOK, Packets, PeerRecords
  <1>2. /\ Out(peer, type) \in Packets
        /\ Out(peer, type).type = type /\ Out(peer, type).seal = peer.out
    BY <1>1 DEF Out, Packet, Packets
  <1> QED BY <1>1, <1>2, AppendPackets DEF ServerSends, Room

(* What no step of the server changes.                                      *)
LEMMA ClientSteady ==
  ASSUME IInv, UNCHANGED client
  PROVE  HalfOK' /\ PacketsOK' /\ OnlyAnswersInTheWay'
  BY DEF IInv, client, HalfOK, PacketsOK, OnlyAnswersInTheWay

(* The server starts an exchange; it may offer other methods than before.   *)
LEMMA ServerKexinitKeeps ==
  ASSUME IInv, ServerKexinit
  PROVE  IInv'
  <1>1. PICK o \in Offers :
          /\ peer.round = 0 => o = peer.offer
          /\ peer' = [peer EXCEPT !.pos = "getkexinit", !.round = @ + 1, !.offer = o,
                !.changed = @ \/ Chosen(CryptPrefs, o.crypt)
                                   # Chosen(CryptPrefs, peer.offer.crypt)]
    BY DEF ServerKexinit
  <1>2. peer.pos \in {"kexinit", "idle"} /\ Room(1) /\ peer.round < MaxRounds
        /\ UNCHANGED client /\ UNCHANGED c2s
    BY DEF ServerKexinit
  <1>3. /\ peer'.pos = "getkexinit" /\ peer'.round = peer.round + 1 /\ peer'.offer = o
        /\ peer'.changed = (peer.changed \/ Chosen(CryptPrefs, o.crypt) # Method)
        /\ peer'.in = peer.in /\ peer'.out = peer.out /\ peer'.next = peer.next
        /\ peer'.complaint = peer.complaint
    BY <1>1 DEF IInv, PeerRecords, Method
  <1>4. peer' \in PeerRecords
    <2>1. peer.round + 1 \in 0..MaxRounds
      BY <1>2, KeyExchangeAssumption DEF IInv, PeerRecords
    <2> QED BY <1>1, <2>1 DEF IInv, PeerRecords
  <1>5. /\ ~peer'.changed => ~peer.changed /\ Method' = Method
        /\ ~peer'.changed => \A n : SealOf(n)' = SealOf(n)
    BY <1>3 DEF Method, SealOf
  <1>6. ServerSends("kexinit")
    BY <1>2, ServerSendsOne DEF ServerKexinit, Types
  <1>7. /\ \/ /\ peer.pos = "kexinit" /\ peer.round = 0 /\ round = 1
              /\ pos \in {"kexinit", "getkexinit"} /\ peer'.round = round
           \/ /\ peer.pos = "idle" /\ peer.round = round /\ pos \in {"getnewkeys", "idle"}
              /\ (pos = "idle" => keys = round) /\ peer'.round = round + 1
        /\ round \in Nat /\ peer.round \in Nat
    BY <1>2, <1>3, KeyExchangeAssumption DEF IInv, EndsOK, PeerRecords, TypeOK
  <1>8. TypeOK'
    BY <1>2, <1>6 DEF IInv, TypeOK, client, ServerSends, Types, Seals, Methods, Packets
  <1>9. KeysOK'
    BY <1>2, <1>5 DEF IInv, KeysOK, client, Methods, Agreed
  <1>10. EndsOK'
    BY <1>2, <1>3, <1>7 DEF EndsOK, client
  <1>11. Outbound'
    BY <1>2, <1>3, <1>7 DEF IInv, Outbound, IsStuff, client
  <1>12. InboundOK'
    <2> SUFFICES ASSUME failed # "mac"
                 PROVE  Pending' /\ \A k \in 1..Len(s2c') : Inbound(k)'
      BY <1>2 DEF InboundOK, client
    <2>1. Pending /\ \A k \in 1..Len(s2c) : Inbound(k)
      BY DEF IInv, InboundOK
    <2>2. peer.pos = "kexinit" => s2c = <<>> /\ Len(s2c) = 0 /\ packets = {}
      BY <2>1, NoPackets DEF Pending
    <2>3. ~HasType("group") /\ packets # {"kexinit"}
      BY <1>2, <2>1 DEF Pending
    <2>4. ~HasType("group")'
      BY <1>2, <1>6, <2>3 DEF HasType, ServerSends, client
    <2>5. pos = "getnewkeys" => packets = {"newkeys"} \/ Len(s2c) >= 1
      BY <1>2, <2>1, Positions DEF Pending, IInv, PacketsOK
    <2>6. ASSUME NEW k \in 1..Len(s2c') PROVE Inbound(k)'
      <3>1. CASE k \in 1..Len(s2c)
        <4>1. Inbound(k) /\ s2c'[k] = s2c[k] /\ s2c[k].type # "group"
          BY <1>6, <2>1, <2>3, <3>1 DEF ServerSends, HasType
        <4>2. s2c[k].type # "kexinit"
          BY <1>2, <4>1 DEF Inbound
        <4> QED BY <1>2, <1>6, <4>1, <4>2 DEF Inbound, client, ServerSends
      <3>2. CASE k = Len(s2c) + 1
        BY <1>2, <1>3, <1>6, <1>7, <2>2, <2>5, <3>2 DEF Inbound, client, ServerSends, Talk
      <3> QED BY <1>6, <3>1, <3>2 DEF ServerSends
    <2>7. Pending'
      BY <1>2, <1>3, <1>6, <1>7, <2>3, <2>4 DEF Pending, client, ServerSends
    <2> QED BY <2>6, <2>7
  <1>13. ServerSealsOK'
    BY <1>3, <1>5, <1>7 DEF IInv, ServerSealsOK
  <1>14. SealsOK'
    <2> SUFFICES ASSUME ~peer'.changed PROVE SealsOK'
      BY DEF SealsOK
    <2>1. ASSUME NEW k \in 1..Len(s2c') PROVE InSeal(k)'
      <3>1. CASE k \in 1..Len(s2c)
        BY <1>2, <1>5, <1>6, <3>1 DEF IInv, SealsOK, InSeal, ServerSends, client
      <3>2. CASE k = Len(s2c) + 1
        BY <1>2, <1>5, <1>6, <1>7, <3>2 DEF IInv, ServerSealsOK, InSeal, ServerSends, client, Talk
      <3> QED BY <1>6, <3>1, <3>2 DEF ServerSends
    <2>2. \A k \in 1..Len(c2s) : OutSeal(k)'
      BY <1>2, <1>5 DEF IInv, SealsOK, OutSeal, client
    <2> QED BY <1>2, <1>3, <1>5, <2>1, <2>2 DEF IInv, SealsOK, client
  <1> QED BY <1>2, <1>4, <1>8, <1>9, <1>10, <1>11, <1>12, <1>13, <1>14, ClientSteady DEF IInv

(* The server sends data or a request outside its exchange.                 *)
LEMMA ServerTalksKeeps ==
  ASSUME IInv, ServerTalks
  PROVE  IInv'
  <1>1. PICK type \in {"data", "global"} : s2c' = Append(s2c, Out(peer, type))
    BY DEF ServerTalks
  <1>2. /\ peer.pos \in {"idle", "getnewkeys"} /\ Room(1)
        /\ UNCHANGED client /\ UNCHANGED <<peer, c2s>>
    BY DEF ServerTalks
  <1>3. ServerSends(type) /\ type \in Talk
    BY <1>1, <1>2, ServerSendsOne DEF Types, Talk
  <1>4. Steady
    BY <1>2 DEF Steady, client
  <1>5. TypeOK'
    BY <1>2, <1>3 DEF IInv, TypeOK, client, ServerSends, Types, Seals, Methods, Packets
  <1>6. Outbound'
    BY <1>2 DEF IInv, Outbound, IsStuff, client
  <1>7. InboundOK'
    <2> SUFFICES ASSUME failed # "mac"
                 PROVE  Pending' /\ \A k \in 1..Len(s2c') : Inbound(k)'
      BY <1>2 DEF InboundOK, client
    <2>1. Pending /\ \A k \in 1..Len(s2c) : Inbound(k)
      BY DEF IInv, InboundOK
    <2>2. ~HasType("group") /\ packets # {"kexinit"}
      BY <1>2, <2>1 DEF Pending
    <2>3. ~HasType("group")'
      BY <1>2, <1>3, <2>2 DEF HasType, ServerSends, client, Talk
    <2>4. ASSUME NEW k \in 1..Len(s2c') PROVE Inbound(k)'
      <3>1. CASE k \in 1..Len(s2c)
        <4>1. Inbound(k) /\ s2c'[k] = s2c[k] /\ s2c[k].type # "group"
          BY <1>3, <2>1, <2>2, <3>1 DEF ServerSends, HasType
        <4>2. s2c[k].type # "kexinit"
          BY <1>2, <4>1 DEF Inbound
        <4> QED BY <1>2, <1>3, <4>1, <4>2 DEF Inbound, client, ServerSends
      <3>2. CASE k = Len(s2c) + 1
        <4>1. \/ pos = "getreply" /\ packets = {} /\ Len(s2c) >= 2
              \/ pos = "getreply" /\ packets = {"reply"} /\ Len(s2c) >= 1
              \/ pos = "newkeys" /\ Len(s2c) >= 1
              \/ pos = "getnewkeys" /\ (packets = {"newkeys"} \/ Len(s2c) >= 1)
              \/ pos = "idle" /\ keys = round
          BY <1>2, <2>1, Positions DEF Pending, IInv, EndsOK, PacketsOK
        <4> QED BY <1>2, <1>3, <3>2, <4>1 DEF Inbound, client, ServerSends, Talk
      <3> QED BY <1>3, <3>1, <3>2 DEF ServerSends
    <2>5. Pending'
      BY <1>2, <1>3, <2>1, <2>2, <2>3 DEF Pending, client, ServerSends, IInv, EndsOK
    <2> QED BY <2>4, <2>5
  <1>8. SealsOK'
    <2> SUFFICES ASSUME ~peer.changed PROVE SealsOK'
      BY <1>2 DEF SealsOK
    <2>1. ASSUME NEW k \in 1..Len(s2c') PROVE InSeal(k)'
      <3>1. CASE k \in 1..Len(s2c)
        BY <1>2, <1>3, <1>4, <3>1, SteadyKeeps DEF IInv, SealsOK, InSeal, ServerSends, client
      <3>2. CASE k = Len(s2c) + 1
        BY <1>2, <1>3, <1>4, <3>2, SteadyKeeps
           DEF IInv, EndsOK, ServerSealsOK, InSeal, ServerSends, client
      <3> QED BY <1>3, <3>1, <3>2 DEF ServerSends
    <2>2. peer.pos # "closed" => \A k \in 1..Len(c2s) : OutSeal(k)'
      BY <1>2, <1>4, SteadyKeeps DEF IInv, SealsOK, OutSeal, client
    <2> QED BY <1>2, <1>4, <2>1, <2>2, SteadyKeeps DEF IInv, SealsOK, client
  <1> QED BY <1>2, <1>4, <1>5, <1>6, <1>7, <1>8, ClientSteady, SteadyKeeps DEF IInv

-----------------------------------------------------------------------------
(* The server takes the first packet that is under way to it.               *)
ServerTakes ==
    /\ c2s \in Seq(Packets) /\ Len(c2s) \in Nat /\ Len(c2s) >= 1
    /\ c2s' \in Seq(Packets) /\ Len(c2s') = Len(c2s) - 1 /\ Len(c2s') <= MaxQueue
    /\ \A k \in 1..(Len(c2s) - 1) : c2s'[k] = c2s[k + 1]
    /\ UNCHANGED client

LEMMA ServerTakesOne ==
  ASSUME IInv, ServerReceives
  PROVE  /\ ServerTakes /\ Head(c2s) = c2s[1]
         /\ ~peer.changed => c2s[1].seal = peer.in
  <1>1. c2s \in Seq(Packets) /\ c2s # <<>> /\ peer.pos # "closed"
    BY DEF IInv, TypeOK, Packets, ServerReceives
  <1>2. ServerTakes /\ Head(c2s) = c2s[1]
    BY <1>1, TailPackets, KeyExchangeAssumption DEF ServerTakes, ServerReceives, IInv, TypeOK
  <1>3. ASSUME ~peer.changed PROVE c2s[1].seal = peer.in
    <2>1. OutSeal(1)
      BY <1>1, <1>2, <1>3 DEF IInv, SealsOK, ServerTakes
    <2>2. round \in Nat /\ keys \in {round - 1, round} /\ (pos # "idle" => keys = round - 1)
      BY KeyExchangeAssumption DEF IInv, TypeOK, KeysOK
    <2>3. CASE peer.pos = "kexinit"
      BY <1>2, <1>3, <2>1, <2>3 DEF IInv, EndsOK, Outbound, ServerSealsOK, OutSeal, ServerTakes, Stuff
    <2>4. CASE peer.pos = "getkexinit"
      <3>1. CASE peer.round = round
        BY <1>2, <1>3, <2>1, <2>2, <2>4, <3>1 DEF IInv, EndsOK, ServerSealsOK, OutSeal
      <3>2. CASE peer.round = round + 1 /\ pos \in {"getnewkeys", "idle"} /\ (pos = "idle" => keys = round)
        <4>1. c2s[1].type \in Stuff /\ pos = "idle"
          BY <1>2, <2>2, <2>4, <3>2 DEF IInv, Outbound, IsStuff, ServerTakes
        <4> QED BY <1>3, <2>1, <2>2, <2>4, <3>2, <4>1 DEF IInv, ServerSealsOK, OutSeal
      <3> QED BY <2>4, <3>1, <3>2 DEF IInv, EndsOK
    <2>5. CASE peer.pos = "getrequest"
      BY <1>3, <2>1, <2>2, <2>5 DEF IInv, EndsOK, ServerSealsOK, OutSeal
    <2>6. CASE peer.pos = "getnewkeys"
      <3>1. c2s[1].type = "newkeys"
        BY <1>2, <2>6 DEF IInv, EndsOK, Outbound, ServerTakes
      <3> QED BY <1>3, <2>1, <2>2, <2>6, <3>1 DEF IInv, EndsOK, ServerSealsOK, OutSeal, Stuff
    <2>7. CASE peer.pos = "idle"
      <3>1. c2s[1].type \in Stuff /\ pos = "idle"
        BY <1>2, <2>7 DEF IInv, EndsOK, Outbound, IsStuff, ServerTakes
      <3> QED BY <1>3, <2>1, <2>2, <2>7, <3>1 DEF IInv, EndsOK, ServerSealsOK, OutSeal
    <2> QED BY <1>1, <2>3, <2>4, <2>5, <2>6, <2>7 DEF IInv, PeerRecords
  <1> QED BY <1>2, <1>3

(* The server gives up: it could not open a packet, or there are no common  *)
(* methods.                                                                 *)
LEMMA ServerCloses ==
  ASSUME IInv, ServerTakes, UNCHANGED s2c, peer' \in PeerRecords, peer'.pos = "closed",
         peer'.round = peer.round, peer'.offer = peer.offer, peer'.changed = peer.changed,
         peer'.complaint = peer.complaint \/ peer.changed
  PROVE  IInv'
  <1>1. UNCHANGED client
    BY DEF ServerTakes
  <1>2. \A n : SealOf(n)' = SealOf(n)
    BY DEF SealOf, Method
  <1>3. TypeOK'
    BY <1>1 DEF IInv, TypeOK, client, ServerTakes, Types, Seals, Methods, Packets
  <1>4. KeysOK' /\ EndsOK' /\ Outbound' /\ ServerSealsOK'
    BY <1>1 DEF IInv, KeysOK, EndsOK, Outbound, ServerSealsOK, client, Method, Methods, Agreed
  <1>5. InboundOK'
    <2> SUFFICES ASSUME failed # "mac"
                 PROVE  Pending' /\ \A k \in 1..Len(s2c) : Inbound(k)'
      BY <1>1 DEF InboundOK, client
    <2>1. Pending /\ \A k \in 1..Len(s2c) : Inbound(k)
      BY DEF IInv, InboundOK
    <2>2. Pending'
      BY <1>1, <2>1 DEF Pending, client
    <2>3. \A k \in 1..Len(s2c) : Inbound(k)'
      BY <1>1, <2>1 DEF Inbound, client
    <2> QED BY <2>2, <2>3
  <1>6. SealsOK'
    BY <1>1, <1>2 DEF IInv, SealsOK, InSeal, client
  <1> QED BY <1>1, <1>3, <1>4, <1>5, <1>6, ClientSteady DEF IInv

(* What the server's steps on one packet have in common: the packets behind *)
(* it keep their seals, and the client is where it was.                     *)
LEMMA Taken ==
  ASSUME IInv, ServerTakes, peer.pos # "closed", peer'.offer = peer.offer,
         peer'.changed = peer.changed
  PROVE  /\ KeysOK' /\ HalfOK' /\ PacketsOK' /\ OnlyAnswersInTheWay'
         /\ \A n : SealOf(n)' = SealOf(n)
         /\ ~peer.changed => \A k \in 1..Len(c2s') : OutSeal(k)'
  <1>1. UNCHANGED client
    BY DEF ServerTakes
  <1>2. \A n : SealOf(n)' = SealOf(n)
    BY DEF SealOf, Method
  <1>3. ASSUME ~peer.changed, NEW k \in 1..Len(c2s') PROVE OutSeal(k)'
    <2>1. OutSeal(k + 1) /\ c2s'[k] = c2s[k + 1]
      BY <1>3 DEF IInv, SealsOK, ServerTakes
    <2> QED BY <1>1, <1>2, <2>1 DEF OutSeal, client
  <1>4. KeysOK'
    BY <1>1 DEF IInv, KeysOK, client, Method, Methods, Agreed
  <1> QED BY <1>1, <1>2, <1>3, <1>4, ClientSteady

LEMMA ServerTakesTypes ==
  ASSUME IInv, ServerTakes, s2c' \in Seq(Packets), Len(s2c') <= MaxQueue
  PROVE  TypeOK'
  BY DEF IInv, TypeOK, client, ServerTakes, Types, Seals, Methods, Packets

(* A packet of the caller or an answer: never within an exchange.           *)
LEMMA ServerTakesStuff ==
  ASSUME IInv, ServerTakes, peer.pos # "closed", c2s[1].type \in Stuff, UNCHANGED s2c,
         peer' = peer \/ peer.pos \in {"getrequest", "getnewkeys"}
  PROVE  IInv'
  <1>1. peer.pos \in {"getkexinit", "idle"} /\ UNCHANGED client
    BY DEF IInv, EndsOK, Outbound, ServerTakes, Stuff, PeerRecords
  <1>2. Steady /\ UNCHANGED <<peer, failed, half, s2c>>
    BY <1>1 DEF Steady, client
  <1>3. TypeOK'
    BY <1>2, ServerTakesTypes DEF IInv, TypeOK, Packets
  <1>4. Outbound'
    <2>1. CASE peer.pos = "getkexinit" /\ peer.round = round
      <3>1. CASE pos = "kexinit"
        BY <1>2, <2>1, <3>1 DEF IInv, Outbound, IsStuff, ServerTakes, Steady
      <3>2. CASE pos \in {"getkexinit", "request", "init"}
        <4>1. Len(c2s) >= 2
          BY <2>1, <3>2 DEF IInv, Outbound, ServerTakes, Stuff
        <4>2. c2s'[Len(c2s')] = c2s[Len(c2s)] /\ Len(c2s') >= 1
          BY <4>1 DEF ServerTakes
        <4>3. \A k \in 1..(Len(c2s') - 1) : IsStuff(k)'
          <5>1. ASSUME NEW k \in 1..(Len(c2s') - 1) PROVE IsStuff(k)'
            <6>1. k + 1 \in 1..(Len(c2s) - 1) /\ c2s'[k] = c2s[k + 1]
              BY <4>1 DEF ServerTakes
            <6> QED BY <2>1, <3>2, <6>1 DEF IInv, Outbound, IsStuff
          <5> QED BY <5>1
        <4>4. c2s[Len(c2s)].type = "kexinit"
          BY <2>1, <3>2 DEF IInv, Outbound
        <4> QED BY <1>2, <2>1, <3>2, <4>2, <4>3, <4>4 DEF Outbound, Steady
      <3>3. CASE pos \in {"getgroup", "getreply"}
        <4>1. Len(c2s) >= 3
          BY <2>1, <3>3 DEF IInv, Outbound, ServerTakes, Stuff
        <4>2. /\ c2s'[Len(c2s')] = c2s[Len(c2s)]
              /\ c2s'[Len(c2s') - 1] = c2s[Len(c2s) - 1]
              /\ Len(c2s') >= 2
          BY <4>1 DEF ServerTakes
        <4>3. \A k \in 1..(Len(c2s') - 2) : IsStuff(k)'
          <5>1. ASSUME NEW k \in 1..(Len(c2s') - 2) PROVE IsStuff(k)'
            <6>1. k + 1 \in 1..(Len(c2s) - 2) /\ c2s'[k] = c2s[k + 1]
              BY <4>1 DEF ServerTakes
            <6> QED BY <2>1, <3>3, <6>1 DEF IInv, Outbound, IsStuff
          <5> QED BY <5>1
        <4>4. /\ c2s[Len(c2s)].type = IF pos = "getgroup" THEN "request" ELSE "init"
              /\ c2s[Len(c2s) - 1].type = "kexinit"
          BY <2>1, <3>3 DEF IInv, Outbound
        <4> QED BY <1>2, <2>1, <3>3, <4>2, <4>3, <4>4 DEF Outbound, Steady
      <3>4. CASE pos = "idle"
        BY <1>2, <2>1, <3>4 DEF IInv, Outbound, IsStuff, ServerTakes, Steady
      <3> QED BY <1>2, <2>1, <3>1, <3>2, <3>3, <3>4 DEF IInv, EndsOK, Outbound, Steady
    <2>2. CASE peer.pos = "idle" \/ (peer.pos = "getkexinit" /\ peer.round # round)
      BY <1>2, <2>2 DEF IInv, EndsOK, Outbound, IsStuff, ServerTakes, Steady
    <2> QED BY <1>1, <2>1, <2>2
  <1>5. InboundOK'
    <2> SUFFICES ASSUME failed # "mac"
                 PROVE  Pending' /\ \A k \in 1..Len(s2c) : Inbound(k)'
      BY <1>2 DEF InboundOK
    <2>1. Pending /\ \A k \in 1..Len(s2c) : Inbound(k)
      BY DEF IInv, InboundOK
    <2>2. HasType("group")' => HasType("group")
      BY <1>2 DEF HasType, Steady
    <2>3. Pending'
      BY <1>1, <1>2, <2>1, <2>2 DEF Pending, Steady
    <2>4. \A k \in 1..Len(s2c) : Inbound(k)'
      BY <1>2, <2>1 DEF Inbound, Steady
    <2> QED BY <2>3, <2>4
  <1>6. SealsOK'
    BY <1>1, <1>2, Taken DEF IInv, SealsOK, InSeal, Steady
  <1> QED BY <1>1, <1>2, <1>3, <1>4, <1>5, <1>6, SteadyKeeps, ClientSteady DEF IInv

(* A queue with nothing before its first packet.                            *)
LEMMA NothingBefore ==
  ASSUME NEW n \in Nat, n >= 1
  PROVE  /\ ~(1 \in 1..(n - 1)) => n = 1
         /\ n >= 2 /\ ~(1 \in 1..(n - 2)) => n = 2
  OBVIOUS

(* The client's KEXINIT, when there are common methods.                     *)
LEMMA ServerTakesKexinit ==
  ASSUME IInv, ServerTakes, c2s[1].type = "kexinit", peer.pos = "getkexinit", UNCHANGED s2c,
         Common, peer' = [peer EXCEPT !.pos = "getrequest", !.next = ServerKeys]
  PROVE  IInv'
  <1>1. /\ peer'.pos = "getrequest" /\ peer'.next = ServerKeys /\ peer'.round = peer.round
        /\ peer'.offer = peer.offer /\ peer'.changed = peer.changed
        /\ peer'.in = peer.in /\ peer'.out = peer.out /\ peer'.complaint = peer.complaint
    BY DEF IInv, PeerRecords
  <1>2. UNCHANGED client
    BY DEF ServerTakes
  <1>3. peer.round = round /\ pos \in {"getkexinit", "request", "getgroup", "init", "getreply"}
    <2>1. Len(c2s) >= 1 /\ ~IsStuff(1)
      BY DEF ServerTakes, IsStuff, Stuff
    <2>2. peer.round = round /\ pos # "idle"
      <3>1. round \in Nat /\ round + 1 # round
        BY DEF IInv, TypeOK
      <3>2. peer.round = round
        BY <2>1, <3>1 DEF IInv, EndsOK, Outbound, ServerTakes
      <3> QED BY <3>1, <3>2 DEF IInv, EndsOK
    <2>3. pos # "kexinit" /\ pos \notin {"newkeys", "getnewkeys"}
      BY <2>1, <2>2 DEF IInv, EndsOK, Outbound, ServerTakes, TypeOK
    <2> QED BY <2>2, <2>3, Positions DEF IInv, TypeOK, Sending
  <1>4. /\ pos \in {"getkexinit", "request", "init"} => Len(c2s) = 1
        /\ pos \in {"getgroup", "getreply"} => Len(c2s) = 2
    <2>1. Len(c2s) \in Nat /\ Len(c2s) >= 1 /\ ~IsStuff(1)
      BY DEF ServerTakes, IsStuff, Stuff
    <2>2. /\ pos \in {"getkexinit", "request", "init"} => \A k \in 1..(Len(c2s) - 1) : IsStuff(k)
          /\ pos \in {"getgroup", "getreply"} =>
                Len(c2s) >= 2 /\ \A k \in 1..(Len(c2s) - 2) : IsStuff(k)
      BY <1>3 DEF IInv, Outbound
    <2> HIDE DEF IsStuff
    <2>3. pos \in {"getkexinit", "request", "init"} => ~(1 \in 1..(Len(c2s) - 1))
      BY <2>1, <2>2
    <2>4. pos \in {"getgroup", "getreply"} => Len(c2s) >= 2 /\ ~(1 \in 1..(Len(c2s) - 2))
      BY <2>1, <2>2
    <2> QED BY <2>1, <2>3, <2>4, NothingBefore, Zenon
  <1>5. ServerKeys = SealOf(peer.round) /\ ServerKeys \in Seals
    <2>1. peer.round \in 1..MaxRounds /\ 1 \in 0..MaxRounds
      BY <1>3, KeyExchangeAssumption DEF IInv, TypeOK
    <2>2. Method \in Methods
      BY AgreedMethods DEF Common, Method
    <2>3. <<Method, peer.round, 1>> \in Seals
      BY <2>1, <2>2 DEF Seals
    <2> QED BY <2>1, <2>3 DEF ServerKeys, SealOf, Seal, Method
  <1>6. peer' \in PeerRecords
    BY <1>5 DEF IInv, PeerRecords, PeerSeals
  <1>7. TypeOK'
    BY ServerTakesTypes DEF IInv, TypeOK, Packets
  <1>8. EndsOK'
    BY <1>1, <1>2, <1>3 DEF EndsOK, Common, Method, client
  <1>9. Outbound'
    BY <1>1, <1>2, <1>3, <1>4 DEF IInv, Outbound, ServerTakes, client
  <1>10. InboundOK'
    <2> SUFFICES ASSUME failed # "mac"
                 PROVE  Pending' /\ \A k \in 1..Len(s2c) : Inbound(k)'
      BY <1>2 DEF InboundOK, client
    <2>1. Pending /\ \A k \in 1..Len(s2c) : Inbound(k)
      BY DEF IInv, InboundOK
    <2>2. ~HasType("group")
      BY <2>1 DEF Pending
    <2>3. ~HasType("group")'
      BY <1>2, <2>2 DEF HasType, client
    <2>4. \A k \in 1..Len(s2c) : Inbound(k)'
      BY <1>1, <1>2, <1>3, <2>1 DEF Inbound, client
    <2>5. pos = "getgroup" => s2c = <<>> /\ packets = {}
      <3> SUFFICES ASSUME pos = "getgroup" PROVE Len(s2c) = 0 /\ packets = {}
        BY NoPackets DEF IInv, TypeOK, Packets
      <3>1. \A k \in 1..Len(s2c) : FALSE
        BY <2>1, <2>2 DEF Inbound, Talk, HasType
      <3> QED BY <2>2, <3>1, NoPackets, Positions DEF HasType, IInv, PacketsOK, TypeOK, Packets
    <2>6. Pending'
      BY <1>1, <1>2, <1>3, <2>1, <2>3, <2>5 DEF Pending, client
    <2> QED BY <2>4, <2>6
  <1>11. ServerSealsOK'
    BY <1>1, <1>5, Taken DEF IInv, ServerSealsOK
  <1>12. SealsOK'
    BY <1>1, <1>2, Taken DEF IInv, SealsOK, InSeal, client
  <1> QED BY <1>1, <1>6, <1>7, <1>8, <1>9, <1>10, <1>11, <1>12, Taken DEF IInv

(* The request for a group: the answer is the only packet under way.        *)
LEMMA ServerTakesRequest ==
  ASSUME IInv, ServerTakes, c2s[1].type = "request", peer.pos = "getrequest", UNCHANGED peer,
         ServerSends("group")
  PROVE  IInv'
  <1>1. UNCHANGED client /\ Steady
    BY DEF ServerTakes, client, Steady
  <1>2. peer.round = round /\ pos = "getgroup" /\ Len(c2s) = 1
    BY DEF IInv, EndsOK, Outbound, ServerTakes
  <1>3. Len(c2s') = 0 /\ c2s' = <<>> /\ c2s # <<>>
    <2>1. c2s' \in Seq(Packets) /\ Len(c2s') = 0 /\ c2s \in Seq(Packets)
      BY <1>2 DEF ServerTakes
    <2>2. c2s' = <<>>
      BY <2>1, NoPackets
    <2>3. c2s # <<>>
      <3>1. Len(c2s) # 0
        BY <1>2
      <3> QED BY <2>1, <3>1, NoPackets, Zenon
    <2> QED BY <2>1, <2>2, <2>3
  <1>4. TypeOK'
    BY ServerTakesTypes DEF ServerSends
  <1>5. Outbound'
    BY <1>1, <1>2, <1>3 DEF Outbound, client
  <1>6. InboundOK'
    <2> SUFFICES ASSUME failed # "mac"
                 PROVE  Pending' /\ \A k \in 1..Len(s2c') : Inbound(k)'
      BY <1>1 DEF InboundOK, client
    <2>1. s2c = <<>> /\ packets = {} /\ Len(s2c) = 0
      BY <1>2, <1>3 DEF IInv, InboundOK, Pending
    <2>2. Len(s2c') = 1 /\ s2c'[1].type = "group"
      BY <2>1 DEF ServerSends
    <2>3. \A k \in 1..Len(s2c') : Inbound(k)'
      BY <1>1, <1>2, <2>1, <2>2 DEF Inbound, client, Talk
    <2>4. Pending'
      BY <1>1, <1>2, <1>3, <2>1 DEF Pending, client
    <2> QED BY <2>3, <2>4
  <1>7. SealsOK'
    <2> SUFFICES ASSUME ~peer.changed PROVE SealsOK'
      BY DEF SealsOK
    <2>1. ASSUME NEW k \in 1..Len(s2c') PROVE InSeal(k)'
      <3>1. CASE k \in 1..Len(s2c)
        BY <1>1, <3>1, SteadyKeeps DEF IInv, SealsOK, InSeal, ServerSends, client
      <3>2. CASE k = Len(s2c) + 1
        BY <1>1, <1>2, <3>2, SteadyKeeps DEF IInv, ServerSealsOK, InSeal, ServerSends, client, Talk
      <3> QED BY <3>1, <3>2 DEF ServerSends
    <2> QED BY <1>1, <2>1, Taken DEF IInv, SealsOK, client
  <1> QED BY <1>1, <1>4, <1>5, <1>6, <1>7, SteadyKeeps, ClientSteady DEF IInv

(* The client's half of the secret: reply and NEWKEYS, the last packets     *)
(* with the old keys.                                                       *)
LEMMA ServerTakesInit ==
  ASSUME IInv, ServerTakes, c2s[1].type = "init", peer.pos = "getrequest", Room(2),
         s2c' = s2c \o <<Out(peer, "reply"), Out(peer, "newkeys")>>,
         peer' = [peer EXCEPT !.pos = "getnewkeys", !.out = peer.next]
  PROVE  IInv'
  <1>1. /\ peer'.pos = "getnewkeys" /\ peer'.next = peer.next /\ peer'.round = peer.round
        /\ peer'.offer = peer.offer /\ peer'.changed = peer.changed
        /\ peer'.in = peer.in /\ peer'.out = peer.next /\ peer'.complaint = peer.complaint
    BY DEF IInv, PeerRecords
  <1>2. UNCHANGED client
    BY DEF ServerTakes
  <1>3. peer.round = round /\ pos = "getreply" /\ Len(c2s) = 1 /\ Len(c2s') = 0
    BY DEF IInv, EndsOK, Outbound, ServerTakes
  <1>4. /\ Out(peer, "reply") \in Packets /\ Out(peer, "newkeys") \in Packets
        /\ Out(peer, "reply").type = "reply" /\ Out(peer, "reply").seal = peer.out
        /\ Out(peer, "newkeys").type = "newkeys" /\ Out(peer, "newkeys").seal = peer.out
    BY DEF Out, Packet, Packets, IInv, PeerRecords, Types
  <1>5. /\ s2c \in Seq(Packets) /\ Len(s2c) \in Nat
        /\ s2c' \in Seq(Packets) /\ Len(s2c') = Len(s2c) + 2 /\ Len(s2c') <= MaxQueue
        /\ \A k \in 1..Len(s2c) : s2c'[k] = s2c[k]
        /\ s2c'[Len(s2c) + 1] = Out(peer, "reply")
        /\ s2c'[Len(s2c) + 2] = Out(peer, "newkeys")
    <2>1. s2c \in Seq(Packets)
      BY DEF IInv, TypeOK, Packets
    <2> HIDE DEF Out
    <2> QED BY <1>4, <2>1 DEF Room
  <1>6. peer' \in PeerRecords
    BY DEF IInv, PeerRecords, ServerSealsOK
  <1>7. TypeOK'
    BY <1>5, ServerTakesTypes
  <1>8. EndsOK'
    BY <1>1, <1>2, <1>3 DEF EndsOK, client
  <1>9. Outbound'
    BY <1>1, <1>2, <1>3 DEF Outbound, client
  <1>10. InboundOK'
    <2> SUFFICES ASSUME failed # "mac"
                 PROVE  Pending' /\ \A k \in 1..Len(s2c') : Inbound(k)'
      BY <1>2 DEF InboundOK, client
    <2>1. s2c = <<>> /\ packets = {} /\ Len(s2c) = 0
      BY <1>3 DEF IInv, InboundOK, Pending
    <2>2. Len(s2c') = 2 /\ s2c'[1].type = "reply" /\ s2c'[2].type = "newkeys"
      BY <1>4, <1>5, <2>1
    <2>3. \A k \in 1..Len(s2c') : Inbound(k)'
      BY <1>2, <1>3, <2>1, <2>2 DEF Inbound, client, Talk
    <2>4. ~HasType("group")'
      BY <1>2, <2>1, <2>2 DEF HasType, client
    <2>5. Pending'
      BY <1>1, <1>2, <1>3, <2>1, <2>2, <2>4 DEF Pending, client
    <2> QED BY <2>3, <2>5
  <1>11. ServerSealsOK'
    BY <1>1, Taken DEF IInv, ServerSealsOK
  <1>12. SealsOK'
    <2> SUFFICES ASSUME ~peer.changed PROVE SealsOK'
      BY <1>1 DEF SealsOK
    <2>1. ASSUME NEW k \in 1..Len(s2c') PROVE InSeal(k)'
      <3>1. CASE k \in 1..Len(s2c)
        BY <1>1, <1>2, <1>5, <3>1, Taken DEF IInv, SealsOK, InSeal, client
      <3>2. CASE k = Len(s2c) + 1 \/ k = Len(s2c) + 2
        BY <1>1, <1>2, <1>3, <1>4, <1>5, <3>2, Taken DEF IInv, ServerSealsOK, InSeal, client, Talk
      <3> QED BY <1>5, <3>1, <3>2
    <2> QED BY <1>1, <1>2, <2>1, Taken DEF IInv, SealsOK, client
  <1> QED BY <1>1, <1>6, <1>7, <1>8, <1>9, <1>10, <1>11, <1>12, Taken DEF IInv

(* The client's NEWKEYS: what follows is sealed with the new keys.          *)
LEMMA ServerTakesNewkeys ==
  ASSUME IInv, ServerTakes, c2s[1].type = "newkeys", peer.pos = "getnewkeys", UNCHANGED s2c,
         peer' = [peer EXCEPT !.pos = "idle", !.in = peer.next]
  PROVE  IInv'
  <1>1. /\ peer'.pos = "idle" /\ peer'.next = peer.next /\ peer'.round = peer.round
        /\ peer'.offer = peer.offer /\ peer'.changed = peer.changed
        /\ peer'.in = peer.next /\ peer'.out = peer.out /\ peer'.complaint = peer.complaint
    BY DEF IInv, PeerRecords
  <1>2. UNCHANGED client
    BY DEF ServerTakes
  <1>3. /\ peer.round = round /\ pos \in {"getnewkeys", "idle"} /\ (pos = "idle" => keys = round)
        /\ pos = "getnewkeys" => Len(c2s) = 1
        /\ pos = "idle" => \A k \in 2..Len(c2s) : IsStuff(k)
    BY DEF IInv, EndsOK, Outbound, ServerTakes
  <1>4. peer' \in PeerRecords
    BY DEF IInv, PeerRecords, ServerSealsOK
  <1>5. TypeOK'
    BY ServerTakesTypes DEF IInv, TypeOK, Packets
  <1>6. EndsOK'
    BY <1>1, <1>2, <1>3 DEF EndsOK, client
  <1>7. Outbound'
    BY <1>1, <1>2, <1>3 DEF Outbound, IsStuff, ServerTakes, client
  <1>8. InboundOK'
    <2> SUFFICES ASSUME failed # "mac"
                 PROVE  Pending' /\ \A k \in 1..Len(s2c) : Inbound(k)'
      BY <1>2 DEF InboundOK, client
    <2>1. Pending /\ \A k \in 1..Len(s2c) : Inbound(k)
      BY DEF IInv, InboundOK
    <2>2. ~HasType("group")'
      BY <1>2, <2>1 DEF HasType, client, Pending
    <2>3. \A k \in 1..Len(s2c) : Inbound(k)'
      BY <1>1, <1>2, <2>1 DEF Inbound, client
    <2>4. Pending'
      BY <1>1, <1>2, <1>3, <2>1, <2>2 DEF Pending, client
    <2> QED BY <2>3, <2>4
  <1>9. ServerSealsOK'
    BY <1>1, Taken DEF IInv, ServerSealsOK
  <1>10. SealsOK'
    BY <1>1, <1>2, Taken DEF IInv, SealsOK, InSeal, client
  <1> QED BY <1>1, <1>4, <1>5, <1>6, <1>7, <1>8, <1>9, <1>10, Taken DEF IInv

LEMMA ServerReceivesKeeps ==
  ASSUME IInv, ServerReceives
  PROVE  IInv'
  <1>1. ServerTakes /\ Head(c2s) = c2s[1] /\ (~peer.changed => c2s[1].seal = peer.in)
    BY ServerTakesOne
  <1>2. peer.pos # "closed" /\ peer \in PeerRecords
    BY DEF ServerReceives, IInv
  <1>3. CASE /\ c2s[1].seal # peer.in
             /\ peer' = [peer EXCEPT !.complaint = "seal", !.pos = "closed"]
             /\ UNCHANGED s2c
    <2>1. peer' \in PeerRecords
      BY <1>2, <1>3 DEF PeerRecords
    <2>2. /\ peer'.pos = "closed" /\ peer'.round = peer.round /\ peer'.offer = peer.offer
          /\ peer'.changed = peer.changed /\ peer.changed
      BY <1>1, <1>2, <1>3 DEF PeerRecords
    <2> QED BY <1>1, <1>3, <2>1, <2>2, ServerCloses
  <1>4. CASE /\ c2s[1].type \in Stuff /\ UNCHANGED s2c
             /\ peer' = peer \/ peer.pos \in {"getrequest", "getnewkeys"}
    BY <1>1, <1>2, <1>4, ServerTakesStuff
  <1>5. CASE /\ c2s[1].type = "kexinit" /\ peer.pos = "getkexinit" /\ UNCHANGED s2c
             /\ peer' = [peer EXCEPT !.pos = IF Common THEN "getrequest" ELSE "closed",
                                     !.next = ServerKeys]
    <2>1. CASE Common
      BY <1>1, <1>5, <2>1, ServerTakesKexinit
    <2>2. CASE ~Common
      <3>1. /\ peer'.pos = "closed" /\ peer'.round = peer.round /\ peer'.offer = peer.offer
            /\ peer'.changed = peer.changed /\ peer'.complaint = peer.complaint
        BY <1>2, <1>5, <2>2 DEF PeerRecords
      <3>2. ServerKeys \in PeerSeals
        <4>1. peer.round = 0 => ServerKeys = None
          BY DEF ServerKeys, Seal
        <4>2. peer.round # 0 => /\ ServerKeys = <<Method, peer.round, 1>>
                                /\ peer.round \in 1..MaxRounds /\ 1 \in 0..MaxRounds
          BY <1>2, KeyExchangeAssumption DEF ServerKeys, Seal, Method, PeerRecords
        <4>3. Method \in Methods \cup {None}
          BY AgreedMethods DEF Method
        <4> QED BY <4>1, <4>2, <4>3 DEF PeerSeals, Seals
      <3>3. peer' \in PeerRecords
        BY <1>2, <1>5, <2>2, <3>2 DEF PeerRecords
      <3> QED BY <1>1, <1>5, <3>1, <3>3, ServerCloses
    <2> QED BY <2>1, <2>2
  <1>6. CASE /\ c2s[1].type = "request" /\ peer.pos = "getrequest" /\ Room(1)
             /\ s2c' = Append(s2c, Out(peer, "group")) /\ UNCHANGED peer
    <2>1. ServerSends("group")
      BY <1>6, ServerSendsOne DEF Types
    <2> QED BY <1>1, <1>6, <2>1, ServerTakesRequest
  <1>7. CASE /\ c2s[1].type = "init" /\ peer.pos = "getrequest" /\ Room(2)
             /\ s2c' = s2c \o <<Out(peer, "reply"), Out(peer, "newkeys")>>
             /\ peer' = [peer EXCEPT !.pos = "getnewkeys", !.out = peer.next]
    BY <1>1, <1>7, ServerTakesInit
  <1>8. CASE /\ c2s[1].type = "newkeys" /\ peer.pos = "getnewkeys" /\ UNCHANGED s2c
             /\ peer' = [peer EXCEPT !.pos = "idle", !.in = peer.next]
    BY <1>1, <1>8, ServerTakesNewkeys
  <1> QED BY <1>1, <1>3, <1>4, <1>5, <1>6, <1>7, <1>8, Zenon
         DEF ServerReceives, Common, Method, Stuff

-----------------------------------------------------------------------------
LEMMA InitKeeps ==
  ASSUME Init
  PROVE  IInv
  <1>1. /\ peer.pos = "kexinit" /\ peer.round = 0 /\ peer.changed = FALSE
        /\ peer.in = None /\ peer.out = None /\ peer.complaint = None
        /\ pos = "kexinit" /\ round = 1 /\ keys = 0 /\ session_id = 0 /\ packets = {}
        /\ half = None /\ jump = FALSE /\ c2s = <<>> /\ s2c = <<>> /\ crypt = None
        /\ failed = None /\ badUse = {} /\ kex = None /\ unread = FALSE /\ api = "send"
    BY DEF Init
  <1>2. peer \in PeerRecords
    <2>1. None \in Seals /\ None \in PeerSeals /\ 0 \in 0..MaxRounds
      BY KeyExchangeAssumption DEF Seals, PeerSeals
    <2> QED BY <2>1 DEF Init, PeerRecords
  <1>3. TypeOK
    <2>1. /\ 1 \in 1..MaxRounds /\ 0 \in 0..1 /\ MaxQueue \in Nat
          /\ <<>> \in Seq(Packets) /\ Len(<<>>) = 0
      BY KeyExchangeAssumption
    <2>2. {} \subseteq Types /\ FALSE \in BOOLEAN
      OBVIOUS
    <2>3. /\ c2s \in Seq(Packets) /\ Len(c2s) <= MaxQueue
          /\ s2c \in Seq(Packets) /\ Len(s2c) <= MaxQueue
      BY <1>1, <2>1
    <2>4. /\ round \in 1..MaxRounds /\ keys \in 0..round /\ session_id \in {0, 1}
          /\ unread \in BOOLEAN /\ jump \in BOOLEAN /\ packets \subseteq Types
      BY <1>1, <2>1, <2>2
    <2> QED BY <1>1, <2>3, <2>4 DEF TypeOK, Sending, Packets
  <1>4. OnlyAnswersInTheWay /\ HalfOK /\ PacketsOK
    BY <1>1 DEF OnlyAnswersInTheWay, HalfOK, PacketsOK
  <1>5. KeysOK /\ EndsOK
    BY <1>1 DEF KeysOK, EndsOK, Agreed
  <1>6. Outbound
    BY <1>1 DEF Outbound
  <1>7. InboundOK
    BY <1>1 DEF InboundOK, Pending, HasType
  <1>8. ServerSealsOK /\ SealsOK
    BY <1>1, KeyExchangeAssumption DEF ServerSealsOK, SealsOK, SealOf, Seal
  <1> QED BY <1>2, <1>3, <1>4, <1>5, <1>6, <1>7, <1>8 DEF IInv

LEMMA StutterKeeps ==
  ASSUME IInv, UNCHANGED vars
  PROVE  IInv'
  <1>1. UNCHANGED client /\ UNCHANGED <<peer, c2s, s2c>> /\ Steady
    BY DEF vars, client, Steady
  <1>2. TypeOK' /\ Outbound'
    BY <1>1 DEF client, IInv, TypeOK, Types, Seals, Methods, Outbound, IsStuff
  <1>3. InboundOK'
    BY <1>1, InboundSteady DEF client
  <1>4. SealsOK'
    BY <1>1, SteadyKeeps DEF IInv, SealsOK, InSeal, OutSeal, client
  <1> QED BY <1>1, <1>2, <1>3, <1>4, SteadyKeeps, ClientSteady DEF IInv

(* The invariant holds in every state of every session, for any client's    *)
(* preferences, any server and any number of exchanges.                     *)
THEOREM Invariance == Spec => []IInv
  <1>1. Init => IInv
    BY InitKeeps
  <1>2. IInv /\ [Next]_vars => IInv'
    BY ClientKeeps, ServerKexinitKeeps, ServerTalksKeeps, ServerReceivesKeeps, StutterKeeps
       DEF Next, Server
  <1> QED BY <1>1, <1>2, PTL DEF Spec

(* The variables keep the shapes of the session, the server and the packets *)
(* under way: transport.c's queue bounds, kex.c's states.                   *)
THEOREM TypeCorrect == Spec => []TypeOK
  <1>1. IInv => TypeOK
    BY DEF IInv
  <1> QED BY <1>1, Invariance, PTL

(* kex_agree_methods and the NEWKEYS switch: while the methods agreed on    *)
(* stay the same, both ends open every packet with the keys it was sealed   *)
(* with.                                                                    *)
THEOREM SealsAlwaysMatch == Spec => []SealsMatch
  <1>1. IInv => SealsMatch
    BY KeyExchangeAssumption DEF IInv, SealsOK, SealsMatch
  <1> QED BY <1>1, Invariance, PTL

(* _libssh2_transport_send's redirection into the exchange and packet_add's *)
(* answers: the server never gets anything else between KEXINIT and         *)
(* NEWKEYS.                                                                 *)
THEOREM NothingElseInAnExchange == Spec => []OnlyKexPackets
  <1>1. IInv => OnlyKexPackets
    BY KeyExchangeAssumption DEF IInv, PeerRecords, OnlyKexPackets
  <1> QED BY <1>1, Invariance, PTL

(* send_existing refuses a packet only for packet_add's half sent answer,   *)
(* and only one of the caller's own.                                        *)
THEOREM OnlyAnswersRefuse == Spec => []OnlyAnswersInTheWay
  <1>1. IInv => OnlyAnswersInTheWay
    BY DEF IInv
  <1> QED BY <1>1, Invariance, PTL

-----------------------------------------------------------------------------
InWay(q, type) == \E j \in 1..Len(q) : q[j].type = type

(* Until a packet cannot be opened, what an end waits for is under way:     *)
(* the KEXINITs, and the group once the server has its request.             *)
KexinitComes ==
    pos \in {"kexinit", "getkexinit"} /\ packets = {} /\ peer.pos # "kexinit" => s2c # <<>>
GroupComes ==
    pos = "getgroup" /\ peer.pos = "getrequest" /\ c2s = <<>> => HasType("group")
NextComes ==
    peer.pos = "getkexinit" /\ peer.round # round => InWay(s2c, "kexinit")
RefusalComes ==
    peer.pos = "getkexinit" /\ pos = "idle" /\ keys # round => InWay(c2s, "kexinit")

WaitOK ==
    failed # "mac" /\ peer.pos # "closed" =>
        KexinitComes /\ GroupComes /\ NextComes /\ RefusalComes

(* A packet under way stays so behind the one that is taken, and before     *)
(* the ones that are sent.                                                  *)
LEMMA StillInWay ==
  ASSUME NEW q, NEW r, NEW type, Len(q) \in Nat, Len(r) \in Nat, InWay(q, type),
         \/ Len(r) >= Len(q) /\ \A j \in 1..Len(q) : r[j] = q[j]
         \/ /\ Len(q) >= 1 /\ Len(r) = Len(q) - 1 /\ q[1].type # type
            /\ \A j \in 1..(Len(q) - 1) : r[j] = q[j + 1]
  PROVE  InWay(r, type)
  <1>1. PICK j \in 1..Len(q) : q[j].type = type
    BY DEF InWay
  <1>2. CASE Len(r) >= Len(q) /\ \A i \in 1..Len(q) : r[i] = q[i]
    <2>1. j \in 1..Len(r) /\ r[j].type = type
      BY <1>1, <1>2
    <2> QED BY <2>1 DEF InWay
  <1>3. CASE /\ Len(q) >= 1 /\ Len(r) = Len(q) - 1 /\ q[1].type # type
             /\ \A i \in 1..(Len(q) - 1) : r[i] = q[i + 1]
    <2>1. j # 1 /\ j - 1 \in 1..(Len(q) - 1) /\ (j - 1) + 1 = j
      BY <1>1, <1>3
    <2>2. r[j - 1] = q[j]
      BY <1>3, <2>1
    <2>3. j - 1 \in 1..Len(r) /\ r[j - 1].type = type
      BY <1>1, <1>3, <2>1, <2>2
    <2> QED BY <2>3 DEF InWay
  <1> QED BY <1>2, <1>3

(* The server's KEXINIT comes to a client that is not in an exchange, or    *)
(* about to be over with one.                                               *)
LEMMA NextOnlyAtEnd ==
  ASSUME IInv, peer.pos = "getkexinit", peer.round # round
  PROVE  pos \in {"getnewkeys", "idle"} /\ (pos = "idle" => keys = round)
  BY DEF IInv, EndsOK

(* The client's steps in an exchange.                                       *)
LEMMA KexWaits ==
  ASSUME IInv, WaitOK, failed = None, Kex
  PROVE  WaitOK'
  <1> SUFFICES ASSUME failed' # "mac", peer'.pos # "closed"
               PROVE  KexinitComes' /\ GroupComes' /\ NextComes' /\ RefusalComes'
    BY DEF WaitOK
  <1>1. UNCHANGED <<peer, s2c, round>>
    BY DEF Kex, KexSend, KexAgree, KexGroup, KexSwitch
  <1>2. KexinitComes /\ GroupComes /\ NextComes /\ RefusalComes
    BY <1>1, KeyExchangeAssumption DEF WaitOK
  <1>3. NextComes'
    BY <1>1, <1>2 DEF NextComes, InWay
  <1>4. CASE KexSend
    <2>1. pos \in Sending /\ pos \in Types /\ UNCHANGED <<packets, keys>> /\ pos # "idle"
      BY <1>4 DEF KexSend, Sending, Types
    <2>2. CASE Sends(pos) /\ pos' = After[pos]
      <3>1. SendEffect(pos)
        BY <2>1, <2>2, SendsOne
      <3>2. c2s' # <<>>
        BY <3>1, NoPackets DEF SendEffect
      <3>3. pos' # "idle" /\ (pos' \in {"kexinit", "getkexinit"} => pos = "kexinit")
        BY <2>1, <2>2, Positions DEF Sending
      <3> QED BY <1>1, <1>2, <1>3, <2>1, <3>2, <3>3
              DEF KexinitComes, GroupComes, RefusalComes
    <2>3. CASE Again(pos) /\ UNCHANGED pos
      BY <1>1, <1>2, <1>3, <2>1, <2>3
         DEF Again, KexinitComes, GroupComes, RefusalComes, HasType, InWay
    <2>4. CASE BadUse(pos)
      BY <2>1, <2>4 DEF BadUse, Refused, IInv, HalfOK, Sending
    <2> QED BY <1>4, <2>2, <2>3, <2>4 DEF KexSend
  <1>5. CASE KexAgree
    <2>1. pos = "getkexinit" /\ pos' \in {"idle", "request", "init"} /\ UNCHANGED <<keys, c2s>>
      BY <1>5 DEF KexAgree
    <2>2. ASSUME peer.pos = "getkexinit" PROVE InWay(c2s, "kexinit")
      <3>1. peer.round = round
        BY <2>1, <2>2, NextOnlyAtEnd
      <3>2. Len(c2s) \in Nat
        BY NoPackets DEF IInv, TypeOK, Packets
      <3>3. Len(c2s) >= 1 /\ c2s[Len(c2s)].type = "kexinit"
        BY <2>1, <2>2, <3>1 DEF IInv, Outbound
      <3> QED BY <3>2, <3>3 DEF InWay
    <2> QED BY <1>1, <1>3, <2>1, <2>2 DEF KexinitComes, GroupComes, RefusalComes, InWay
  <1>6. CASE KexGroup
    <2>1. pos' \in {"init", "newkeys"}
      BY <1>6 DEF KexGroup
    <2> QED BY <1>3, <2>1 DEF KexinitComes, GroupComes, RefusalComes
  <1>7. CASE KexSwitch
    <2>1. pos' = "idle" /\ keys' = round
      BY <1>7 DEF KexSwitch
    <2> QED BY <1>1, <1>3, <2>1 DEF KexinitComes, GroupComes, RefusalComes
  <1> QED BY <1>4, <1>5, <1>6, <1>7 DEF Kex

(* A packet is read.                                                        *)
LEMMA ReceiveWaits ==
  ASSUME IInv, WaitOK, failed = None, Receive
  PROVE  WaitOK'
  <1> SUFFICES ASSUME failed' # "mac", peer'.pos # "closed"
               PROVE  KexinitComes' /\ GroupComes' /\ NextComes' /\ RefusalComes'
    BY DEF WaitOK
  <1>1. /\ UNCHANGED <<peer, keys>> /\ Reading /\ s2c # <<>> /\ s2c' = Tail(s2c)
        /\ s2c \in Seq(Packets) /\ Head(s2c) = s2c[1] /\ PacketAdd(s2c[1].type)
    BY TailPackets DEF Receive, IInv, TypeOK, Packets
  <1>2. KexinitComes /\ GroupComes /\ NextComes /\ RefusalComes
    BY <1>1, KeyExchangeAssumption DEF WaitOK
  <1>3. /\ Len(s2c) \in Nat /\ Len(s2c) >= 1 /\ Len(s2c') \in Nat /\ Len(s2c') = Len(s2c) - 1
        /\ \A k \in 1..(Len(s2c) - 1) : s2c'[k] = s2c[k + 1]
    BY <1>1, TailPackets
  <1>4. s2c[1].type # "kexinit" /\ InWay(s2c, "kexinit") => InWay(s2c', "kexinit")
    BY <1>3, StillInWay
  <1>5. /\ packets' = Queued(s2c[1].type)
        /\ IF s2c[1].type = "kexinit" /\ pos = "idle"
           THEN pos' = "kexinit" /\ round' = round + 1
           ELSE UNCHANGED <<pos, round>>
    BY <1>1 DEF PacketAdd
  <1>6. Inbound(1)
    BY <1>1, <1>3, ReadingClient
  <1>7. CASE pos = "idle" /\ keys = round /\ s2c[1].type \in Talk
    BY <1>1, <1>2, <1>4, <1>5, <1>7
       DEF KexinitComes, GroupComes, NextComes, RefusalComes, InWay, Talk
  <1>8. CASE pos = "idle" /\ s2c[1].type = "kexinit"
    <2>1. peer.round = round + 1 /\ packets' # {}
      BY <1>5, <1>6, <1>8 DEF Inbound, Queued
    <2> QED BY <1>1, <1>5, <1>8, <2>1 DEF KexinitComes, GroupComes, NextComes, RefusalComes
  <1>9. CASE pos \in {"getkexinit", "getgroup", "getreply"} /\ packets = {}
                /\ s2c[1].type = Awaits[pos]
    <2>1. packets' = {Awaits[pos]} /\ UNCHANGED <<pos, round>>
      BY <1>5, <1>9, Positions DEF Queued
    <2>2. NextComes'
      BY <1>1, <1>9, <2>1, NextOnlyAtEnd DEF NextComes
    <2> QED BY <1>1, <1>9, <2>1, <2>2, Positions
            DEF KexinitComes, GroupComes, RefusalComes, HasType
  <1>10. CASE pos = "getnewkeys" /\ s2c[1].type = "newkeys"
    BY <1>1, <1>2, <1>4, <1>5, <1>10
       DEF KexinitComes, GroupComes, NextComes, RefusalComes, InWay
  <1> QED BY <1>1, <1>7, <1>8, <1>9, <1>10, ReadingClient, Positions

(* The client's steps outside an exchange only add to what is under way.    *)
LEMMA OtherWaits ==
  ASSUME IInv, WaitOK, failed = None, Retry \/ Closed \/ LeaveRead \/ Send
  PROVE  WaitOK'
  <1> SUFFICES ASSUME failed' # "mac", peer'.pos # "closed"
               PROVE  KexinitComes' /\ GroupComes' /\ NextComes' /\ RefusalComes'
    BY DEF WaitOK
  <1>1. UNCHANGED <<peer, s2c, round, pos, packets, keys>>
    BY DEF Retry, Closed, LeaveRead, Send
  <1>2. KexinitComes /\ GroupComes /\ NextComes /\ RefusalComes
    BY <1>1, KeyExchangeAssumption DEF WaitOK
  <1>3. KexinitComes' /\ NextComes'
    BY <1>1, <1>2 DEF KexinitComes, NextComes, InWay
  <1>4. UNCHANGED c2s \/ (pos = "idle" /\ \E type \in Types : SendEffect(type))
    <2>1. CASE Retry
      <3>1. Sends("answer") /\ pos = "idle" /\ "answer" \in Types
        BY <2>1 DEF Retry, IInv, HalfOK, Types
      <3> QED BY <3>1, SendsOne
    <2>2. CASE Send
      <3>1. pos = "idle" /\ "channel" \in Types
        BY <2>2 DEF Send, Redirected, Types
      <3> QED BY <2>2, <3>1, SendsOne DEF Send, Again, BadUse
    <2> QED BY <2>1, <2>2 DEF Closed, LeaveRead
  <1>5. CASE UNCHANGED c2s
    BY <1>1, <1>2, <1>3, <1>5 DEF GroupComes, RefusalComes, HasType, InWay
  <1>6. CASE pos = "idle" /\ \E type \in Types : SendEffect(type)
    <2>1. InWay(c2s, "kexinit") => InWay(c2s', "kexinit")
      <3>1. /\ Len(c2s) \in Nat /\ Len(c2s') = Len(c2s) + 1
            /\ \A k \in 1..Len(c2s) : c2s'[k] = c2s[k]
        BY <1>6 DEF SendEffect
      <3>2. Len(c2s') \in Nat /\ Len(c2s') >= Len(c2s)
        BY <3>1
      <3> QED BY <3>1, <3>2, StillInWay
    <2> QED BY <1>1, <1>2, <1>3, <1>6, <2>1 DEF GroupComes, RefusalComes, InWay
  <1> QED BY <1>4, <1>5, <1>6

(* The server sends.                                                        *)
LEMMA ServerSendWaits ==
  ASSUME IInv, WaitOK, ServerKexinit \/ ServerTalks
  PROVE  WaitOK'
  <1> SUFFICES ASSUME failed' # "mac", peer'.pos # "closed"
               PROVE  KexinitComes' /\ GroupComes' /\ NextComes' /\ RefusalComes'
    BY DEF WaitOK
  <1>1. UNCHANGED <<pos, round, keys, packets, failed, c2s>>
    BY DEF ServerKexinit, ServerTalks, client
  <1>2. CASE ServerKexinit
    <2>1. ServerSends("kexinit")
      BY <1>2, ServerSendsOne DEF ServerKexinit, Types
    <2>2. /\ peer.pos \in {"kexinit", "idle"}
          /\ \E o \in Offers : peer' = [peer EXCEPT !.pos = "getkexinit", !.round = @ + 1, !.offer = o,
                !.changed = @ \/ Chosen(CryptPrefs, o.crypt)
                                   # Chosen(CryptPrefs, peer.offer.crypt)]
      BY <1>2 DEF ServerKexinit
    <2>3. peer'.pos = "getkexinit"
      BY <2>2 DEF IInv, PeerRecords
    <2>4. s2c' # <<>> /\ InWay(s2c', "kexinit")
      <3>1. Len(s2c') = Len(s2c) + 1 /\ Len(s2c) \in Nat /\ s2c' \in Seq(Packets)
            /\ s2c'[Len(s2c) + 1].type = "kexinit"
        BY <2>1 DEF ServerSends
      <3>2. Len(s2c) + 1 \in 1..Len(s2c')
        BY <3>1
      <3> QED BY <3>1, <3>2, NoPackets DEF InWay
    <2>5. pos = "idle" => keys = round
      BY <2>2 DEF IInv, EndsOK
    <2> QED BY <1>1, <2>3, <2>4, <2>5 DEF KexinitComes, GroupComes, NextComes, RefusalComes, InWay
  <1>3. CASE ServerTalks
    <2>1. UNCHANGED peer /\ peer.pos \in {"idle", "getnewkeys"}
      BY <1>3 DEF ServerTalks
    <2>2. pos \notin {"kexinit", "getkexinit"}
      BY <2>1 DEF IInv, EndsOK
    <2> QED BY <1>1, <2>1, <2>2 DEF KexinitComes, GroupComes, NextComes, RefusalComes
  <1> QED BY <1>2, <1>3

(* The server takes a packet.                                               *)
LEMMA ServerReceivesWaits ==
  ASSUME IInv, WaitOK, ServerReceives, IInv'
  PROVE  WaitOK'
  <1> SUFFICES ASSUME failed' # "mac", peer'.pos # "closed"
               PROVE  KexinitComes' /\ GroupComes' /\ NextComes' /\ RefusalComes'
    BY DEF WaitOK
  <1>1. ServerTakes /\ Head(c2s) = c2s[1] /\ peer.pos # "closed" /\ peer \in PeerRecords
    BY ServerTakesOne DEF ServerReceives, IInv
  <1>2. UNCHANGED <<pos, round, keys, packets, failed>>
    BY <1>1 DEF ServerTakes, client
  <1>3. KexinitComes /\ GroupComes /\ NextComes /\ RefusalComes
    BY <1>1, <1>2 DEF WaitOK
  <1>4. /\ Len(c2s) \in Nat /\ Len(c2s) >= 1 /\ Len(c2s') \in Nat /\ Len(c2s') = Len(c2s) - 1
        /\ \A k \in 1..(Len(c2s) - 1) : c2s'[k] = c2s[k + 1] /\ c2s' \in Seq(Packets)
    BY <1>1 DEF ServerTakes
  <1>5. CASE c2s[1].type \in Stuff /\ UNCHANGED s2c /\ UNCHANGED peer /\ peer.pos # "getrequest"
    <2>1. InWay(c2s, "kexinit") => InWay(c2s', "kexinit")
      BY <1>4, <1>5, StillInWay DEF Stuff
    <2> QED BY <1>2, <1>3, <1>5, <2>1 DEF KexinitComes, GroupComes, NextComes, RefusalComes, InWay
  <1>6. CASE peer.pos = "getkexinit" /\ UNCHANGED s2c /\ peer'.pos = "getrequest"
    <2>1. pos = "getgroup" => c2s' # <<>>
      <3>1. ASSUME pos = "getgroup" PROVE Len(c2s) >= 2
        BY <1>6, <3>1, NextOnlyAtEnd DEF IInv, Outbound
      <3>2. Len(c2s) >= 2 => Len(c2s') # 0
        BY <1>4
      <3>3. c2s' = <<>> => Len(c2s') = 0
        OBVIOUS
      <3> QED BY <3>1, <3>2, <3>3
    <2> QED BY <1>2, <1>3, <1>6, <2>1 DEF KexinitComes, GroupComes, NextComes, RefusalComes
  <1>7. CASE ServerSends("group") /\ peer.pos = "getrequest" /\ UNCHANGED peer
    <2>1. /\ Len(s2c') = Len(s2c) + 1 /\ Len(s2c) \in Nat /\ s2c' \in Seq(Packets)
          /\ s2c'[Len(s2c) + 1].type = "group"
      BY <1>7 DEF ServerSends
    <2>2. Len(s2c) + 1 \in 1..Len(s2c') /\ s2c' # <<>>
      BY <2>1, NoPackets
    <2> QED BY <1>2, <1>7, <2>1, <2>2 DEF KexinitComes, GroupComes, NextComes, RefusalComes, HasType
  <1>8. CASE peer'.pos \in {"getnewkeys", "idle"}
    <2>1. pos' \notin {"kexinit", "getkexinit"}
      BY <1>8 DEF IInv, EndsOK
    <2> QED BY <1>8, <2>1 DEF KexinitComes, GroupComes, NextComes, RefusalComes
  <1> DEFINE A == c2s[1].type \in Stuff /\ UNCHANGED s2c /\ UNCHANGED peer /\ peer.pos # "getrequest"
             B == peer.pos = "getkexinit" /\ UNCHANGED s2c /\ peer'.pos = "getrequest"
             C == ServerSends("group") /\ peer.pos = "getrequest" /\ UNCHANGED peer
             D == peer'.pos \in {"getnewkeys", "idle"}
  <1>9. A \/ B \/ C \/ D
    <2>1. \A s, t, u : /\ [peer EXCEPT !.complaint = s, !.pos = t].pos = t
                       /\ [peer EXCEPT !.pos = t, !.next = u].pos = t
                       /\ [peer EXCEPT !.pos = t, !.out = u].pos = t
                       /\ [peer EXCEPT !.pos = t, !.in = u].pos = t
      BY <1>1 DEF PeerRecords
    <2>2. Room(1) /\ s2c' = Append(s2c, Out(peer, "group")) => ServerSends("group")
      BY ServerSendsOne DEF Types
    <2>3. CASE c2s[1].seal # peer.in /\ peer' = [peer EXCEPT !.complaint = "seal", !.pos = "closed"]
      BY <2>1, <2>3
    <2>4. CASE /\ c2s[1].type \in {"channel", "answer"} /\ UNCHANGED s2c
               /\ peer' = IF peer.pos \in {"getrequest", "getnewkeys"}
                          THEN [peer EXCEPT !.complaint = "unexpected", !.pos = "closed"]
                          ELSE peer
      BY <2>1, <2>4 DEF Stuff
    <2>5. CASE /\ peer.pos = "getkexinit" /\ UNCHANGED s2c
               /\ peer' = [peer EXCEPT !.pos = IF Common THEN "getrequest" ELSE "closed",
                                       !.next = ServerKeys]
      BY <2>1, <2>5
    <2>6. CASE /\ peer.pos = "getrequest" /\ Room(1)
               /\ s2c' = Append(s2c, Out(peer, "group")) /\ UNCHANGED peer
      BY <2>2, <2>6
    <2>7. CASE peer' = [peer EXCEPT !.pos = "getnewkeys", !.out = peer.next]
      BY <2>1, <2>7
    <2>8. CASE peer' = [peer EXCEPT !.pos = "idle", !.in = peer.next]
      BY <2>1, <2>8
    <2> HIDE DEF A, B, C, D
    <2> QED BY <1>1, <2>3, <2>4, <2>5, <2>6, <2>7, <2>8, Zenon DEF ServerReceives, Common, Method
  <1> QED BY <1>5, <1>6, <1>7, <1>8, <1>9

(* What each end waits for is under way, in any number of exchanges.        *)
THEOREM WaitedForComes == Spec => []WaitOK
  <1>1. Init => WaitOK
    BY DEF Init, WaitOK, KexinitComes, GroupComes, NextComes, RefusalComes
  <1>2. IInv /\ IInv' /\ WaitOK /\ [Next]_vars => WaitOK'
    <2> SUFFICES ASSUME IInv, IInv', WaitOK, [Next]_vars PROVE WaitOK'
      OBVIOUS
    <2>1. CASE Client
      BY <2>1, KexWaits, ReceiveWaits, OtherWaits DEF Client
    <2>2. CASE Server
      BY <2>2, ServerSendWaits, ServerReceivesWaits DEF Server
    <2>3. CASE UNCHANGED vars
      BY <2>3 DEF vars, client, WaitOK, KexinitComes, GroupComes, NextComes, RefusalComes,
         HasType, InWay
    <2> QED BY <2>1, <2>2, <2>3 DEF Next
  <1> QED BY <1>1, <1>2, Invariance, PTL DEF Spec

(* _libssh2_packet_require never waits for a server that waits in turn      *)
(* (kex.c, packet.c): in an exchange, a client that reads with nothing      *)
(* under way to it has sent what the server takes next, or the server has   *)
(* yet to begin.                                                            *)
THEOREM NobodyWaitsInVain == Spec => []NoMutualWait
  <1>1. IInv /\ WaitOK => NoMutualWait
    <2> SUFFICES ASSUME IInv, WaitOK, failed = None, peer.pos # "closed", peer.pos # "kexinit",
                        Reading, s2c = <<>>, pos # "idle" \/ peer.pos # "idle"
                 PROVE  c2s # <<>> /\ Served(Head(c2s))
      BY DEF NoMutualWait
    <2>1. /\ KexinitComes /\ GroupComes /\ NextComes /\ RefusalComes
          /\ failed # "mac" /\ Pending
      BY KeyExchangeAssumption DEF WaitOK, IInv, InboundOK
    <2>2. Len(s2c) = 0 /\ ~InWay(s2c, "kexinit")
      BY DEF InWay
    <2>3. pos \in {"idle", "getkexinit", "getgroup", "getreply", "getnewkeys"} /\ packets = {}
      BY Positions DEF Reading, Ready, IInv, PacketsOK
    <2>4. c2s \in Seq(Packets) /\ Len(c2s) \in Nat /\ (c2s = <<>> <=> Len(c2s) = 0)
      BY NoPackets DEF IInv, TypeOK, Packets
    <2>5. pos # "getnewkeys" /\ pos # "getkexinit"
      BY <2>1, <2>2, <2>3 DEF Pending, KexinitComes
    <2>6. c2s # <<>> => Head(c2s) = c2s[1] /\ Len(c2s) >= 1
      BY <2>4, TailPackets
    <2>7. CASE pos = "getgroup"
      <3>1. ~HasType("group")
        BY <2>2, <2>3 DEF HasType
      <3>2. c2s # <<>>
        BY <2>1, <2>4, <2>7, <3>1, NextOnlyAtEnd
           DEF GroupComes, IInv, EndsOK, Outbound, PeerRecords
      <3> QED BY <2>4, <2>6, <2>7, <3>2, NextOnlyAtEnd
              DEF Served, IInv, EndsOK, Outbound, IsStuff, Stuff, PeerRecords
    <2>8. CASE pos = "getreply"
      <3>1. c2s # <<>> /\ peer.pos \in {"getkexinit", "getrequest"}
        BY <2>1, <2>2, <2>3, <2>4, <2>8, NextOnlyAtEnd
           DEF Pending, IInv, EndsOK, Outbound, PeerRecords
      <3> QED BY <2>4, <2>6, <2>8, <3>1, NextOnlyAtEnd
              DEF Served, IInv, EndsOK, Outbound, IsStuff, Stuff
    <2>9. CASE pos = "idle"
      <3>1. peer.pos \in {"getkexinit", "getnewkeys"}
        BY <2>9 DEF IInv, EndsOK, PeerRecords
      <3>2. peer.pos = "getkexinit" => peer.round = round /\ keys # round /\ InWay(c2s, "kexinit")
        <4>1. round \in Nat
          BY KeyExchangeAssumption DEF IInv, TypeOK
        <4>2. ASSUME peer.pos = "getkexinit" PROVE peer.round = round
          BY <2>1, <2>2, <4>2 DEF NextComes
        <4>3. ASSUME peer.pos = "getkexinit" PROVE keys # round
          BY <2>9, <4>1, <4>2, <4>3 DEF IInv, EndsOK
        <4> QED BY <2>1, <2>9, <4>2, <4>3 DEF RefusalComes
      <3>3. c2s # <<>>
        BY <2>4, <2>9, <3>1, <3>2 DEF InWay, IInv, Outbound
      <3> QED BY <2>4, <2>6, <2>9, <3>1, <3>2, <3>3
              DEF Served, IInv, EndsOK, Outbound, IsStuff, Stuff
    <2> QED BY <2>3, <2>5, <2>7, <2>8, <2>9
  <1> QED BY <1>1, Invariance, WaitedForComes, PTL

=============================================================================
