----------------------------- MODULE KeyExchange -----------------------------
(***************************************************************************)
(* The session's packets while keys are exchanged: kex.c, packet_add's     *)
(* answers to requests and to the server's KEXINIT (packet.c), and         *)
(* _libssh2_transport_send with its half sent packet (transport.c).  Every *)
(* send may stop half way with EAGAIN and be taken up by another call of   *)
(* the API, and the server may ask for new keys while a command runs.      *)
(***************************************************************************)
EXTENDS Naturals, Sequences

CONSTANTS
    KexPrefs,    \* libssh2_kex_methods, in order: "gex" or "group"
    CryptPrefs,  \* the ciphers and MACs of the client, in order
    Offers,      \* what servers offer: records of two sets, kex and crypt
    MaxRounds,   \* bound on the exchanges of a session, the first included
    MaxQueue,    \* bound on the packets under way in each direction
    None         \* NULL: no packet, no method, no seal, no error

ASSUME KeyExchangeAssumption ==
    /\ MaxRounds \in Nat \ {0} /\ MaxQueue \in Nat \ {0}
    /\ KexPrefs \in Seq({"gex", "group"})
    /\ DOMAIN CryptPrefs = 1..Len(CryptPrefs) /\ Len(CryptPrefs) \in Nat
    /\ None \notin {CryptPrefs[i] : i \in DOMAIN CryptPrefs}
    /\ None \notin {"gex", "group", "kex", "mac", "socket", "bad_use", "seal",
                    "unexpected"}

VARIABLES
    pos,        \* what the exchange does next; "idle": not EXCHANGING_KEYS
    round,      \* exchanges the client has begun
    kex,        \* session->kex
    crypt,      \* session->local.crypt and remote.crypt
    keys,       \* the exchange that crypt_abstract was made from, 0: none
    session_id, \* the exchange whose hash is the session id, 0: none
    packets,    \* the brigade: types of the exchange's packets in it
    unread,     \* channel data is in the brigade
    api,        \* what the caller is doing: "read", or "send" a packet
    half,       \* the packet of which outbuf still holds a part, or None
    jump,       \* readPack_state is jump1: half is packet_add's reply
    badUse,     \* history: what was sent with which packet half sent
    failed,     \* the error the caller got, or None
    peer,       \* the server: its position, keys and offers
    c2s, s2c    \* packets under way

client == <<pos, round, kex, crypt, keys, session_id, packets, unread, api,
            half, jump, badUse, failed>>
vars == <<client, peer, c2s, s2c>>

(* kex_agree_crypt and its like: the first of the client's methods that the *)
(* server offers.                                                           *)
Agree(prefs, offer) ==
    LET common == {i \in DOMAIN prefs : prefs[i] \in offer}
    IN  IF common = {} THEN None
        ELSE prefs[CHOOSE i \in common : \A j \in common : i <= j]

(* What a packet is sealed with: the cipher that is set, keyed with the     *)
(* secret and the session id of the exchanges that made crypt_abstract.     *)
Seal(method, secret, id) == IF secret = 0 THEN None ELSE <<method, secret, id>>
ClientSeal == Seal(crypt, keys, session_id)

Packet(type, seal) == [type |-> type, seal |-> seal]

Init ==
    /\ pos = "kexinit" /\ round = 1
    /\ kex = None /\ crypt = None /\ keys = 0 /\ session_id = 0
    /\ packets = {} /\ unread = FALSE /\ api = "send"
    /\ half = None /\ jump = FALSE /\ badUse = {} /\ failed = None
    /\ peer \in [pos : {"kexinit"}, round : {0}, offer : Offers,
                 changed : {FALSE}, in : {None}, out : {None},
                 next : {None}, complaint : {None}]
    /\ c2s = <<>> /\ s2c = <<>>

-----------------------------------------------------------------------------
(* _libssh2_transport_send and send_existing.  A packet is sealed when it   *)
(* is first given; it goes out whole, or the rest of it is kept and has to  *)
(* be given again; any other packet is refused while a part is kept.        *)
Sends(type) ==
    \/ /\ half = None
       /\ Len(c2s) < MaxQueue
       /\ c2s' = Append(c2s, Packet(type, ClientSeal))
       /\ UNCHANGED half
    \/ /\ half # None /\ half.type = type
       /\ Len(c2s) < MaxQueue
       /\ c2s' = Append(c2s, half)
       /\ half' = None

Again(type) ==
    /\ half = None
    /\ half' = Packet(type, ClientSeal)
    /\ UNCHANGED c2s

Refused(type) == half # None /\ half.type # type

(* send_existing returns LIBSSH2_ERROR_BAD_USE.                             *)
BadUse(type) ==
    /\ Refused(type)
    /\ badUse' = badUse \cup {<<half.type, type>>}
    /\ UNCHANGED <<half, c2s>>

(* The positions at which the exchange sends a packet, and where it goes    *)
(* on: kexinit, the group exchange's request, and diffie_hellman_sha256.    *)
Sending == {"kexinit", "request", "init", "newkeys"}
Awaits == [p \in {"getkexinit", "getgroup", "getreply", "getnewkeys"} |->
              CASE p = "getkexinit" -> "kexinit" [] p = "getgroup" -> "group"
                [] p = "getreply" -> "reply" [] p = "getnewkeys" -> "newkeys"]
After == [p \in Sending |->
             CASE p = "kexinit" -> "getkexinit" [] p = "request" -> "getgroup"
               [] p = "init" -> "getreply" [] p = "newkeys" -> "getnewkeys"]

(* Any call of the API is redirected into the exchange until it is over, so *)
(* the exchange's steps do not depend on api.                               *)
KexSend ==
    /\ pos \in Sending
    /\ \/ Sends(pos) /\ pos' = After[pos] /\ UNCHANGED badUse
       \/ Again(pos) /\ UNCHANGED <<pos, badUse>>
       \/ BadUse(pos) /\ pos' = "idle"
    /\ UNCHANGED <<round, kex, crypt, keys, session_id, packets, unread, api,
                   jump, failed, peer, s2c>>

(* The packet that _libssh2_packet_require waits for is in the brigade.     *)
Ready == pos \in DOMAIN Awaits /\ Awaits[pos] \in packets
Took == packets' = packets \ {Awaits[pos]}

(* _libssh2_kex_exchange with kex_agree_methods, which sets the ciphers     *)
(* long before there are keys for them.  Without common methods the first   *)
(* exchange fails; a later one fails the call that was redirected into it,  *)
(* and goes unnoticed in packet_add.                                        *)
KexAgree ==
    /\ Ready /\ pos = "getkexinit"
    /\ Took
    /\ LET k == Agree(KexPrefs, peer.offer.kex)
           c == Agree(CryptPrefs, peer.offer.crypt)
       IN  /\ kex' = k
           /\ IF k = None \/ c = None
              THEN /\ pos' = "idle"
                   /\ failed' \in IF keys = 0 THEN {"kex"} ELSE {None, "kex"}
                   /\ UNCHANGED crypt
              ELSE /\ pos' = IF k = "gex" THEN "request" ELSE "init"
                   /\ crypt' = c
                   /\ UNCHANGED failed
    /\ UNCHANGED <<round, keys, session_id, unread, api, half, jump, badUse,
                   peer, c2s, s2c>>

(* GEX_GROUP and the reply with the server's host key and its signature.    *)
KexGroup ==
    /\ Ready /\ pos \in {"getgroup", "getreply"}
    /\ Took
    /\ pos' = IF pos = "getgroup" THEN "init" ELSE "newkeys"
    /\ UNCHANGED <<round, kex, crypt, keys, session_id, unread, api, half,
                   jump, badUse, failed, peer, c2s, s2c>>

(* Mutant: every exchange makes a new session id.                           *)
SessionId_Latest == round

(* The hash of the first exchange is kept.                                  *)
SessionId == IF session_id = 0 THEN round ELSE session_id

(* NEWKEYS: keys for both directions, and the exchange is over.             *)
KexSwitch ==
    /\ Ready /\ pos = "getnewkeys"
    /\ Took
    /\ keys' = round /\ session_id' = SessionId
    /\ pos' = "idle"
    /\ UNCHANGED <<round, kex, crypt, unread, api, half, jump, badUse, failed,
                   peer, c2s, s2c>>

Kex == KexSend \/ KexAgree \/ KexGroup \/ KexSwitch

-----------------------------------------------------------------------------
(* _libssh2_transport_read is reading: for the exchange, or for a caller    *)
(* who reads.                                                               *)
Reading ==
    /\ ~jump /\ ~Ready
    /\ \/ pos \in DOMAIN Awaits
       \/ pos = "idle" /\ api = "read"

(* Mutant: the server's KEXINIT is not left in the brigade.                 *)
Queued_NotKexinit(type) ==
    IF type \in {"group", "reply", "newkeys"} THEN packets \cup {type} ELSE packets

Queued(type) ==
    IF type \in {"kexinit", "group", "reply", "newkeys"}
    THEN packets \cup {type} ELSE packets

(* _libssh2_packet_add.  A request is answered at once with a failure, and  *)
(* an answer that was refused is forgotten; KEXINIT starts an exchange      *)
(* unless one is under way.                                                 *)
PacketAdd(type) ==
    /\ packets' = Queued(type)
    /\ unread' = (unread \/ type = "data")
    /\ IF type = "kexinit" /\ pos = "idle"
       THEN pos' = "kexinit" /\ round' = round + 1 /\ kex' = None
       ELSE UNCHANGED <<pos, round, kex>>
    /\ IF type = "global"
       THEN \/ Sends("answer") /\ UNCHANGED <<jump, badUse>>
            \/ Again("answer") /\ jump' = TRUE /\ UNCHANGED badUse
            \/ BadUse("answer") /\ UNCHANGED jump
       ELSE UNCHANGED <<half, jump, badUse, c2s>>
    /\ UNCHANGED failed

Receive ==
    /\ failed = None /\ Reading /\ s2c # <<>>
    /\ s2c' = Tail(s2c)
    /\ IF Head(s2c).seal = ClientSeal
       THEN PacketAdd(Head(s2c).type)
       ELSE /\ failed' = "mac"
            /\ UNCHANGED <<packets, unread, pos, round, kex, half, jump, badUse, c2s>>
    /\ UNCHANGED <<crypt, keys, session_id, api, peer>>

(* jump1: the rest of the reply.                                            *)
Retry ==
    /\ jump /\ api = "read"
    /\ Sends("answer") /\ jump' = FALSE
    /\ UNCHANGED <<pos, round, kex, crypt, keys, session_id, packets, unread,
                   api, badUse, failed, peer, s2c>>

(* recv() and send() find the connection closed.                            *)
Closed ==
    /\ peer.pos = "closed"
    /\ \/ Reading /\ s2c = <<>>
       \/ pos \in Sending \/ jump \/ api = "send"
    /\ failed' = "socket"
    /\ UNCHANGED <<pos, round, kex, crypt, keys, session_id, packets, unread,
                   api, half, jump, badUse, peer, c2s, s2c>>

(* _libssh2_channel_read reads until EAGAIN, which is also what it gets     *)
(* from an exchange or a reply that is not over; it then returns the data   *)
(* that came before.  The next call may send: a window adjustment, an EOF,  *)
(* a close.                                                                 *)
LeaveRead ==
    /\ api = "read" /\ unread
    /\ \/ half # None
       \/ s2c = <<>> /\ pos \notin Sending /\ ~Ready
    /\ unread' = FALSE
    /\ api' \in {"read", "send"}
    /\ UNCHANGED <<pos, round, kex, crypt, keys, session_id, packets, half,
                   jump, badUse, failed, peer, c2s, s2c>>

(* Mutants: a packet is sent although keys are being exchanged; a window    *)
(* adjustment that is half sent does not keep the caller from reading.      *)
Redirected_Never == FALSE
AfterAgain_Reads == "read"

Redirected == pos # "idle"
AfterAgain == "send"

(* A packet of the caller's own.                                            *)
Send ==
    /\ api = "send" /\ ~Redirected
    /\ \/ Sends("channel") /\ api' = "read" /\ UNCHANGED <<badUse, failed>>
       \/ Again("channel") /\ api' = AfterAgain /\ UNCHANGED <<badUse, failed>>
       \/ BadUse("channel") /\ failed' = "bad_use" /\ UNCHANGED api
    /\ UNCHANGED <<pos, round, kex, crypt, keys, session_id, packets, unread,
                   jump, peer, s2c>>

Client ==
    /\ failed = None
    /\ Kex \/ Receive \/ Retry \/ Closed \/ LeaveRead \/ Send

-----------------------------------------------------------------------------
(* The server, as RFC 4253 has it: nothing but the exchange's packets       *)
(* between its KEXINIT and its NEWKEYS, new keys for what follows each      *)
(* NEWKEYS.                                                                 *)
First(prefs, offer) ==
    {i \in DOMAIN prefs : /\ prefs[i] \in offer
                          /\ \A j \in 1..(i - 1) : prefs[j] \notin offer}

Chosen(prefs, offer) ==
    IF First(prefs, offer) = {} THEN None
    ELSE prefs[CHOOSE i \in First(prefs, offer) : TRUE]

Room(n) == Len(s2c) + n <= MaxQueue
Out(p, type) == Packet(type, p.out)

ServerKexinit ==
    /\ peer.pos \in {"kexinit", "idle"} /\ Room(1)
    /\ peer.round < MaxRounds
    /\ \E o \in Offers :
          /\ peer.round = 0 => o = peer.offer
          /\ peer' = [peer EXCEPT !.pos = "getkexinit", !.round = @ + 1, !.offer = o,
                !.changed = @ \/ Chosen(CryptPrefs, o.crypt)
                                   # Chosen(CryptPrefs, peer.offer.crypt)]
    /\ s2c' = Append(s2c, Out(peer, "kexinit"))
    /\ UNCHANGED <<client, c2s>>

ServerTalks ==
    /\ peer.pos \in {"idle", "getnewkeys"} /\ peer.out # None /\ Room(1)
    /\ \E type \in {"data", "global"} : s2c' = Append(s2c, Out(peer, type))
    /\ UNCHANGED <<client, peer, c2s>>

(* What a packet makes the server do: its next position and what it sends.  *)
ServerKeys == Seal(Chosen(CryptPrefs, peer.offer.crypt), peer.round, 1)

ServerReceives ==
    /\ c2s # <<>> /\ peer.pos # "closed"
    /\ LET p == Head(c2s)
           common == /\ Chosen(KexPrefs, peer.offer.kex) # None
                     /\ Chosen(CryptPrefs, peer.offer.crypt) # None
       IN  \/ /\ p.seal # peer.in
              /\ peer' = [peer EXCEPT !.complaint = "seal", !.pos = "closed"]
              /\ UNCHANGED s2c
           \/ /\ p.seal = peer.in /\ p.type \in {"channel", "answer"}
              /\ peer' = IF peer.pos \in {"getrequest", "getnewkeys"}
                         THEN [peer EXCEPT !.complaint = "unexpected", !.pos = "closed"]
                         ELSE peer
              /\ UNCHANGED s2c
           \/ /\ p.seal = peer.in /\ p.type = "kexinit" /\ peer.pos = "getkexinit"
              /\ peer' = [peer EXCEPT !.pos = IF common THEN "getrequest" ELSE "closed",
                                      !.next = ServerKeys]
              /\ UNCHANGED s2c
           \/ /\ p.seal = peer.in /\ p.type = "request" /\ peer.pos = "getrequest"
              /\ Room(1)
              /\ s2c' = Append(s2c, Out(peer, "group"))
              /\ UNCHANGED peer
           \/ /\ p.seal = peer.in /\ p.type = "init" /\ peer.pos = "getrequest"
              /\ Room(2)
              /\ s2c' = s2c \o <<Out(peer, "reply"), Out(peer, "newkeys")>>
              /\ peer' = [peer EXCEPT !.pos = "getnewkeys", !.out = peer.next]
           \/ /\ p.seal = peer.in /\ p.type = "newkeys" /\ peer.pos = "getnewkeys"
              /\ peer' = [peer EXCEPT !.pos = "idle", !.in = peer.next]
              /\ UNCHANGED s2c
    /\ c2s' = Tail(c2s)
    /\ UNCHANGED client

Server == ServerKexinit \/ ServerTalks \/ ServerReceives

Next == Client \/ Server

Spec == Init /\ [][Next]_vars

(* The caller keeps calling, the server reads what it is sent and starts    *)
(* the first exchange, and the rest of a packet is sent in the end.         *)
Fairness ==
    /\ WF_vars(Client) /\ WF_vars(ServerReceives)
    /\ WF_vars(peer.round = 0 /\ ServerKexinit)
    /\ SF_vars(failed = None /\ KexSend) /\ SF_vars(failed = None /\ Retry)

FairSpec == Spec /\ Fairness

-----------------------------------------------------------------------------
Methods == {CryptPrefs[i] : i \in DOMAIN CryptPrefs}
Seals == {None} \cup (Methods \X (1..MaxRounds) \X (0..MaxRounds))
Types == {"kexinit", "request", "group", "init", "reply", "newkeys", "channel",
          "answer", "data", "global"}

ASSUME NoneIsNoPacket == None \notin [type : Types, seal : Seals]

(* The shapes of the session, the server and the packets under way.         *)
TypeOK ==
    /\ pos \in Sending \cup DOMAIN Awaits \cup {"idle"}
    /\ round \in 1..MaxRounds /\ keys \in 0..round /\ session_id \in {0, 1}
    /\ kex \in {None, "gex", "group"} /\ crypt \in Methods \cup {None}
    /\ packets \subseteq Types /\ unread \in BOOLEAN /\ jump \in BOOLEAN
    /\ api \in {"read", "send"}
    /\ half \in [type : Types, seal : Seals] \cup {None}
    /\ failed \in {None, "kex", "mac", "socket", "bad_use"}
    /\ c2s \in Seq([type : Types, seal : Seals]) /\ Len(c2s) <= MaxQueue
    /\ s2c \in Seq([type : Types, seal : Seals]) /\ Len(s2c) <= MaxQueue

(* Every packet is opened with the cipher and the keys it was sealed with,  *)
(* at both ends and through any number of exchanges, as long as the methods *)
(* agreed on stay the same: kex_agree_methods changes session->local.crypt  *)
(* while packets are still sealed with the old keys.                        *)
SealsMatch ==
    failed = "mac" \/ peer.complaint = "seal" => peer.changed

(* The server gets nothing but the exchange's packets between the client's  *)
(* KEXINIT and its NEWKEYS, whichever call of the API takes the exchange    *)
(* up: not the caller's own packets and no answers.                         *)
OnlyKexPackets == peer.complaint # "unexpected"

(* A packet is refused because another is half sent only when that other is *)
(* packet_add's answer to a request, which no call of the API knows of; the *)
(* exchange's packets and the caller's own never meet.                      *)
OnlyAnswersInTheWay == \A pair \in badUse : pair = <<"answer", "channel">>

(* The server does something with a packet: it takes it, or closes.         *)
Served(p) ==
    \/ p.seal # peer.in \/ p.type \in {"channel", "answer"}
    \/ <<peer.pos, p.type>> \in
          {<<"getkexinit", "kexinit">>, <<"getrequest", "request">>,
           <<"getrequest", "init">>, <<"getnewkeys", "newkeys">>}

(* The two ends never wait for one another in an exchange, whoever began it *)
(* and however it ended: while the client reads and nothing is under way to *)
(* it, the server has a packet that it can take, or has yet to begin the    *)
(* first exchange.  A KEXINIT that packet_add gets while the client is in   *)
(* an exchange of its own must still be there for kex.c to take.            *)
NoMutualWait ==
    /\ failed = None /\ peer.pos # "closed"
    /\ Reading /\ s2c = <<>>
    /\ pos # "idle" \/ peer.pos # "idle"
    => peer.pos = "kexinit" \/ (c2s # <<>> /\ Served(Head(c2s)))

(* A server that asks for new keys gets them, or the connection ends, and   *)
(* an exchange that the client has begun is over in the end.                *)
ExchangeEnds ==
    /\ peer.pos = "getkexinit" ~> peer.pos \in {"idle", "closed"} \/ failed # None
    /\ pos # "idle" ~> pos = "idle" \/ failed # None

=============================================================================
