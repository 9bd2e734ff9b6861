---------------------------- MODULE PacketReader ----------------------------
(***************************************************************************)
(* _libssh2_transport_read, decrypt and fullpacket of libssh2's            *)
(* transport.c: packets are cut out of a byte stream that recv() delivers  *)
(* in pieces of any size.  A byte is <<packet, offset, encrypted>>, so     *)
(* that what the reader takes for a packet can be compared with what was   *)
(* sent.  The session turns encryption on after the first NumPlain packets *)
(* (NEWKEYS is the last of them).                                          *)
(***************************************************************************)
EXTENDS Integers, Sequences

CONSTANTS
    Header,      \* the packet_length and padding_length fields: 5 bytes
    Block,       \* blocksize of the cipher
    Mac,         \* mac_len
    BufSize,     \* PACKETBUFSIZE
    MaxPayload,  \* LIBSSH2_PACKET_MAXPAYLOAD
    Sizes,       \* the sizes of packets, padding included, MAC not
    NumPackets,  \* bound on the packets of a behaviour
    NumPlain,    \* the packets sent before the keys are in use
    Junk         \* a byte that was decrypted although it was not encrypted

ASSUME PacketReaderAssumption ==
    /\ Header \in Nat \ {0} /\ Block \in Nat /\ Header <= Block
    /\ Mac \in Nat \ {0} /\ BufSize \in Nat /\ Block <= BufSize
    /\ MaxPayload \in Nat /\ NumPackets \in Nat /\ NumPlain \in Nat
    /\ \A s \in Sizes : s \in Nat /\ s >= Block /\ s > Header /\ s % Block = 0
    /\ Junk \notin (1..NumPackets) \X Nat \X BOOLEAN

VARIABLES
    sizes,      \* the sizes of the packets the server sent so far
    coming,     \* bytes under way
    net,        \* bytes recv() can return now
    lost,       \* the connection is closed: recv() returns 0 after those
    buf,        \* p->buf between readidx and writeidx
    payload,    \* p->payload up to wptr; its length is data_num
    total_num,  \* p->total_num: 0 when no packet is being collected
    head,       \* the packet that p->init and packet_length belong to
    seqno,      \* session->remote.seqno
    created,    \* fullpacket_state is created: MAC and seqno are done
    added,      \* the payloads that _libssh2_packet_add has taken
    pc          \* where the reader is

server == <<sizes, coming, net, lost>>
reader == <<buf, payload, total_num, head, seqno, created, added>>
vars == <<server, reader, pc>>

Shorter(m, n) == IF m < n THEN m ELSE n
Take(s, n) == SubSeq(s, 1, n)
Skip(s, n) == SubSeq(s, n + 1, Len(s))

Sealed(k) == k > NumPlain
WireSize(k, size) == IF Sealed(k) THEN size + Mac ELSE size
Bytes(k, size) ==
    [j \in 1..WireSize(k, size) |-> <<k, j - 1, Sealed(k) /\ j <= size>>]

(* What the reader has to hand on for packet k: all but the two length      *)
(* fields, in clear.                                                        *)
Payload(k) ==
    [j \in 1..(WireSize(k, sizes[k]) - Header) |-> <<k, Header + j - 1, FALSE>>]

Init ==
    /\ sizes = <<>> /\ coming = <<>> /\ net = <<>> /\ lost = FALSE
    /\ buf = <<>> /\ payload = <<>> /\ total_num = 0 /\ head = 0
    /\ seqno = 0 /\ created = FALSE /\ added = <<>>
    /\ pc = "caller"

-----------------------------------------------------------------------------
(* The server and TCP.                                                      *)
Send(size) ==
    /\ ~lost /\ Len(sizes) < NumPackets
    /\ sizes' = Append(sizes, size)
    /\ coming' = coming \o Bytes(Len(sizes) + 1, size)
    /\ UNCHANGED <<net, lost, reader, pc>>

Arrive(n) ==
    /\ n <= Len(coming)
    /\ net' = net \o Take(coming, n)
    /\ coming' = Skip(coming, n)
    /\ UNCHANGED <<sizes, lost, reader, pc>>

Lose ==
    /\ ~lost
    /\ lost' = TRUE /\ coming' = <<>>
    /\ UNCHANGED <<sizes, net, reader, pc>>

-----------------------------------------------------------------------------
(* _libssh2_transport_read.  encrypted is the session's NEWKEYS state,      *)
(* which changes between two calls, when NEWKEYS was handed on.             *)
encrypted == Len(added) >= NumPlain
blocksize == IF encrypted THEN Block ELSE Header

(* The caller calls again after a packet; after an EAGAIN once the socket   *)
(* is readable, or writable when a reply to a packet is only half sent.     *)
Enter ==
    /\ \/ pc = "caller"
       \/ pc = "wait" /\ (net # <<>> \/ lost)
    /\ pc' = "loop"
    /\ UNCHANGED <<server, reader>>

Resume ==
    /\ pc = "jump1"
    /\ pc' = "full"
    /\ UNCHANGED <<server, reader>>

(* Mutant: the remainder is overwritten, not moved to the start of the      *)
(* buffer.                                                                  *)
Refilled_Overwritten == Take(net, Shorter(BufSize - Len(buf), Len(net)))

(* recv() into the room behind the remainder.                               *)
Refilled == buf \o Take(net, Shorter(BufSize - Len(buf), Len(net)))

(* Mutant: recv() is called before the buffer is looked at.                 *)
NeedsMore_Always == TRUE

NeedsMore == Len(buf) < blocksize

(* Lines 331-392: less than a block is left, so read more.                  *)
Refill ==
    /\ pc = "loop"
    /\ IF ~NeedsMore
       THEN pc' = (IF total_num = 0 THEN "head" ELSE "body") /\ UNCHANGED <<net, buf>>
       ELSE IF net = <<>>
       THEN pc' = (IF lost THEN "failed" ELSE "wait") /\ UNCHANGED <<net, buf>>
       ELSE /\ buf' = Refilled
            /\ net' = Skip(net, Shorter(BufSize - Len(buf), Len(net)))
            /\ pc' = IF total_num = 0 THEN "head" ELSE "body"
    /\ UNCHANGED <<sizes, coming, lost, payload, total_num, head, seqno, created, added>>

(* crypt() of a byte; decrypt() asserts that it is given whole blocks.      *)
Clear(b) == IF b # Junk /\ b[3] THEN <<b[1], b[2], FALSE>> ELSE Junk
Decrypt(s) == [j \in DOMAIN s |-> Clear(s[j])]

(* The packet whose first byte is next in the buffer, 0 when the reader has *)
(* lost its place in the stream.                                            *)
FirstPacket == IF buf[1] # Junk /\ buf[1][2] = 0 THEN buf[1][1] ELSE 0

(* packet_length - 1, and the MAC.                                          *)
Total(size) == size - Header + (IF encrypted THEN Mac ELSE 0)

(* Lines 400-487: the first block tells the size.                           *)
ReadHead ==
    /\ pc = "head"
    /\ IF Len(buf) < blocksize
       THEN pc' = "wait" /\ UNCHANGED <<buf, payload, total_num, head>>
       ELSE LET first == IF encrypted THEN Decrypt(Take(buf, blocksize))
                                      ELSE Take(buf, blocksize)
                total == Total(sizes[FirstPacket])
            IN  /\ buf' = Skip(buf, blocksize)
                /\ head' = FirstPacket
                /\ IF FirstPacket = 0 \/ total > MaxPayload
                   THEN pc' = "failed" /\ UNCHANGED <<payload, total_num>>
                   ELSE /\ total_num' = total
                        /\ payload' = Skip(first, Header)
                        /\ pc' = "body"
    /\ UNCHANGED <<server, seqno, created, added>>

data_num == Len(payload)

(* Mutant: the whole buffer is taken for this packet.                       *)
NumBytes_All == Len(buf)

(* What is in the buffer for this packet.                                   *)
NumBytes == Shorter(Len(buf), total_num - data_num)

(* How many of the n bytes to decrypt: not the MAC, and whole blocks only.  *)
NumDecrypt(n) == IF data_num + n > total_num - Mac
                 THEN (total_num - Mac) - data_num
                 ELSE n - (n % Block)

(* How many to copy as they are: what is read of the MAC.                   *)
NumCopy(n) == IF data_num + n > total_num - Mac
              THEN n - (IF NumDecrypt(n) > 0 THEN NumDecrypt(n) ELSE 0)
              ELSE 0

(* Lines 489-561: as much of the buffer as belongs to this packet.          *)
ReadBody ==
    LET dec == IF encrypted /\ NumDecrypt(NumBytes) > 0
               THEN NumDecrypt(NumBytes) ELSE 0
        copy == IF encrypted THEN NumCopy(NumBytes) ELSE NumBytes
    IN  /\ pc = "body"
        /\ IF dec % Block # 0
           THEN pc' = "abort" /\ UNCHANGED <<buf, payload>>
           ELSE /\ payload' = payload \o Decrypt(Take(buf, dec))
                                      \o Take(Skip(buf, dec), copy)
                /\ buf' = Skip(buf, dec + copy)
                /\ pc' = IF data_num + dec + copy = total_num THEN "full" ELSE "loop"
        /\ UNCHANGED <<server, total_num, head, seqno, created, added>>

-----------------------------------------------------------------------------
(* The MAC covers the sequence number and all of the packet.                *)
MacConfirmed == encrypted => payload = Payload(head) /\ seqno = head - 1

(* Mutant: the sequence number counts calls, not packets.                   *)
NextSeqno_CountsCalls == seqno + 1

NextSeqno == IF created THEN seqno ELSE seqno + 1

(* Lines 165-255 and 563-589.  _libssh2_packet_add answers EAGAIN while its *)
(* reply to the packet is half sent, and is then called again (jump1).      *)
FullPacket ==
    /\ pc = "full"
    /\ seqno' = NextSeqno
    /\ IF ~created /\ ~MacConfirmed
       THEN pc' = "failed" /\ UNCHANGED <<payload, total_num, created, added>>
       ELSE \/ /\ created' = TRUE /\ pc' = "jump1"
               /\ UNCHANGED <<payload, total_num, added>>
            \/ /\ created' = FALSE /\ pc' = "caller"
               /\ added' = Append(added, payload)
               /\ total_num' = 0 /\ payload' = <<>>
    /\ UNCHANGED <<server, buf, head>>

Read == Enter \/ Resume \/ Refill \/ ReadHead \/ ReadBody \/ FullPacket

Next ==
    \/ \E size \in Sizes : Send(size)
    \/ \E n \in 1..Len(coming) : Arrive(n)
    \/ Lose
    \/ Read

Spec == Init /\ [][Next]_vars

(* The caller calls until it has what it waits for, bytes that are under    *)
(* way arrive, and a reply is sent in the end.                              *)
Fairness ==
    /\ WF_vars(Read)
    /\ WF_vars(Arrive(1))
    /\ SF_vars(FullPacket /\ ~created')

FairSpec == Spec /\ Fairness

-----------------------------------------------------------------------------
ByteSet == {Junk} \cup (1..NumPackets) \X Nat \X BOOLEAN

(* The buffer holds what it has room for, and a packet what was announced.  *)
TypeOK ==
    /\ sizes \in Seq(Sizes) /\ Len(sizes) <= NumPackets
    /\ coming \in Seq(ByteSet) /\ net \in Seq(ByteSet) /\ lost \in BOOLEAN
    /\ buf \in Seq(ByteSet) /\ Len(buf) <= BufSize
    /\ payload \in Seq(ByteSet) /\ data_num <= total_num
    /\ total_num \in 0..MaxPayload /\ head \in 0..NumPackets
    /\ seqno \in Nat /\ created \in BOOLEAN
    /\ added \in Seq(Seq(ByteSet))
    /\ pc \in {"caller", "wait", "loop", "head", "body", "full", "jump1",
               "failed", "abort"}

(* Every packet is handed on once, whole, in clear and in the order sent,   *)
(* wherever recv() and the decryption cut the stream.                       *)
PacketsWhole ==
    /\ Len(added) <= Len(sizes)
    /\ \A k \in DOMAIN added : added[k] = Payload(k)

(* The reader gives up only when the connection is lost or a packet is too  *)
(* large: it never loses its place in the stream, checks a MAC against the  *)
(* wrong sequence number, or runs into the assertion of decrypt().          *)
FailureCauses ==
    /\ pc # "abort"
    /\ pc = "failed" =>
          \/ lost
          \/ \E k \in DOMAIN sizes : WireSize(k, sizes[k]) - Header > MaxPayload

(* The reader does not wait for the socket with a whole packet in its       *)
(* buffer: when it waits and nothing is under way, all that was sent has    *)
(* been handed on.                                                          *)
NothingLeftBehind ==
    pc = "wait" /\ ~lost /\ net = <<>> /\ coming = <<>> =>
        Len(added) = Len(sizes)

(* What the server sends is read in the end, also when nothing follows it.  *)
AllRead ==
    \A k \in 1..NumPackets :
        Len(sizes) >= k ~> Len(added) >= k \/ pc = "failed"

=============================================================================
