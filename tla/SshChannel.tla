----------------------------- MODULE SshChannel -----------------------------
(***************************************************************************)
(* The commands of one call, run one after the other on channels of one    *)
(* SSH session (wrapper.c, lines 189-291), with libssh2's side of each     *)
(* channel: the receive window, the packets buffered per stream, EOF,      *)
(* close and exit status, and the channel numbers that tell late packets   *)
(* of a freed channel from those of its successor.                         *)
(*                                                                         *)
(* The server, its remote processes and the connection are the             *)
(* environment: two FIFO queues, data within the window it was granted, a  *)
(* connection that may be lost.  Bytes are counted, not named.             *)
(***************************************************************************)
EXTENDS Integers, Sequences

CONSTANTS
    NumCommands,   \* length of the command list
    Window,        \* LIBSSH2_CHANNEL_WINDOW_DEFAULT, 2 MB
    Buf,           \* response_buffer, 1024
    MinAdjust,     \* LIBSSH2_CHANNEL_MINADJUST, 1024
    MaxPacket,     \* LIBSSH2_CHANNEL_PACKET_DEFAULT, 32768
    IdModulus,     \* channel numbers: 2^32
    OutSizes,      \* how much a remote process may write to its stdout ...
    ErrSizes,      \* ... and to its stderr
    StatusFirst,   \* the server sends the exit status before the EOF
    MaxNoise,      \* bound on packets about something else (keepalives)
    MayLose        \* the connection may be lost

(* A list without commands opens no channel; a call that ends opens at most *)
(* 255, and channel numbers do not come round in that time.                 *)
ASSUME SshChannelAssumption ==
    /\ NumCommands \in Nat \ {0} /\ NumCommands <= IdModulus
    /\ MaxNoise \in Nat
    /\ Window \in Nat \ {0} /\ Buf \in Nat \ {0} /\ MinAdjust \in Nat
    /\ MaxPacket \in Nat \ {0} /\ IdModulus \in Nat \ {0}
    /\ OutSizes \subseteq Nat /\ ErrSizes \subseteq Nat
    /\ StatusFirst \in BOOLEAN /\ MayLose \in BOOLEAN

VARIABLES
    stage,     \* where the call is in the loop body
    k,         \* the command it is at, 1..NumCommands
    ch,        \* its LIBSSH2_CHANNEL
    next,      \* session->next_channel
    closeOk,   \* libssh2_channel_close returned 0
    results,   \* the entries of py_response
    srv,       \* srv[c]: the server's side of the channel of command c
    down, up,  \* packets to the client and to the server, in order
    noise,     \* packets about something else so far
    lost       \* the connection is gone

client == <<stage, k, ch, next, closeOk, results>>
vars == <<client, srv, down, up, noise, lost>>

Reading == {"stdout", "stderr"}
Streams == Reading
Least(a, b) == IF a < b THEN a ELSE b
Most(a, b) == IF a < b THEN b ELSE a

(* win is remote.window_size; avail and got count the bytes of each stream  *)
(* that are buffered in session->packets and were returned by reads.        *)
Channel(id) ==
    [live |-> TRUE, id |-> id, win |-> Window, eof |-> FALSE, close |-> FALSE,
     status |-> 0, avail |-> [s \in Streams |-> 0],
     got |-> [s \in Streams |-> 0]]

ReadAvail == ch.avail["stdout"] + ch.avail["stderr"]

(* The exit code the process of command c raises: never 0, never another's. *)
Code(c) == c

Process(id, size) ==
    [state |-> "running", id |-> id, win |-> Window, size |-> size,
     left |-> size, eof |-> FALSE, exited |-> FALSE]

NoProcess == [Process(0, [s \in Streams |-> 0]) EXCEPT !.state = "none"]

Init ==
    /\ stage = "open" /\ k = 1
    /\ ch = [Channel(0) EXCEPT !.live = FALSE]
    /\ next = 0
    /\ closeOk = FALSE
    /\ results = <<>>
    /\ srv = [c \in 1..NumCommands |-> NoProcess]
    /\ down = <<>> /\ up = <<>>
    /\ noise = 0
    /\ lost = FALSE

Packet(type, to, stream, n) ==
    [type |-> type, to |-> to, stream |-> stream, n |-> n]

-----------------------------------------------------------------------------
(* The client.                                                              *)

(* Mutants: the counter does not wrap; every channel has the same number.   *)
NextId_NoWrap(id) == id + 1
NextId_Reuse(id) == id

(* session->next_channel counts up, so that a channel that is gone and its  *)
(* successor have different numbers.                                        *)
NextId(id) == (id + 1) % IdModulus

(* Lines 191-218: channel open and exec, here always granted.               *)
Open ==
    /\ stage = "open" /\ ~lost
    /\ ch' = Channel(next)
    /\ next' = NextId(next)
    /\ \E out \in OutSizes, err \in ErrSizes :
          srv' = [srv EXCEPT ![k] =
                    Process(next, [s \in Streams |->
                                     IF s = "stdout" THEN out ELSE err])]
    /\ stage' = "stdout"
    /\ UNCHANGED <<k, closeOk, results, down, up, noise, lost>>

(* Lines 199-203: without a connection the channel cannot be opened.        *)
OpenFails ==
    /\ stage = "open" /\ lost
    /\ stage' = "failed"
    /\ UNCHANGED <<k, ch, next, closeOk, results, srv, down, up, noise, lost>>

(* Mutant: the window is never refilled.                                    *)
Refilled_Never == ch.win

(* What the window is set to before a read: libssh2_channel_read_ex adds    *)
(* buflen if the window is smaller than that, _libssh2_channel_read refills *)
(* it if it has fallen under three quarters.  Unread data counts as free.   *)
Refilled ==
    LET w == IF ch.win < Buf THEN ch.win + Buf ELSE ch.win
    IN  IF w < (Window \div 4) * 3 + Buf
        THEN w + Most(Window + Buf - w, MinAdjust) ELSE w

Low == Refilled # ch.win

ExpandWindow ==
    /\ stage \in Reading /\ Low /\ ~lost
    /\ up' = Append(up, Packet("adjust", k, "none", Refilled - ch.win))
    /\ ch' = [ch EXCEPT !.win = Refilled]
    /\ UNCHANGED <<stage, k, next, closeOk, results, srv, down, noise, lost>>

(* _libssh2_packet_add on a packet for the channel c.                       *)
DataAdded(c, m) ==
    LET n == Least(Least(m.n, MaxPacket), c.win - ReadAvail)
    IN  IF c.win <= ReadAvail THEN c
        ELSE [c EXCEPT !.eof = FALSE, !.avail[m.stream] = @ + n]

(* Mutant: the exit status is not kept.                                     *)
PacketAdded_StatusDropped(c, m) ==
    IF ~c.live \/ m.to # c.id THEN c
    ELSE CASE m.type = "data"   -> DataAdded(c, m)
           [] m.type = "eof"    -> [c EXCEPT !.eof = TRUE]
           [] m.type = "close"  -> [c EXCEPT !.close = TRUE, !.eof = TRUE]
           [] m.type \in {"status", "other"} -> c

PacketAdded(c, m) ==
    IF ~c.live \/ m.to # c.id THEN c
    ELSE CASE m.type = "data"   -> DataAdded(c, m)
           [] m.type = "eof"    -> [c EXCEPT !.eof = TRUE]
           [] m.type = "status" -> [c EXCEPT !.status = m.n]
           [] m.type = "close"  -> [c EXCEPT !.close = TRUE, !.eof = TRUE]
           [] m.type = "other"  -> c

(* _libssh2_transport_read returns one packet.  The wait of                 *)
(* _libssh2_channel_close ends with it, whatever packet it is.              *)
Receive ==
    /\ \/ stage \in {"open", "closing"}
       \/ stage \in Reading /\ ~Low
    /\ down # <<>>
    /\ ch' = PacketAdded(ch, Head(down))
    /\ down' = Tail(down)
    /\ IF stage = "closing"
       THEN stage' = "status" /\ closeOk' = TRUE
       ELSE UNCHANGED <<stage, closeOk>>
    /\ UNCHANGED <<k, next, results, srv, up, noise, lost>>

(* Mutant: the bytes returned are not taken off the window.                 *)
ReadData_NoShrink(s) ==
    /\ stage = s /\ ~Low /\ ch.avail[s] > 0
    /\ LET n == Least(ch.avail[s], Buf)
       IN  ch' = [ch EXCEPT !.got[s] = @ + n, !.avail[s] = @ - n]
    /\ UNCHANGED <<stage, k, next, closeOk, results, srv, down, up, noise,
                   lost>>

(* A read that returns bytes: lines 228-234 and 247-253 go round again.     *)
ReadData(s) ==
    /\ stage = s /\ ~Low /\ ch.avail[s] > 0
    /\ LET n == Least(ch.avail[s], Buf)
       IN  ch' = [ch EXCEPT !.got[s] = @ + n, !.avail[s] = @ - n,
                            !.win = @ - n]
    /\ UNCHANGED <<stage, k, next, closeOk, results, srv, down, up, noise,
                   lost>>

(* Mutant: EOF is reported before what is buffered was read.                *)
ReadEnd_EofFirst(s, then) ==
    /\ stage = s /\ ~Low
    /\ ch.eof \/ ch.close
    /\ stage' = then
    /\ UNCHANGED <<k, ch, next, closeOk, results, srv, down, up, noise, lost>>

(* A read that returns 0.                                                   *)
ReadEnd(s, then) ==
    /\ stage = s /\ ~Low /\ ch.avail[s] = 0
    /\ ch.eof \/ ch.close
    /\ stage' = then
    /\ UNCHANGED <<k, ch, next, closeOk, results, srv, down, up, noise, lost>>

(* A read that fails: form_response_string copies a negative size.          *)
ReadFails ==
    /\ stage \in Reading /\ lost
    /\ stage' = "crashed"
    /\ UNCHANGED <<k, ch, next, closeOk, results, srv, down, up, noise, lost>>

(* Line 266: _libssh2_channel_close sends EOF and CLOSE.  It does not wait  *)
(* when the server's CLOSE is there already.                                *)
SendClose ==
    /\ stage = "close"
    /\ up' = IF lost THEN up ELSE Append(up, Packet("close", k, "none", 0))
    /\ stage' = IF lost \/ ch.close THEN "status" ELSE "closing"
    /\ closeOk' = ~lost
    /\ UNCHANGED <<k, ch, next, results, srv, down, noise, lost>>

CloseFails ==
    /\ stage = "closing" /\ lost
    /\ stage' = "status"
    /\ closeOk' = FALSE
    /\ UNCHANGED <<k, ch, next, results, srv, down, up, noise, lost>>

(* Lines 263-291: the entry, and libssh2_channel_free.                      *)
Finish ==
    /\ stage = "status"
    /\ results' = Append(results,
                    [out |-> ch.got["stdout"], err |-> ch.got["stderr"],
                     code |-> IF closeOk THEN ch.status ELSE 0])
    /\ ch' = [ch EXCEPT !.live = FALSE, !.avail = [s \in Streams |-> 0]]
    /\ IF k < NumCommands
       THEN k' = k + 1 /\ stage' = "open"
       ELSE k' = k /\ stage' = "done"
    /\ UNCHANGED <<next, closeOk, srv, down, up, noise, lost>>

Client ==
    \/ Open \/ OpenFails \/ ExpandWindow \/ Receive
    \/ ReadData("stdout") \/ ReadEnd("stdout", "stderr")
    \/ ReadData("stderr") \/ ReadEnd("stderr", "close")
    \/ ReadFails \/ SendClose \/ CloseFails \/ Finish

-----------------------------------------------------------------------------
(* The environment.                                                         *)

Running(c) == srv[c].state = "running" /\ ~lost
Written(c) == srv[c].left = [s \in Streams |-> 0]

(* Data of the process, as far as the window the client granted goes.       *)
ServerData(c, s) ==
    /\ Running(c) /\ srv[c].left[s] > 0
    /\ \E n \in 1..Least(Least(srv[c].left[s], srv[c].win), MaxPacket) :
          /\ srv' = [srv EXCEPT ![c].left[s] = @ - n, ![c].win = @ - n]
          /\ down' = Append(down, Packet("data", srv[c].id, s, n))
    /\ UNCHANGED <<client, up, noise, lost>>

ServerEof(c) ==
    /\ Running(c) /\ Written(c) /\ ~srv[c].eof
    /\ StatusFirst => srv[c].exited
    /\ srv' = [srv EXCEPT ![c].eof = TRUE]
    /\ down' = Append(down, Packet("eof", srv[c].id, "none", 0))
    /\ UNCHANGED <<client, up, noise, lost>>

(* The process ends; a process that closed its outputs may still run.       *)
ServerStatus(c) ==
    /\ Running(c) /\ Written(c) /\ ~srv[c].exited
    /\ srv' = [srv EXCEPT ![c].exited = TRUE]
    /\ down' = Append(down, Packet("status", srv[c].id, "none", Code(c)))
    /\ UNCHANGED <<client, up, noise, lost>>

ServerClose(c) ==
    /\ Running(c) /\ srv[c].eof /\ srv[c].exited
    /\ srv' = [srv EXCEPT ![c].state = "closed"]
    /\ down' = Append(down, Packet("close", srv[c].id, "none", 0))
    /\ UNCHANGED <<client, up, noise, lost>>

(* A CLOSE is answered with a CLOSE, unless one was sent before.            *)
ServerReceive ==
    /\ up # <<>> /\ ~lost
    /\ up' = Tail(up)
    /\ LET m == Head(up)
       IN  \/ /\ m.type = "adjust"
              /\ srv' = [srv EXCEPT ![m.to].win = @ + m.n]
              /\ UNCHANGED down
           \/ /\ m.type = "close" /\ srv[m.to].state = "running"
              /\ srv' = [srv EXCEPT ![m.to].state = "closed"]
              /\ down' = Append(down,
                                Packet("close", srv[m.to].id, "none", 0))
           \/ /\ m.type = "close" /\ srv[m.to].state = "closed"
              /\ UNCHANGED <<srv, down>>
    /\ UNCHANGED <<client, noise, lost>>

(* SSH_MSG_IGNORE, SSH_MSG_DEBUG or a keepalive request.                    *)
Noise ==
    /\ noise < MaxNoise /\ ~lost
    /\ noise' = noise + 1
    /\ down' = Append(down, Packet("other", -1, "none", 0))
    /\ UNCHANGED <<client, srv, up, lost>>

(* The connection breaks; some of what was under way still arrives.         *)
Lose ==
    /\ MayLose /\ ~lost
    /\ lost' = TRUE
    /\ \E n \in 0..Len(down) : down' = SubSeq(down, 1, n)
    /\ up' = <<>>
    /\ UNCHANGED <<client, srv, noise>>

Server(c) ==
    \/ \E s \in Streams : ServerData(c, s)
    \/ ServerEof(c) \/ ServerStatus(c) \/ ServerClose(c)

Next ==
    \/ Client
    \/ \E c \in 1..NumCommands : Server(c)
    \/ ServerReceive \/ Noise \/ Lose

Spec == Init /\ [][Next]_vars

(* The call goes on while it can (no timeout: line 136); the process writes *)
(* and ends, and packets arrive.                                            *)
Fairness ==
    /\ WF_vars(Client)
    /\ WF_vars(ServerReceive)
    /\ \A c \in 1..NumCommands : WF_vars(Server(c))

FairSpec == Spec /\ Fairness

-----------------------------------------------------------------------------
PacketType == [type : {"data", "eof", "status", "close", "other", "adjust"},
               to : Int, stream : Streams \cup {"none"}, n : Nat]

(* The shapes of the channel's two sides and of the packets.                *)
TypeOK ==
    /\ stage \in Streams \cup {"open", "close", "closing", "status", "done",
                               "failed", "crashed"}
    /\ k \in Nat
    /\ ch \in [live : BOOLEAN, id : 0..(IdModulus - 1), win : Nat,
               eof : BOOLEAN, close : BOOLEAN, status : Nat,
               avail : [Streams -> Nat], got : [Streams -> Nat]]
    /\ next \in 0..(IdModulus - 1)
    /\ closeOk \in BOOLEAN
    /\ results \in Seq([out : Nat, err : Nat, code : Nat])
    /\ srv \in [1..NumCommands ->
                  [state : {"none", "running", "closed"}, id : Nat, win : Nat,
                   size : [Streams -> Nat], left : [Streams -> Nat],
                   eof : BOOLEAN, exited : BOOLEAN]]
    /\ down \in Seq(PacketType) /\ up \in Seq(PacketType)
    /\ noise \in 0..MaxNoise
    /\ lost \in BOOLEAN

(* The strings a finished command hands to Python hold all that its process *)
(* wrote to each stream, even if the connection broke later.                *)
OutputComplete ==
    \A c \in DOMAIN results :
        /\ results[c].out = srv[c].size["stdout"]
        /\ results[c].err = srv[c].size["stderr"]

(* The exit code of an entry is its own command's or the initial 0: a late  *)
(* packet of an earlier channel never counts for a later command.  When the *)
(* server sends the status before the EOF, and the connection holds, it is  *)
(* the command's.                                                           *)
ExitCodeOwn ==
    \A c \in DOMAIN results :
        /\ results[c].code \in {0, Code(c)}
        /\ StatusFirst /\ ~lost => results[c].code = Code(c)

(* The refill of _libssh2_channel_read keeps the window at buflen or more,  *)
(* so that the forced adjustment of libssh2_channel_read_ex is never needed *)
(* and what is buffered is never more than the window.                      *)
WindowSuffices ==
    stage \in Reading /\ Buf <= (Window \div 4) * 3 =>
        ch.win >= Buf /\ ReadAvail <= ch.win

(* What the packets of one type in a queue carry to one channel.            *)
Bytes(queue, type, to) ==
    LET sum[j \in 0..Len(queue)] ==
          IF j = 0 THEN 0
          ELSE sum[j - 1] + (IF queue[j].type = type /\ queue[j].to = to
                             THEN queue[j].n ELSE 0)
    IN  sum[Len(queue)]

Sum(f) == f["stdout"] + f["stderr"]

(* The window libssh2 keeps for the open channel is what the server may     *)
(* still send, what is under way in both directions and what is buffered;   *)
(* and no byte that the server sent within its window was dropped or        *)
(* truncated by packet_add.                                                 *)
WindowAccounting ==
    ch.live /\ ~lost =>
        LET inFlight == Bytes(down, "data", ch.id)
        IN  /\ ch.win = srv[k].win + inFlight + ReadAvail
                          + Bytes(up, "adjust", k)
            /\ Sum(srv[k].size) - Sum(srv[k].left)
                  = Sum(ch.got) + ReadAvail + inFlight

(* libssh2_channel_close returns 0 only when the server's CLOSE is there.   *)
CloseWaitsForClose ==
    stage = "status" /\ closeOk => ch.close

(* A read that waits for data has a receive window for a full buffer.       *)
ReadHasWindow ==
    stage \in Reading /\ ~Low /\ ch.avail[stage] = 0 /\ ~ch.eof =>
        ch.win - ReadAvail >= Buf

(* No process writes more to stderr than the window is sure to hold while   *)
(* stdout is read.                                                          *)
StderrFits == \A n \in ErrSizes : n < (Window \div 4) * 3 + Buf

(* A read with nothing to return, or the wait of libssh2_channel_close.     *)
Waiting ==
    \/ stage \in Reading /\ ~Low /\ ch.avail[stage] = 0 /\ ~ch.eof /\ ~ch.close
    \/ stage = "closing"

(* Client and server never wait for one another: while the client waits a   *)
(* packet is under way, or the process has output and window to send it, or *)
(* has yet to report its end.                                               *)
NeverStuck ==
    StderrFits /\ ~lost /\ Waiting =>
        \/ down # <<>> \/ up # <<>>
        \/ Running(k) /\ \E s \in Streams : srv[k].left[s] > 0 /\ srv[k].win > 0
        \/ Running(k) /\ Written(k) /\ ~(srv[k].eof /\ srv[k].exited)

(* Then every command finishes.                                             *)
CommandsFinish == StderrFits /\ ~MayLose => <>(stage = "done")

=============================================================================
