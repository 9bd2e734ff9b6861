-------------------------- MODULE SshChannelProofs --------------------------
(***************************************************************************)
(* SshChannel for any number of commands, any window, buffer and packet    *)
(* size and any outputs.  The bytes under way are counted by running       *)
(* totals along the queues, which the invariant asks for instead of        *)
(* defining them: a packet that is appended or taken off extends or        *)
(* shortens the totals.  Only BytesAre, which says that such totals are     *)
(* what the recursive Bytes adds up, needs an induction over the queue.     *)
(***************************************************************************)
EXTENDS SshChannel, NaturalsInduction, WellFoundedInduction, TLAPS

Amount(m, type, to, s) ==
    IF m.type = type /\ m.to = to /\ m.stream = s THEN m.n ELSE 0

(* f[j] - f[0] is what the first j packets of q carry.                      *)
Tally(q, f, type, to, s) ==
    /\ f \in [0..Len(q) -> Nat]
    /\ \A j \in 1..Len(q) : f[j] = f[j - 1] + Amount(q[j], type, to, s)
    /\ \A i, j \in 0..Len(q) : i <= j => f[i] <= f[j]

(* The channels opened so far.                                              *)
Opened == IF stage \in {"open", "failed"} THEN k - 1 ELSE k

(* Packets after which the server sends no more data.                       *)
Ends(m) == m.to = ch.id /\ m.type \in {"eof", "close"}

Ended == ch.eof \/ ch.close

(* Where the loop is, and which channels exist.                             *)
LoopOK ==
    /\ k \in 1..NumCommands
    /\ ch.live <=> stage \notin {"open", "failed", "done"}
    /\ ch.live => ch.id = k - 1
    /\ stage = "open" => next = k - 1
    /\ ch.live /\ k < NumCommands => next = k
    /\ Len(results) = IF stage = "done" THEN k ELSE k - 1
    /\ stage = "status" /\ ~lost => closeOk

(* The server's side of the channels.                                       *)
ServersOK ==
    \A c \in 1..NumCommands :
        /\ srv[c].state = "none" <=> c > Opened
        /\ c <= Opened => srv[c].id = c - 1
        /\ srv[c].eof => \A s \in Streams : srv[c].left[s] = 0
        /\ srv[c].eof /\ StatusFirst => srv[c].exited

(* What is under way.                                                       *)
DownPacket(m) ==
    /\ m.to \in -1..(Opened - 1)
    /\ m.type \in {"data", "eof", "status", "close", "other"}
    /\ m.type = "data" => m.n \in 1..MaxPacket /\ m.stream \in Streams
    /\ m.type = "status" => m.n = Code(m.to + 1)

UpPacket(m) ==
    /\ m.type \in {"adjust", "close"} /\ m.stream = "none"
    /\ m.to \in 1..Opened
    /\ ch.live /\ m.type = "close" /\ m.to = k => stage \in {"closing", "status"}

QueuesOK ==
    /\ \A j \in 1..Len(down) : DownPacket(down[j])
    /\ \A j \in 1..Len(up) : UpPacket(up[j])

(* The books of the open channel: every byte its process wrote was read, is *)
(* buffered or is under way, all of it within the window, and an EOF or a   *)
(* CLOSE comes after the last of them.                                      *)
Carried(q, f) == f[Len(q)] - f[0]

(* What is granted is the window, until a broken connection drops packets.  *)
Fits(total, win, gone) == total <= win /\ (~gone => total = win)

Ledger(f, u) ==
    /\ \A s \in Streams : Tally(down, f[s], "data", ch.id, s)
    /\ Tally(up, u, "adjust", k, "none")
    /\ \A s \in Streams :
          LET come == ch.got[s] + ch.avail[s] + Carried(down, f[s])
              sent == srv[k].size[s] - srv[k].left[s]
          IN  come <= sent /\ (~lost => come = sent)
    /\ Fits(srv[k].win + Carried(up, u) + Carried(down, f["stdout"])
              + Carried(down, f["stderr"]) + ReadAvail, ch.win, lost)
    /\ \A j \in 1..Len(down), s \in Streams : Ends(down[j]) =>
          ch.got[s] + ch.avail[s] + f[s][j] - f[s][0] = srv[k].size[s]

BooksOK == ch.live => \E f, u : Ledger(f, u)

(* What was read when.                                                      *)
ReadOK ==
    /\ ch.live /\ Ended =>
          \A s \in Streams : ch.got[s] + ch.avail[s] = srv[k].size[s]
    /\ stage \in {"stderr", "close", "closing", "status"} =>
          Ended /\ ch.got["stdout"] = srv[k].size["stdout"]
    /\ stage \in {"close", "closing", "status"} =>
          ch.got["stderr"] = srv[k].size["stderr"]

(* The status is the process's own and, where servers send it first, ahead  *)
(* of EOF and CLOSE.                                                        *)
StatusKnown == ch.status = Code(k)
StatusBefore(n) ==
    \E j \in 1..Len(down) : j <= n /\ down[j].type = "status" /\ down[j].to = ch.id

StatusOK ==
    ch.live =>
        /\ ch.status \in {0, Code(k)}
        /\ StatusFirst =>
              /\ Ended => StatusKnown
              /\ \A j \in 1..Len(down) : Ends(down[j]) => StatusKnown \/ StatusBefore(j)
              /\ srv[k].exited /\ ~lost => StatusKnown \/ StatusBefore(Len(down))

RefillsOK == stage \in Reading /\ Buf <= (Window \div 4) * 3 => ch.win >= Buf

IInv ==
    /\ TypeOK /\ LoopOK /\ ServersOK /\ QueuesOK /\ BooksOK /\ ReadOK
    /\ StatusOK /\ RefillsOK /\ OutputComplete /\ ExitCodeOwn

-----------------------------------------------------------------------------
(* Running totals.                                                          *)
Grown(f, n, a) == [j \in 0..(n + 1) |-> IF j <= n THEN f[j] ELSE f[n] + a]
Shifted(f, n)  == [j \in 0..(n - 1) |-> f[j + 1]]
Trimmed(f, n)  == [j \in 0..n |-> f[j]]
Zeros(n)       == [j \in 0..n |-> 0]

LEMMA AmountType ==
  ASSUME NEW m \in PacketType, NEW type, NEW to, NEW s
  PROVE  Amount(m, type, to, s) \in Nat
  BY DEF Amount, PacketType

LEMMA TallyGrows ==
  ASSUME NEW q \in Seq(PacketType), NEW m \in PacketType, NEW type, NEW to, NEW s, NEW f,
         Tally(q, f, type, to, s)
  PROVE  LET g == Grown(f, Len(q), Amount(m, type, to, s))
         IN  /\ Tally(Append(q, m), g, type, to, s)
             /\ Carried(Append(q, m), g) = Carried(q, f) + Amount(m, type, to, s)
             /\ \A j \in 0..Len(q) : g[j] = f[j]
             /\ g[Len(q) + 1] = f[Len(q)] + Amount(m, type, to, s)
  <1> DEFINE a == Amount(m, type, to, s)
             g == Grown(f, Len(q), a)
             n == Len(q)
  <1>1. a \in Nat /\ n \in Nat
    BY AmountType
  <1>2. Len(Append(q, m)) = n + 1 /\ \A j \in 1..n : Append(q, m)[j] = q[j]
    OBVIOUS
  <1>3. Append(q, m)[n + 1] = m
    OBVIOUS
  <1>4. /\ f \in [0..n -> Nat]
        /\ \A j \in 1..n : f[j] = f[j - 1] + Amount(q[j], type, to, s)
        /\ \A i, j \in 0..n : i <= j => f[i] <= f[j]
    BY DEF Tally
  <1> HIDE DEF a, n
  <1>5. g \in [0..(n + 1) -> Nat] /\ g[n + 1] = f[n] + a /\ \A j \in 0..n : g[j] = f[j]
    BY <1>1, <1>4 DEF Grown, n
  <1>6. \A j \in 1..(n + 1) : g[j] = g[j - 1] + Amount(Append(q, m)[j], type, to, s)
    <2> TAKE j \in 1..(n + 1)
    <2>1. CASE j \in 1..n
      <3>1. j \in 0..n /\ j - 1 \in 0..n
        BY <1>1, <2>1
      <3> QED BY <1>2, <1>4, <1>5, <2>1, <3>1
    <2>2. CASE j = n + 1
      <3>1. j - 1 = n /\ n \in 0..n
        BY <1>1, <2>2
      <3> QED BY <1>3, <1>5, <2>2, <3>1 DEF a
    <2>3. j \in 1..n \/ j = n + 1
      BY <1>1
    <2> QED BY <2>1, <2>2, <2>3
  <1>7. \A i, j \in 0..(n + 1) : i <= j => g[i] <= g[j]
    <2>1. \A i \in 0..n : f[i] <= f[n] /\ f[i] \in Nat /\ f[n] \in Nat
      BY <1>1, <1>4
    <2>2. \A i \in 0..(n + 1) : i \in 0..n \/ i = n + 1
      BY <1>1
    <2> HIDE DEF g
    <2> SUFFICES ASSUME NEW i \in 0..(n + 1), NEW j \in 0..(n + 1), i <= j
                 PROVE  g[i] <= g[j]
      OBVIOUS
    <2>3. CASE j \in 0..n
      <3>1. i \in 0..n
        BY <1>1, <2>3
      <3> QED BY <1>4, <1>5, <2>3, <3>1
    <2>4. CASE j = n + 1
      <3>1. g[j] = f[n] + a /\ f[n] \in Nat /\ a \in Nat
        BY <1>1, <1>4, <1>5, <2>4
      <3>2. i \in 0..n => g[i] <= f[n] /\ g[i] \in Nat
        BY <1>5, <2>1
      <3> QED BY <2>2, <2>4, <3>1, <3>2
    <2> QED BY <2>2, <2>3, <2>4
  <1>8. Carried(Append(q, m), g) = Carried(q, f) + a
    <2>1. g[0] = f[0] /\ f[0] \in Nat /\ f[n] \in Nat
      BY <1>1, <1>4, <1>5
    <2> QED BY <1>1, <1>2, <1>5, <2>1 DEF Carried, n
  <1>9. Tally(Append(q, m), g, type, to, s)
    BY <1>2, <1>5, <1>6, <1>7 DEF Tally
  <1> QED BY <1>5, <1>8, <1>9 DEF a, n

LEMMA TallyShifts ==
  ASSUME NEW q \in Seq(PacketType), q # <<>>, NEW type, NEW to, NEW s, NEW f,
         Tally(q, f, type, to, s)
  PROVE  LET g == Shifted(f, Len(q))
         IN  /\ Tally(Tail(q), g, type, to, s)
             /\ Carried(Tail(q), g) = Carried(q, f) - Amount(Head(q), type, to, s)
             /\ Carried(q, f) \in Nat /\ Carried(Tail(q), g) \in Nat
             /\ \A j \in 0..(Len(q) - 1) : g[j] = f[j + 1]
             /\ f[1] = f[0] + Amount(Head(q), type, to, s)
  <1> DEFINE n == Len(q)
             g == Shifted(f, n)
             a == Amount(Head(q), type, to, s)
  <1>1. n \in Nat \ {0} /\ Head(q) = q[1] /\ q[1] \in PacketType
    OBVIOUS
  <1>2. Len(Tail(q)) = n - 1 /\ \A j \in 1..(n - 1) : Tail(q)[j] = q[j + 1]
    OBVIOUS
  <1>3. /\ f \in [0..n -> Nat]
        /\ \A j \in 1..n : f[j] = f[j - 1] + Amount(q[j], type, to, s)
        /\ \A i, j \in 0..n : i <= j => f[i] <= f[j]
    BY DEF Tally
  <1>4. a \in Nat
    BY <1>1, AmountType
  <1> HIDE DEF n, a
  <1>5. g \in [0..(n - 1) -> Nat] /\ \A j \in 0..(n - 1) : g[j] = f[j + 1]
    BY <1>1, <1>3 DEF Shifted
  <1>6. f[1] = f[0] + a /\ f[0] \in Nat /\ f[n] \in Nat /\ f[1] \in Nat /\ f[1] <= f[n] /\ f[0] <= f[n]
    <2>1. f[1] = f[1 - 1] + Amount(q[1], type, to, s)
      BY <1>1, <1>3
    <2> QED BY <1>1, <1>3, <2>1 DEF a
  <1>7. \A j \in 1..(n - 1) : g[j] = g[j - 1] + Amount(Tail(q)[j], type, to, s)
    <2> TAKE j \in 1..(n - 1)
    <2>1. j + 1 \in 1..n /\ (j + 1) - 1 = j /\ j \in 0..(n - 1) /\ j - 1 \in 0..(n - 1) /\ (j - 1) + 1 = j
      BY <1>1
    <2>2. g[j] = f[j + 1] /\ g[j - 1] = f[j]
      BY <1>5, <2>1
    <2> QED BY <1>2, <1>3, <2>1, <2>2
  <1>8. \A i, j \in 0..(n - 1) : i <= j => g[i] <= g[j]
    BY <1>1, <1>3, <1>5
  <1>9. g[0] = f[1] /\ g[n - 1] = f[n]
    BY <1>1, <1>5
  <1>10. Tally(Tail(q), g, type, to, s)
    BY <1>2, <1>5, <1>7, <1>8 DEF Tally
  <1>11. Carried(Tail(q), g) = f[n] - f[1] /\ Carried(q, f) = f[n] - f[0]
    BY <1>2, <1>9 DEF Carried, n
  <1> QED BY <1>4, <1>5, <1>6, <1>10, <1>11 DEF a, n

LEMMA TallyTrims ==
  ASSUME NEW q \in Seq(PacketType), NEW n \in 0..Len(q), NEW type, NEW to, NEW s, NEW f,
         Tally(q, f, type, to, s)
  PROVE  LET g == Trimmed(f, n)
         IN  /\ Tally(SubSeq(q, 1, n), g, type, to, s)
             /\ Carried(SubSeq(q, 1, n), g) <= Carried(q, f)
             /\ \A j \in 0..n : g[j] = f[j]
  <1> DEFINE g == Trimmed(f, n)
  <1>1. n \in Nat /\ Len(q) \in Nat /\ Len(SubSeq(q, 1, n)) = n /\ \A j \in 1..n : SubSeq(q, 1, n)[j] = q[j]
    OBVIOUS
  <1>2. /\ f \in [0..Len(q) -> Nat]
        /\ \A j \in 1..Len(q) : f[j] = f[j - 1] + Amount(q[j], type, to, s)
        /\ \A i, j \in 0..Len(q) : i <= j => f[i] <= f[j]
    BY DEF Tally
  <1>3. g \in [0..n -> Nat] /\ \A j \in 0..n : g[j] = f[j]
    BY <1>1, <1>2 DEF Trimmed
  <1> HIDE DEF g
  <1>4. \A j \in 1..n : g[j] = g[j - 1] + Amount(SubSeq(q, 1, n)[j], type, to, s)
    <2> TAKE j \in 1..n
    <2>1. j \in 1..Len(q) /\ j \in 0..n /\ j - 1 \in 0..n
      BY <1>1
    <2> QED BY <1>1, <1>2, <1>3, <2>1
  <1>5. \A i, j \in 0..n : i <= j => g[i] <= g[j]
    BY <1>1, <1>2, <1>3
  <1>6. g[n] <= f[Len(q)] /\ g[0] = f[0] /\ f[0] \in Nat /\ g[n] \in Nat /\ f[Len(q)] \in Nat
    <2>1. /\ n \in 0..n /\ 0 \in 0..n /\ n <= Len(q)
          /\ n \in 0..Len(q) /\ 0 \in 0..Len(q) /\ Len(q) \in 0..Len(q)
      BY <1>1
    <2>2. g[n] = f[n] /\ g[0] = f[0]
      BY <1>3, <2>1
    <2>3. f[0] \in Nat /\ f[n] \in Nat /\ f[Len(q)] \in Nat
      BY <1>2, <2>1
    <2>4. f[n] <= f[Len(q)]
      BY <1>2, <2>1
    <2> QED BY <2>2, <2>3, <2>4
  <1>7. Tally(SubSeq(q, 1, n), g, type, to, s)
    BY <1>1, <1>3, <1>4, <1>5 DEF Tally
  <1> QED BY <1>1, <1>3, <1>6, <1>7 DEF Carried, g

LEMMA TallyNothing ==
  ASSUME NEW q \in Seq(PacketType), NEW type, NEW to, NEW s,
         \A j \in 1..Len(q) : Amount(q[j], type, to, s) = 0
  PROVE  /\ Tally(q, Zeros(Len(q)), type, to, s)
         /\ Carried(q, Zeros(Len(q))) = 0
  <1>1. Len(q) \in Nat
    OBVIOUS
  <1> QED BY <1>1 DEF Tally, Zeros, Carried

LEMMA TallyType ==
  ASSUME NEW q \in Seq(PacketType), NEW type, NEW to, NEW s, NEW f, Tally(q, f, type, to, s)
  PROVE  /\ Carried(q, f) \in Nat
         /\ \A j \in 0..Len(q) : /\ f[j] \in Nat /\ f[0] <= f[j] /\ f[j] - f[0] \in Nat
                                 /\ f[j] - f[0] <= Carried(q, f)
  <1>1. Len(q) \in Nat /\ f \in [0..Len(q) -> Nat]
    BY DEF Tally
  <1>2. \A j \in 0..Len(q) : f[0] <= f[j] /\ f[j] <= f[Len(q)] /\ f[j] \in Nat
    BY <1>1 DEF Tally
  <1>3. f[0] \in Nat /\ f[Len(q)] \in Nat /\ f[0] <= f[Len(q)]
    BY <1>1, <1>2
  <1> QED BY <1>2, <1>3 DEF Carried

-----------------------------------------------------------------------------
ProcessType == [state : {"none", "running", "closed"}, id : Nat, win : Nat,
                size : [Streams -> Nat], left : [Streams -> Nat],
                eof : BOOLEAN, exited : BOOLEAN]

LEMMA Types ==
  ASSUME TypeOK
  PROVE  /\ NumCommands \in Nat \ {0} /\ IdModulus \in Nat \ {0} /\ NumCommands <= IdModulus
         /\ Window \in Nat \ {0} /\ Buf \in Nat \ {0} /\ MaxPacket \in Nat \ {0} /\ MinAdjust \in Nat
         /\ "stdout" \in Streams /\ "stderr" \in Streams /\ "none" \notin Streams
         /\ \A s \in Streams : s = "stdout" \/ s = "stderr"
         /\ k \in Nat /\ next \in Nat /\ ch.id \in Nat /\ ch.win \in Nat /\ ch.status \in Nat
         /\ ch.live \in BOOLEAN /\ ch.eof \in BOOLEAN /\ ch.close \in BOOLEAN
         /\ \A s \in Streams : ch.got[s] \in Nat /\ ch.avail[s] \in Nat
         /\ ReadAvail \in Nat
         /\ srv \in [1..NumCommands -> ProcessType]
         /\ \A c \in 1..NumCommands :
               /\ srv[c].win \in Nat /\ srv[c].id \in Nat
               /\ \A s \in Streams : srv[c].size[s] \in Nat /\ srv[c].left[s] \in Nat
         /\ down \in Seq(PacketType) /\ up \in Seq(PacketType)
         /\ Len(down) \in Nat /\ Len(up) \in Nat /\ Len(results) \in Nat
  <1>1. "stdout" \in Streams /\ "stderr" \in Streams /\ "none" \notin Streams
        /\ \A s \in Streams : s = "stdout" \/ s = "stderr"
    BY DEF Streams, Reading
  <1>2. /\ ch.id \in Nat /\ ch.win \in Nat /\ ch.status \in Nat
        /\ ch.live \in BOOLEAN /\ ch.eof \in BOOLEAN /\ ch.close \in BOOLEAN
        /\ ch.got \in [Streams -> Nat] /\ ch.avail \in [Streams -> Nat]
        /\ k \in Nat /\ next \in Nat
    <2>1. \A x \in 0..(IdModulus - 1) : x \in Nat
      BY SshChannelAssumption
    <2>2. ch \in [live : BOOLEAN, id : 0..(IdModulus - 1), win : Nat,
                  eof : BOOLEAN, close : BOOLEAN, status : Nat,
                  avail : [Streams -> Nat], got : [Streams -> Nat]]
      BY DEF TypeOK
    <2>3. k \in Nat /\ next \in Nat
      BY <2>1 DEF TypeOK
    <2> QED BY <2>1, <2>2, <2>3
  <1>3. ReadAvail \in Nat
    BY <1>1, <1>2 DEF ReadAvail
  <1>4. srv \in [1..NumCommands -> ProcessType]
    BY DEF TypeOK, ProcessType
  <1>5. \A c \in 1..NumCommands :
               /\ srv[c].win \in Nat /\ srv[c].id \in Nat
               /\ \A s \in Streams : srv[c].size[s] \in Nat /\ srv[c].left[s] \in Nat
    BY <1>4 DEF ProcessType
  <1>6. /\ down \in Seq(PacketType) /\ up \in Seq(PacketType)
        /\ Len(down) \in Nat /\ Len(up) \in Nat /\ Len(results) \in Nat
    BY DEF TypeOK
  <1> QED BY <1>1, <1>2, <1>3, <1>4, <1>5, <1>6, SshChannelAssumption

-----------------------------------------------------------------------------
(* A step of the server of command c: it takes a packet, sends one, or both.*)
ServerStep(c, p, m, sends, takes) ==
    /\ ~lost /\ UNCHANGED <<client, lost>> /\ noise' \in 0..MaxNoise
    /\ srv' = [srv EXCEPT ![c] = p]
    /\ down' = IF sends THEN Append(down, m) ELSE down
    /\ up' = IF takes THEN Tail(up) ELSE up
    /\ p.id = srv[c].id /\ p.size = srv[c].size
    /\ p.state = "none" <=> srv[c].state = "none"
    /\ p.eof => \A s \in Streams : p.left[s] = 0
    /\ p.eof /\ StatusFirst => p.exited
    /\ p.exited => srv[c].exited \/ (sends /\ m.type = "status" /\ m.to = c - 1)
    /\ sends => DownPacket(m) /\ m.to \in {-1, c - 1}
    /\ takes => up # <<>> /\ Head(up).to = c
    /\ \A s \in Streams :
          p.left[s] + (IF sends THEN Amount(m, "data", c - 1, s) ELSE 0) = srv[c].left[s]
    /\ p.win + (IF sends THEN Amount(m, "data", c - 1, "stdout") + Amount(m, "data", c - 1, "stderr")
                         ELSE 0)
         = srv[c].win + (IF takes THEN Amount(Head(up), "adjust", c, "none") ELSE 0)
    /\ sends /\ ch.live /\ c = k /\ m.type \in {"eof", "close"} =>
          /\ \A s \in Streams : p.left[s] = 0
          /\ StatusFirst => StatusKnown \/ srv[c].exited

LEMMA ServerBooks ==
  ASSUME IInv, NEW c \in 1..NumCommands, NEW p \in ProcessType, NEW m \in PacketType,
         NEW sends \in BOOLEAN, NEW takes \in BOOLEAN, ServerStep(c, p, m, sends, takes), ch.live
  PROVE  BooksOK'
  <1> DEFINE A(s) == IF sends THEN Amount(m, "data", ch.id, s) ELSE 0
             B == IF takes THEN Amount(Head(up), "adjust", k, "none") ELSE 0
  <1>0. TypeOK /\ ch.id = k - 1 /\ k \in 1..NumCommands /\ ch' = ch /\ k' = k /\ lost' = lost /\ ~lost
    BY DEF IInv, LoopOK, ServerStep, client
  <1>1. PICK f, u : Ledger(f, u)
    BY DEF IInv, BooksOK
  <1>2. \A s \in Streams : A(s) \in Nat
    BY AmountType
  <1>3. B \in Nat
    <2>1. takes => Head(up) \in PacketType
      BY <1>0, Types DEF ServerStep
    <2> QED BY <2>1, AmountType
  <1>4. /\ \A s \in Streams : srv'[k].left[s] + A(s) = srv[k].left[s]
        /\ srv'[k].win + A("stdout") + A("stderr") = srv[k].win + B
        /\ srv'[k].size = srv[k].size
        /\ \A s \in Streams : srv'[k].left[s] \in Nat
        /\ srv'[k].win \in Nat
    <2>1. srv \in [1..NumCommands -> ProcessType] /\ k \in 1..NumCommands
      BY <1>0, Types
    <2>2. CASE c = k
      <3>1. srv'[k] = p
        BY <2>1, <2>2 DEF ServerStep
      <3>2. /\ \A s \in Streams : p.left[s] + A(s) = srv[k].left[s] /\ p.left[s] \in Nat
            /\ p.size = srv[k].size /\ p.win \in Nat
        BY <1>0, <2>2 DEF ServerStep, ProcessType
      <3>3. p.win + (IF sends THEN Amount(m, "data", ch.id, "stdout")
                                   + Amount(m, "data", ch.id, "stderr") ELSE 0) = srv[k].win + B
        BY <1>0, <2>2 DEF ServerStep
      <3>4. p.win + A("stdout") + A("stderr") = srv[k].win + B
        <4>1. "stdout" \in Streams /\ "stderr" \in Streams
          BY <1>0, Types
        <4>2. CASE sends
          BY <1>2, <3>2, <3>3, <4>1, <4>2
        <4>3. CASE ~sends
          BY <3>2, <3>3, <4>3
        <4> QED BY <4>2, <4>3
      <3> QED BY <3>1, <3>2, <3>4
    <2>3. CASE c # k
      <3>1. srv'[k] = srv[k]
        BY <2>1, <2>3 DEF ServerStep
      <3>2. sends => m.to # ch.id
        BY <1>0, <2>3 DEF ServerStep
      <3>3. \A s \in Streams : A(s) = 0
        BY <3>2 DEF Amount
      <3>4. B = 0
        BY <2>3 DEF ServerStep, Amount
      <3>5. "stdout" \in Streams /\ "stderr" \in Streams
        BY <1>0, Types
      <3>6. srv[k].win \in Nat /\ \A s \in Streams : srv[k].left[s] \in Nat
        BY <1>0, Types
      <3> HIDE DEF A, B
      <3> QED BY <3>1, <3>3, <3>4, <3>5, <3>6
    <2> QED BY <2>2, <2>3
  <1> DEFINE g == [s \in Streams |-> IF sends THEN Grown(f[s], Len(down), A(s)) ELSE f[s]]
             v == IF takes THEN Shifted(u, Len(up)) ELSE u
  <1>5. ASSUME NEW s \in Streams
        PROVE  /\ Tally(down', g[s], "data", ch.id, s)
               /\ Carried(down', g[s]) = Carried(down, f[s]) + A(s)
               /\ \A j \in 0..Len(down) : g[s][j] = f[s][j]
               /\ Carried(down, f[s]) \in Nat
               /\ g[s][0] = f[s][0]
    <2>1. Tally(down, f[s], "data", ch.id, s) /\ down \in Seq(PacketType) /\ 0 \in 0..Len(down)
      BY <1>0, <1>1, Types DEF Ledger
    <2>2. Carried(down, f[s]) \in Nat
      BY <2>1, TallyType
    <2>3. CASE sends
      BY <2>1, <2>2, <2>3, TallyGrows DEF ServerStep
    <2>4. CASE ~sends
      BY <2>1, <2>2, <2>4 DEF ServerStep
    <2> QED BY <2>3, <2>4
  <1>6. /\ Tally(up', v, "adjust", k, "none")
        /\ Carried(up', v) = Carried(up, u) - B
        /\ Carried(up, u) \in Nat
    <2>1. Tally(up, u, "adjust", k, "none") /\ up \in Seq(PacketType)
      BY <1>0, <1>1, Types DEF Ledger
    <2>2. Carried(up, u) \in Nat
      BY <2>1, TallyType
    <2>3. CASE takes
      BY <2>1, <2>2, <2>3, TallyShifts DEF ServerStep
    <2>4. CASE ~takes
      BY <2>1, <2>2, <2>4 DEF ServerStep
    <2> QED BY <2>3, <2>4
  <1>7. \A s \in Streams : /\ ch.got[s] \in Nat /\ ch.avail[s] \in Nat
                           /\ srv[k].size[s] \in Nat /\ srv[k].left[s] \in Nat
    BY <1>0, Types
  <1>8. "stdout" \in Streams /\ "stderr" \in Streams /\ ReadAvail \in Nat /\ ch.win \in Nat /\ srv[k].win \in Nat
    BY <1>0, Types
  <1> HIDE DEF A, B, g, v
  <1>9. ASSUME NEW s \in Streams
        PROVE  ch.got[s] + ch.avail[s] + Carried(down', g[s]) = srv'[k].size[s] - srv'[k].left[s]
    <2>1. ch.got[s] + ch.avail[s] + Carried(down, f[s]) = srv[k].size[s] - srv[k].left[s]
      BY <1>0, <1>1 DEF Ledger
    <2>2. Carried(down', g[s]) = Carried(down, f[s]) + A(s) /\ Carried(down, f[s]) \in Nat
      BY <1>5
    <2>3. srv'[k].left[s] + A(s) = srv[k].left[s] /\ srv'[k].left[s] \in Nat /\ A(s) \in Nat
      BY <1>2, <1>4
    <2>4. srv'[k].size[s] = srv[k].size[s] /\ srv[k].size[s] \in Nat /\ ch.got[s] \in Nat /\ ch.avail[s] \in Nat
      BY <1>4, <1>7
    <2> QED BY <2>1, <2>2, <2>3, <2>4
  <1>10. srv'[k].win + Carried(up', v) + Carried(down', g["stdout"])
           + Carried(down', g["stderr"]) + ReadAvail = ch.win
    <2>1. srv[k].win + Carried(up, u) + Carried(down, f["stdout"])
            + Carried(down, f["stderr"]) + ReadAvail = ch.win
      BY <1>0, <1>1 DEF Ledger, Fits
    <2>2. /\ Carried(down', g["stdout"]) = Carried(down, f["stdout"]) + A("stdout")
          /\ Carried(down', g["stderr"]) = Carried(down, f["stderr"]) + A("stderr")
          /\ Carried(down, f["stdout"]) \in Nat /\ Carried(down, f["stderr"]) \in Nat
      BY <1>5, <1>8
    <2>3. A("stdout") \in Nat /\ A("stderr") \in Nat
      BY <1>2, <1>8
    <2> QED BY <1>3, <1>4, <1>6, <1>8, <2>1, <2>2, <2>3
  <1>11. ASSUME NEW j \in 1..Len(down'), NEW s \in Streams, Ends(down'[j])
         PROVE  ch.got[s] + ch.avail[s] + g[s][j] - g[s][0] = srv'[k].size[s]
    <2>0. Len(down) \in Nat /\ down \in Seq(PacketType)
      BY <1>0, Types
    <2>1. CASE j \in 1..Len(down)
      <3>1. down'[j] = down[j] /\ j \in 0..Len(down)
        BY <2>0, <2>1 DEF ServerStep
      <3>2. ch.got[s] + ch.avail[s] + f[s][j] - f[s][0] = srv[k].size[s]
        BY <1>1, <1>11, <2>1, <3>1 DEF Ledger
      <3> QED BY <1>4, <1>5, <3>1, <3>2
    <2>2. CASE j \notin 1..Len(down)
      <3>1. sends /\ j = Len(down) + 1 /\ down'[j] = m /\ Len(down') = Len(down) + 1
        BY <2>0, <2>2 DEF ServerStep
      <3>2. m.to = ch.id /\ m.type \in {"eof", "close"} /\ c = k
        BY <1>0, <1>11, <3>1 DEF Ends, ServerStep
      <3>3. srv'[k].left[s] = 0
        <4>1. srv'[k] = p
          BY <1>0, <3>2, Types DEF ServerStep
        <4> QED BY <3>1, <3>2, <4>1 DEF ServerStep
      <3>4. Carried(down', g[s]) = g[s][j] - g[s][0]
        BY <3>1 DEF Carried
      <3>5. g[s][j] \in Nat /\ g[s][0] \in Nat
        <4>1. down' \in Seq(PacketType)
          BY <2>0, <3>1 DEF ServerStep
        <4>2. Tally(down', g[s], "data", ch.id, s) /\ j \in 0..Len(down') /\ 0 \in 0..Len(down')
          BY <1>5, <2>0, <3>1
        <4> QED BY <4>1, <4>2, TallyType
      <3> QED BY <1>4, <1>7, <1>9, <3>3, <3>4, <3>5
    <2> QED BY <2>1, <2>2
  <1>12. PICK G, V : G = g /\ V = v
    OBVIOUS
  <1>13. Ledger(G, V)'
    <2>1. ReadAvail' = ReadAvail /\ \A x : Ends(x)' <=> Ends(x)
      BY <1>0 DEF ReadAvail, Ends
    <2>2. \A s \in Streams : Tally(down', G[s], "data", ch.id, s)
      BY <1>5, <1>12
    <2>3. Tally(up', V, "adjust", k, "none")
      BY <1>6, <1>12
    <2>4. \A s \in Streams : /\ ch.got[s] + ch.avail[s] + Carried(down', G[s]) = srv'[k].size[s] - srv'[k].left[s]
                             /\ ch.got[s] + ch.avail[s] + Carried(down', G[s]) <= srv'[k].size[s] - srv'[k].left[s]
      BY <1>4, <1>7, <1>9, <1>12
    <2>5. Fits(srv'[k].win + Carried(up', V) + Carried(down', G["stdout"])
                 + Carried(down', G["stderr"]) + ReadAvail, ch.win, lost)
      BY <1>8, <1>10, <1>12 DEF Fits
    <2>6. \A j \in 1..Len(down'), s \in Streams : Ends(down'[j]) =>
             ch.got[s] + ch.avail[s] + G[s][j] - G[s][0] = srv'[k].size[s]
      BY <1>11, <1>12
    <2> QED BY <1>0, <2>1, <2>2, <2>3, <2>4, <2>5, <2>6 DEF Ledger, Tally, Carried, Fits
  <1> QED BY <1>13 DEF BooksOK

LEMMA ServerKeeps ==
  ASSUME IInv, NEW c \in 1..NumCommands, NEW p \in ProcessType, NEW m \in PacketType,
         NEW sends \in BOOLEAN, NEW takes \in BOOLEAN, ServerStep(c, p, m, sends, takes)
  PROVE  IInv'
  <1>0. /\ TypeOK /\ UNCHANGED <<stage, k, ch, next, closeOk, results>> /\ lost' = lost /\ ~lost
        /\ noise' \in 0..MaxNoise
    BY DEF IInv, ServerStep, client
  <1>1. /\ srv' \in [1..NumCommands -> ProcessType] /\ srv'[c] = p
        /\ \A x \in 1..NumCommands : x # c => srv'[x] = srv[x]
    BY <1>0, Types DEF ServerStep
  <1>2. \A x \in 1..NumCommands : srv'[x].size = srv[x].size
    BY <1>1 DEF ServerStep
  <1>3. /\ down' \in Seq(PacketType) /\ up' \in Seq(PacketType) /\ Len(down) \in Nat /\ Len(up) \in Nat
        /\ Len(down') = IF sends THEN Len(down) + 1 ELSE Len(down)
        /\ \A j \in 1..Len(down) : down'[j] = down[j]
        /\ sends => down'[Len(down) + 1] = m
    <2>1. down \in Seq(PacketType) /\ up \in Seq(PacketType) /\ Len(down) \in Nat /\ Len(up) \in Nat
      BY <1>0, Types
    <2>2. /\ down' = IF sends THEN Append(down, m) ELSE down
          /\ up' = IF takes THEN Tail(up) ELSE up
          /\ takes => up # <<>>
      BY DEF ServerStep
    <2>3. /\ Append(down, m) \in Seq(PacketType) /\ Len(Append(down, m)) = Len(down) + 1
          /\ \A j \in 1..Len(down) : Append(down, m)[j] = down[j]
          /\ Append(down, m)[Len(down) + 1] = m
      BY <2>1
    <2>4. takes => Tail(up) \in Seq(PacketType)
      BY <2>1, <2>2
    <2> QED BY <2>1, <2>2, <2>3, <2>4
  <1>4. \A j \in 1..Len(up') : \E l \in 1..Len(up) : up'[j] = up[l]
    <2>1. CASE takes
      <3>1. Len(up') = Len(up) - 1 /\ \A j \in 1..(Len(up) - 1) : up'[j] = up[j + 1]
        BY <1>0, <2>1, Types DEF ServerStep
      <3>2. \A j \in 1..(Len(up) - 1) : j + 1 \in 1..Len(up)
        BY <1>3
      <3> QED BY <3>1, <3>2
    <2>2. CASE ~takes
      BY <2>2 DEF ServerStep
    <2> QED BY <2>1, <2>2
  <1>5. \A j \in 1..Len(down') : j \in 1..Len(down) \/ (sends /\ j = Len(down) + 1)
    BY <1>3
  <1>6. Opened' = Opened
    BY <1>0 DEF Opened
  <1>7. TypeOK'
    BY <1>0, <1>1, <1>3 DEF TypeOK, ProcessType
  <1>8. LoopOK'
    BY <1>0 DEF IInv, LoopOK
  <1>9. ServersOK'
    <2>1. ASSUME NEW x \in 1..NumCommands
          PROVE  /\ srv'[x].state = "none" <=> x > Opened
                 /\ x <= Opened => srv'[x].id = x - 1
                 /\ srv'[x].eof => \A s \in Streams : srv'[x].left[s] = 0
                 /\ srv'[x].eof /\ StatusFirst => srv'[x].exited
      <3>1. CASE x = c
        BY <1>1, <3>1 DEF IInv, ServersOK, ServerStep
      <3>2. CASE x # c
        BY <1>1, <3>2 DEF IInv, ServersOK
      <3> QED BY <3>1, <3>2
    <2> QED BY <1>6, <2>1 DEF ServersOK
  <1>10. QueuesOK'
    <2>1. \A x : (DownPacket(x)' <=> DownPacket(x)) /\ (UpPacket(x)' <=> UpPacket(x))
      BY <1>0, <1>6 DEF DownPacket, UpPacket
    <2>2. \A j \in 1..Len(down') : DownPacket(down'[j])
      BY <1>3, <1>5 DEF IInv, QueuesOK, ServerStep
    <2>3. \A j \in 1..Len(up') : UpPacket(up'[j])
      BY <1>4 DEF IInv, QueuesOK
    <2> QED BY <2>1, <2>2, <2>3 DEF QueuesOK, DownPacket, UpPacket
  <1>11. BooksOK'
    <2>1. CASE ch.live
      BY <2>1, ServerBooks
    <2>2. CASE ~ch.live
      BY <1>0, <2>2 DEF BooksOK
    <2> QED BY <2>1, <2>2
  <1>12. k \in 1..NumCommands /\ DOMAIN results = 1..Len(results) /\ Len(results) \in 0..k
    <2>1. results \in Seq([out : Nat, err : Nat, code : Nat]) /\ k \in 1..NumCommands
      BY <1>0 DEF IInv, LoopOK, TypeOK
    <2>2. Len(results) = k \/ Len(results) = k - 1
      BY DEF IInv, LoopOK
    <2>3. DOMAIN results = 1..Len(results) /\ k \in Nat \ {0}
      BY <2>1
    <2>4. k \in Int /\ 1 <= k
      BY <2>3
    <2>5. Len(results) \in 0..k
      BY <2>2, <2>4
    <2> QED BY <2>1, <2>3, <2>5
  <1>13. ReadOK'
    BY <1>0, <1>2, <1>12 DEF IInv, ReadOK, Ended
  <1>14. StatusOK'
    <2> SUFFICES ASSUME ch.live
                 PROVE  /\ ch.status \in {0, Code(k)}
                        /\ StatusFirst =>
                              /\ Ended => StatusKnown
                              /\ \A j \in 1..Len(down') : Ends(down'[j]) => StatusKnown \/ StatusBefore(j)'
                              /\ srv'[k].exited => StatusKnown \/ StatusBefore(Len(down))'
      BY <1>0 DEF StatusOK, Ended, StatusKnown, Ends, StatusBefore, Code
    <2>1. /\ ch.status \in {0, Code(k)}
          /\ StatusFirst =>
                /\ Ended => StatusKnown
                /\ \A j \in 1..Len(down) : Ends(down[j]) => StatusKnown \/ StatusBefore(j)
                /\ srv[k].exited => StatusKnown \/ StatusBefore(Len(down))
      BY <1>0 DEF IInv, StatusOK
    <2>2. ASSUME NEW n \in Nat, NEW n2 \in Nat, n <= n2, StatusBefore(n)
          PROVE  \E j \in 1..Len(down') : j <= n2 /\ down'[j].type = "status" /\ down'[j].to = ch.id
      BY <1>3, <2>2 DEF StatusBefore
    <2>3. StatusFirst /\ srv'[k].exited => \/ StatusKnown
                         \/ \E j \in 1..Len(down') : j <= Len(down') /\ down'[j].type = "status" /\ down'[j].to = ch.id
      <3>1. CASE srv[k].exited
        <4>1. Len(down') \in Nat /\ Len(down) <= Len(down')
          BY <1>3
        <4> QED BY <1>3, <2>1, <2>2, <3>1, <4>1
      <3>2. CASE ~srv[k].exited /\ srv'[k].exited
        <4>1. c = k /\ sends /\ m.type = "status" /\ m.to = c - 1 /\ ch.id = k - 1
          BY <1>1, <1>12, <3>2 DEF ServerStep, IInv, LoopOK
        <4>2. Len(down) + 1 \in 1..Len(down') /\ down'[Len(down) + 1] = m /\ Len(down) + 1 <= Len(down')
          BY <1>3, <4>1
        <4> QED BY <4>1, <4>2
      <3> QED BY <3>1, <3>2
    <2>4. ASSUME NEW j \in 1..Len(down'), Ends(down'[j]), StatusFirst
          PROVE  \/ StatusKnown
                 \/ \E l \in 1..Len(down') : l <= j /\ down'[l].type = "status" /\ down'[l].to = ch.id
      <3>1. CASE j \in 1..Len(down)
        <4>1. StatusKnown \/ StatusBefore(j)
          BY <1>3, <2>1, <2>4, <3>1
        <4>2. j \in Nat /\ j <= j
          BY <3>1
        <4> QED BY <2>2, <4>1, <4>2
      <3>2. CASE sends /\ j = Len(down) + 1
        <4>1. down'[j] = m /\ m.to = ch.id /\ m.type \in {"eof", "close"}
          BY <1>3, <2>4, <3>2 DEF Ends
        <4>2. c = k
          <5>1. ch.id = k - 1 /\ m.to \in {-1, c - 1}
            BY <3>2 DEF ServerStep, IInv, LoopOK
          <5> QED BY <1>12, <4>1, <5>1
        <4>3. StatusKnown \/ srv[k].exited
          BY <2>4, <3>2, <4>1, <4>2 DEF ServerStep
        <4>4. Len(down) <= j /\ j \in Nat
          BY <1>3, <3>2
        <4> QED BY <1>3, <2>1, <2>2, <2>4, <4>3, <4>4
      <3> QED BY <1>5, <3>1, <3>2
    <2> QED BY <1>0, <2>1, <2>3, <2>4 DEF StatusBefore
  <1>15. RefillsOK'
    BY <1>0 DEF IInv, RefillsOK
  <1>16. OutputComplete'
    <2>1. \A x \in DOMAIN results : x \in 1..NumCommands
      BY <1>12, SshChannelAssumption
    <2> QED BY <1>0, <1>2, <2>1 DEF IInv, OutputComplete
  <1>17. ExitCodeOwn'
    BY <1>0 DEF IInv, ExitCodeOwn
  <1> QED BY <1>7, <1>8, <1>9, <1>10, <1>11, <1>13, <1>14, <1>15, <1>16, <1>17 DEF IInv

LEMMA OpenServer ==
  ASSUME IInv, NEW c \in 1..NumCommands, srv[c].state # "none"
  PROVE  c \in Nat \ {0} /\ Opened \in Int /\ c <= Opened /\ srv[c].id = c - 1
  <1>1. c \in Nat \ {0} /\ Opened \in Int
    BY Types DEF IInv, Opened
  <1>2. ~(c > Opened)
    BY DEF IInv, ServersOK
  <1>3. c <= Opened
    BY <1>1, <1>2
  <1> QED BY <1>1, <1>3 DEF IInv, ServersOK

LEMMA ServerDataKeeps ==
  ASSUME IInv, NEW c \in 1..NumCommands, NEW s \in Streams, ServerData(c, s)
  PROVE  IInv'
  <1>1. /\ srv[c].state = "running" /\ ~lost /\ UNCHANGED <<client, up, noise, lost>>
        /\ srv[c].left[s] > 0
    BY DEF ServerData, Running
  <1>2. PICK n \in 1..Least(Least(srv[c].left[s], srv[c].win), MaxPacket) :
          /\ srv' = [srv EXCEPT ![c].left[s] = @ - n, ![c].win = @ - n]
          /\ down' = Append(down, Packet("data", srv[c].id, s, n))
    BY DEF ServerData
  <1> DEFINE m == Packet("data", srv[c].id, s, n)
             p == [srv[c] EXCEPT !.left[s] = @ - n, !.win = @ - n]
  <1>3. /\ srv \in [1..NumCommands -> ProcessType] /\ srv[c] \in ProcessType
        /\ srv[c].left[s] \in Nat /\ srv[c].win \in Nat /\ MaxPacket \in Nat
    BY Types DEF IInv
  <1>4. n \in 1..MaxPacket /\ n <= srv[c].left[s] /\ n <= srv[c].win
    BY <1>3 DEF Least
  <1>5. srv' = [srv EXCEPT ![c] = p]
    BY <1>2, <1>3, Zenon
  <1>6. /\ p.id = srv[c].id /\ p.size = srv[c].size /\ p.state = srv[c].state
        /\ p.eof = srv[c].eof /\ p.exited = srv[c].exited /\ p.win = srv[c].win - n
        /\ p.left = [srv[c].left EXCEPT ![s] = @ - n]
        /\ p \in ProcessType
    <2>1. srv[c].left[s] - n \in Nat /\ srv[c].win - n \in Nat
      BY <1>3, <1>4
    <2> DEFINE a == srv[c].left[s] - n
               b == srv[c].win - n
    <2>2. p = [srv[c] EXCEPT !.left[s] = a, !.win = b]
      BY <1>3, Zenon DEF ProcessType
    <2>3. a \in Nat /\ b \in Nat
      BY <2>1
    <2> HIDE DEF a, b, p
    <2>4. /\ p.id = srv[c].id /\ p.size = srv[c].size /\ p.state = srv[c].state
          /\ p.eof = srv[c].eof /\ p.exited = srv[c].exited /\ p.win = b
          /\ p.left = [srv[c].left EXCEPT ![s] = a]
          /\ p \in ProcessType
      BY <1>3, <2>2, <2>3 DEF ProcessType
    <2> QED BY <2>4 DEF a, b
  <1>7. c <= Opened /\ srv[c].id = c - 1 /\ c \in Nat \ {0} /\ Opened \in Int
    BY <1>1, OpenServer
  <1>8. m \in PacketType /\ m.type = "data" /\ m.to = c - 1 /\ m.stream = s /\ m.n = n
    <2>1. c - 1 \in Int /\ n \in Nat /\ m = Packet("data", c - 1, s, n)
      BY <1>4, <1>7
    <2> QED BY <2>1 DEF Packet, PacketType
  <1>9. DownPacket(m)
    BY <1>4, <1>7, <1>8 DEF DownPacket
  <1> HIDE DEF m, p
  <1>10. \A r \in Streams : Amount(m, "data", c - 1, r) = IF r = s THEN n ELSE 0
    BY <1>8 DEF Amount
  <1>11. ASSUME NEW r \in Streams
         PROVE  p.left[r] + Amount(m, "data", c - 1, r) = srv[c].left[r]
    <2>1. srv[c].left \in [Streams -> Nat]
      BY <1>3 DEF ProcessType
    <2>2. p.left[r] = IF r = s THEN srv[c].left[s] - n ELSE srv[c].left[r]
      BY <1>6, <2>1
    <2> QED BY <1>3, <1>4, <1>10, <2>1, <2>2
  <1>12. p.win + (Amount(m, "data", c - 1, "stdout") + Amount(m, "data", c - 1, "stderr")) = srv[c].win
    <2>1. /\ s = "stdout" \/ s = "stderr"
          /\ "stdout" \in Streams /\ "stderr" \in Streams
      BY Types DEF IInv
    <2> QED BY <1>3, <1>4, <1>6, <1>10, <2>1
  <1>13. ~p.eof
    <2>1. srv[c].eof => srv[c].left[s] = 0
      BY DEF IInv, ServersOK
    <2> QED BY <1>1, <1>6, <2>1
  <1>20. noise' \in 0..MaxNoise
    BY <1>1 DEF IInv, TypeOK
  <1>21. ServerStep(c, p, m, TRUE, FALSE)
    <2>1. p.exited => srv[c].exited
      BY <1>6
    <2>2. p.win + (Amount(m, "data", c - 1, "stdout") + Amount(m, "data", c - 1, "stderr")) = srv[c].win + 0
      BY <1>3, <1>12
    <2>3. down' = Append(down, m) /\ up' = up
      BY <1>1, <1>2 DEF m
    <2>4. p.state = "none" <=> srv[c].state = "none"
      BY <1>1, <1>6
    <2>5. p.eof => (\A t \in Streams : p.left[t] = 0) /\ (StatusFirst => p.exited)
      BY <1>1, <1>6, <1>13
    <2>6. m.type \in {"eof", "close"} /\ c = k =>
             /\ \A t \in Streams : p.left[t] = 0
             /\ StatusFirst => StatusKnown \/ srv[c].exited
      BY <1>1, <1>6, <1>8, <1>13
    <2> QED BY <1>1, <1>5, <1>6, <1>8, <1>9, <1>11, <1>20, <2>1, <2>2, <2>3, <2>4, <2>5, <2>6
            DEF ServerStep
  <1> QED BY <1>6, <1>8, <1>21, ServerKeeps

LEMMA ServerEofKeeps ==
  ASSUME IInv, NEW c \in 1..NumCommands, ServerEof(c)
  PROVE  IInv'
  <1>1. /\ srv[c].state = "running" /\ ~lost /\ UNCHANGED <<client, up, noise, lost>>
        /\ Written(c) /\ (StatusFirst => srv[c].exited)
        /\ srv' = [srv EXCEPT ![c].eof = TRUE]
        /\ down' = Append(down, Packet("eof", srv[c].id, "none", 0))
    BY DEF ServerEof, Running
  <1> DEFINE m == Packet("eof", srv[c].id, "none", 0)
             p == [srv[c] EXCEPT !.eof = TRUE]
  <1>3. /\ srv \in [1..NumCommands -> ProcessType] /\ srv[c] \in ProcessType
        /\ srv[c].win \in Nat /\ \A s \in Streams : srv[c].left[s] = 0
    <2>1. \A s \in Streams : srv[c].left[s] = 0
      BY <1>1 DEF Written
    <2> QED BY <2>1, Types DEF IInv
  <1>5. srv' = [srv EXCEPT ![c] = p]
    BY <1>1, <1>3, Zenon
  <1>6. /\ p \in ProcessType /\ p.id = srv[c].id /\ p.size = srv[c].size
        /\ p.state = srv[c].state /\ p.eof /\ p.exited = srv[c].exited /\ p.win = srv[c].win /\ p.left = srv[c].left
    BY <1>3 DEF ProcessType
  <1>7. c <= Opened /\ srv[c].id = c - 1 /\ c \in Nat \ {0} /\ Opened \in Int
    BY <1>1, OpenServer
  <1>8. m \in PacketType /\ m.type = "eof" /\ m.to = c - 1 /\ m.stream = "none" /\ m.n = 0
    <2>1. c - 1 \in Int /\ c \in Nat /\ m = Packet("eof", c - 1, "none", 0)
      BY <1>7
    <2> QED BY <2>1 DEF Packet, PacketType, Code
  <1>9. DownPacket(m)
    BY <1>7, <1>8 DEF DownPacket, Code
  <1> HIDE DEF m, p
  <1>10. \A r \in Streams : Amount(m, "data", c - 1, r) = 0
    BY <1>8 DEF Amount
  <1>11. \A r \in Streams : p.left[r] + Amount(m, "data", c - 1, r) = srv[c].left[r]
    BY <1>3, <1>6, <1>10
  <1>12. p.win + (Amount(m, "data", c - 1, "stdout") + Amount(m, "data", c - 1, "stderr")) = srv[c].win
    <2>1. srv[c].win \in Nat /\ "stdout" \in Streams /\ "stderr" \in Streams
      BY Types DEF IInv
    <2>2. p.win = srv[c].win
      BY <1>6
    <2>3. Amount(m, "data", c - 1, "stdout") = 0 /\ Amount(m, "data", c - 1, "stderr") = 0
      BY <1>10, <2>1
    <2> HIDE DEF Amount
    <2> QED BY <2>1, <2>2, <2>3
  <1>13. (\A s \in Streams : p.left[s] = 0) /\ (p.eof /\ StatusFirst => p.exited)
         /\ (StatusFirst => srv[c].exited)
    BY <1>1, <1>3, <1>6
  <1>20. noise' \in 0..MaxNoise
    BY <1>1 DEF IInv, TypeOK
  <1>21. ServerStep(c, p, m, TRUE, FALSE)
    <2>1. p.exited => srv[c].exited
      BY <1>6
    <2>2. p.win + (Amount(m, "data", c - 1, "stdout") + Amount(m, "data", c - 1, "stderr")) = srv[c].win + 0
      BY <1>3, <1>12
    <2>3. down' = Append(down, m) /\ up' = up
      BY <1>1, <1>1 DEF m
    <2>4. p.state = "none" <=> srv[c].state = "none"
      BY <1>1, <1>6
    <2>5. p.eof => (\A s \in Streams : p.left[s] = 0) /\ (StatusFirst => p.exited)
      BY <1>1, <1>6, <1>13
    <2>6. m.type \in {"eof", "close"} /\ c = k =>
             /\ \A s \in Streams : p.left[s] = 0
             /\ StatusFirst => StatusKnown \/ srv[c].exited
      BY <1>1, <1>6, <1>8, <1>13
    <2> QED BY <1>1, <1>5, <1>6, <1>8, <1>9, <1>11, <1>20, <2>1, <2>2, <2>3, <2>4, <2>5, <2>6
            DEF ServerStep
  <1> QED BY <1>6, <1>8, <1>21, ServerKeeps

LEMMA ServerStatusKeeps ==
  ASSUME IInv, NEW c \in 1..NumCommands, ServerStatus(c)
  PROVE  IInv'
  <1>1. /\ srv[c].state = "running" /\ ~lost /\ UNCHANGED <<client, up, noise, lost>>
        /\ Written(c)
        /\ srv' = [srv EXCEPT ![c].exited = TRUE]
        /\ down' = Append(down, Packet("status", srv[c].id, "none", Code(c)))
    BY DEF ServerStatus, Running
  <1> DEFINE m == Packet("status", srv[c].id, "none", Code(c))
             p == [srv[c] EXCEPT !.exited = TRUE]
  <1>3. /\ srv \in [1..NumCommands -> ProcessType] /\ srv[c] \in ProcessType
        /\ srv[c].win \in Nat /\ \A s \in Streams : srv[c].left[s] = 0
    <2>1. \A s \in Streams : srv[c].left[s] = 0
      BY <1>1 DEF Written
    <2> QED BY <2>1, Types DEF IInv
  <1>5. srv' = [srv EXCEPT ![c] = p]
    BY <1>1, <1>3, Zenon
  <1>6. /\ p \in ProcessType /\ p.id = srv[c].id /\ p.size = srv[c].size
        /\ p.state = srv[c].state /\ p.eof = srv[c].eof /\ p.exited /\ p.win = srv[c].win /\ p.left = srv[c].left
    BY <1>3 DEF ProcessType
  <1>7. c <= Opened /\ srv[c].id = c - 1 /\ c \in Nat \ {0} /\ Opened \in Int
    BY <1>1, OpenServer
  <1>8. m \in PacketType /\ m.type = "status" /\ m.to = c - 1 /\ m.stream = "none" /\ m.n = Code(c)
    <2>1. c - 1 \in Int /\ c \in Nat /\ m = Packet("status", c - 1, "none", Code(c))
      BY <1>7
    <2> QED BY <2>1 DEF Packet, PacketType, Code
  <1>9. DownPacket(m)
    BY <1>7, <1>8 DEF DownPacket, Code
  <1> HIDE DEF m, p
  <1>10. \A r \in Streams : Amount(m, "data", c - 1, r) = 0
    BY <1>8 DEF Amount
  <1>11. \A r \in Streams : p.left[r] + Amount(m, "data", c - 1, r) = srv[c].left[r]
    BY <1>3, <1>6, <1>10
  <1>12. p.win + (Amount(m, "data", c - 1, "stdout") + Amount(m, "data", c - 1, "stderr")) = srv[c].win
    <2>1. srv[c].win \in Nat /\ "stdout" \in Streams /\ "stderr" \in Streams
      BY Types DEF IInv
    <2>2. p.win = srv[c].win
      BY <1>6
    <2>3. Amount(m, "data", c - 1, "stdout") = 0 /\ Amount(m, "data", c - 1, "stderr") = 0
      BY <1>10, <2>1
    <2> HIDE DEF Amount
    <2> QED BY <2>1, <2>2, <2>3
  <1>13. (\A s \in Streams : p.left[s] = 0) /\ (p.eof /\ StatusFirst => p.exited)
    BY <1>3, <1>6
  <1>20. noise' \in 0..MaxNoise
    BY <1>1 DEF IInv, TypeOK
  <1>21. ServerStep(c, p, m, TRUE, FALSE)
    <2>1. p.exited => srv[c].exited \/ (m.type = "status" /\ m.to = c - 1)
      BY <1>6, <1>8
    <2>2. p.win + (Amount(m, "data", c - 1, "stdout") + Amount(m, "data", c - 1, "stderr")) = srv[c].win + 0
      BY <1>3, <1>12
    <2>3. down' = Append(down, m) /\ up' = up
      BY <1>1, <1>1 DEF m
    <2>4. p.state = "none" <=> srv[c].state = "none"
      BY <1>1, <1>6
    <2>5. p.eof => (\A s \in Streams : p.left[s] = 0) /\ (StatusFirst => p.exited)
      BY <1>1, <1>6, <1>13
    <2>6. m.type \in {"eof", "close"} /\ c = k =>
             /\ \A s \in Streams : p.left[s] = 0
             /\ StatusFirst => StatusKnown \/ srv[c].exited
      BY <1>1, <1>6, <1>8, <1>13
    <2> QED BY <1>1, <1>5, <1>6, <1>8, <1>9, <1>11, <1>20, <2>1, <2>2, <2>3, <2>4, <2>5, <2>6
            DEF ServerStep
  <1> QED BY <1>6, <1>8, <1>21, ServerKeeps

LEMMA ServerCloseKeeps ==
  ASSUME IInv, NEW c \in 1..NumCommands, ServerClose(c)
  PROVE  IInv'
  <1>1. /\ srv[c].state = "running" /\ ~lost /\ UNCHANGED <<client, up, noise, lost>>
        /\ srv[c].eof /\ srv[c].exited
        /\ srv' = [srv EXCEPT ![c].state = "closed"]
        /\ down' = Append(down, Packet("close", srv[c].id, "none", 0))
    BY DEF ServerClose, Running
  <1> DEFINE m == Packet("close", srv[c].id, "none", 0)
             p == [srv[c] EXCEPT !.state = "closed"]
  <1>3. /\ srv \in [1..NumCommands -> ProcessType] /\ srv[c] \in ProcessType
        /\ srv[c].win \in Nat /\ \A s \in Streams : srv[c].left[s] = 0
    <2>1. \A s \in Streams : srv[c].left[s] = 0
      BY <1>1 DEF IInv, ServersOK
    <2> QED BY <2>1, Types DEF IInv
  <1>5. srv' = [srv EXCEPT ![c] = p]
    BY <1>1, <1>3, Zenon
  <1>6. /\ p \in ProcessType /\ p.id = srv[c].id /\ p.size = srv[c].size
        /\ p.state = "closed" /\ p.eof = srv[c].eof /\ p.exited = srv[c].exited /\ p.win = srv[c].win /\ p.left = srv[c].left
    BY <1>3 DEF ProcessType
  <1>7. c <= Opened /\ srv[c].id = c - 1 /\ c \in Nat \ {0} /\ Opened \in Int
    BY <1>1, OpenServer
  <1>8. m \in PacketType /\ m.type = "close" /\ m.to = c - 1 /\ m.stream = "none" /\ m.n = 0
    <2>1. c - 1 \in Int /\ c \in Nat /\ m = Packet("close", c - 1, "none", 0)
      BY <1>7
    <2> QED BY <2>1 DEF Packet, PacketType, Code
  <1>9. DownPacket(m)
    BY <1>7, <1>8 DEF DownPacket, Code
  <1> HIDE DEF m, p
  <1>10. \A r \in Streams : Amount(m, "data", c - 1, r) = 0
    BY <1>8 DEF Amount
  <1>11. \A r \in Streams : p.left[r] + Amount(m, "data", c - 1, r) = srv[c].left[r]
    BY <1>3, <1>6, <1>10
  <1>12. p.win + (Amount(m, "data", c - 1, "stdout") + Amount(m, "data", c - 1, "stderr")) = srv[c].win
    <2>1. srv[c].win \in Nat /\ "stdout" \in Streams /\ "stderr" \in Streams
      BY Types DEF IInv
    <2>2. p.win = srv[c].win
      BY <1>6
    <2>3. Amount(m, "data", c - 1, "stdout") = 0 /\ Amount(m, "data", c - 1, "stderr") = 0
      BY <1>10, <2>1
    <2> HIDE DEF Amount
    <2> QED BY <2>1, <2>2, <2>3
  <1>13. (\A s \in Streams : p.left[s] = 0) /\ (p.eof /\ StatusFirst => p.exited)
         /\ srv[c].exited
    BY <1>1, <1>3, <1>6
  <1>20. noise' \in 0..MaxNoise
    BY <1>1 DEF IInv, TypeOK
  <1>21. ServerStep(c, p, m, TRUE, FALSE)
    <2>1. p.exited => srv[c].exited
      BY <1>6
    <2>2. p.win + (Amount(m, "data", c - 1, "stdout") + Amount(m, "data", c - 1, "stderr")) = srv[c].win + 0
      BY <1>3, <1>12
    <2>3. down' = Append(down, m) /\ up' = up
      BY <1>1, <1>1 DEF m
    <2>4. p.state = "none" <=> srv[c].state = "none"
      BY <1>1, <1>6
    <2>5. p.eof => (\A s \in Streams : p.left[s] = 0) /\ (StatusFirst => p.exited)
      BY <1>1, <1>6, <1>13
    <2>6. m.type \in {"eof", "close"} /\ c = k =>
             /\ \A s \in Streams : p.left[s] = 0
             /\ StatusFirst => StatusKnown \/ srv[c].exited
      BY <1>1, <1>6, <1>8, <1>13
    <2> QED BY <1>1, <1>5, <1>6, <1>8, <1>9, <1>11, <1>20, <2>1, <2>2, <2>3, <2>4, <2>5, <2>6
            DEF ServerStep
  <1> QED BY <1>6, <1>8, <1>21, ServerKeeps

(* The server takes a window adjustment or a CLOSE.                         *)
LEMMA ServerReceiveKeeps ==
  ASSUME IInv, ServerReceive
  PROVE  IInv'
  <1> DEFINE h == Head(up)
             c == h.to
  <1>1. /\ up # <<>> /\ ~lost /\ up' = Tail(up) /\ UNCHANGED <<client, noise, lost>>
        /\ \/ /\ h.type = "adjust"
              /\ srv' = [srv EXCEPT ![c].win = @ + h.n]
              /\ UNCHANGED down
           \/ /\ h.type = "close" /\ srv[c].state = "running"
              /\ srv' = [srv EXCEPT ![c].state = "closed"]
              /\ down' = Append(down, Packet("close", srv[c].id, "none", 0))
           \/ /\ h.type = "close" /\ srv[c].state = "closed"
              /\ UNCHANGED <<srv, down>>
    BY DEF ServerReceive
  <1>2. TypeOK /\ up \in Seq(PacketType) /\ Len(up) \in Nat /\ h = up[1] /\ h \in PacketType /\ 1 \in 1..Len(up)
    BY <1>1, Types DEF IInv
  <1>3. UpPacket(h)
    BY <1>2 DEF IInv, QueuesOK
  <1>4. c \in 1..NumCommands /\ k \in 1..NumCommands
    <2>1. k \in 1..NumCommands /\ Opened <= k /\ Opened \in Int
      BY Types DEF IInv, LoopOK, Opened
    <2> QED BY <1>3, <2>1, SshChannelAssumption DEF UpPacket
  <1>5. /\ srv \in [1..NumCommands -> ProcessType] /\ srv[c] \in ProcessType /\ srv[c].win \in Nat
        /\ \A s \in Streams : srv[c].left[s] \in Nat
    BY <1>2, <1>4, Types
  <1>6. noise' \in 0..MaxNoise /\ h.n \in Nat
    BY <1>1, <1>2 DEF TypeOK, PacketType
  <1>7. (srv[c].eof => \A s \in Streams : srv[c].left[s] = 0) /\ (srv[c].eof /\ StatusFirst => srv[c].exited)
    BY <1>4 DEF IInv, ServersOK
  <1> HIDE DEF h, c
  <1>8. CASE h.type = "adjust" /\ srv' = [srv EXCEPT ![c].win = @ + h.n] /\ down' = down
    <2> DEFINE b == srv[c].win + h.n
               p == [srv[c] EXCEPT !.win = b]
    <2>1. srv' = [srv EXCEPT ![c] = p]
      BY <1>5, <1>8, Zenon
    <2>20. b \in Nat
      BY <1>5, <1>6
    <2>21. b = srv[c].win + h.n
      OBVIOUS
    <2> HIDE DEF b
    <2>22. /\ p \in ProcessType /\ p.id = srv[c].id /\ p.size = srv[c].size /\ p.state = srv[c].state
           /\ p.eof = srv[c].eof /\ p.exited = srv[c].exited /\ p.win = b
           /\ p.left = srv[c].left
      BY <1>5, <2>20 DEF ProcessType
    <2>2. /\ p \in ProcessType /\ p.id = srv[c].id /\ p.size = srv[c].size /\ p.state = srv[c].state
          /\ p.eof = srv[c].eof /\ p.exited = srv[c].exited /\ p.win = srv[c].win + h.n
          /\ p.left = srv[c].left
      BY <2>21, <2>22
    <2> HIDE DEF p
    <2>3. Amount(h, "adjust", c, "none") = h.n
      BY <1>3, <1>8 DEF Amount, UpPacket, c
    <2>4. p.win + 0 = srv[c].win + Amount(h, "adjust", c, "none") /\ \A s \in Streams : p.left[s] + 0 = srv[c].left[s]
      BY <1>5, <1>6, <2>2, <2>3
    <2>5. /\ p.exited => srv[c].exited
          /\ p.state = "none" <=> srv[c].state = "none"
          /\ p.eof => (\A s \in Streams : p.left[s] = 0) /\ (StatusFirst => p.exited)
      BY <1>7, <2>2
    <2>6. ServerStep(c, p, h, FALSE, TRUE)
      BY <1>1, <1>6, <1>8, <2>1, <2>2, <2>4, <2>5 DEF ServerStep, h, c
    <2> QED BY <1>2, <1>4, <2>2, <2>6, ServerKeeps
  <1>9. CASE /\ h.type = "close" /\ srv[c].state = "running" /\ srv' = [srv EXCEPT ![c].state = "closed"]
             /\ down' = Append(down, Packet("close", srv[c].id, "none", 0))
    <2> DEFINE p == [srv[c] EXCEPT !.state = "closed"]
               m == Packet("close", srv[c].id, "none", 0)
    <2>1. srv' = [srv EXCEPT ![c] = p]
      BY <1>5, <1>9, Zenon
    <2>2. /\ p \in ProcessType /\ p.id = srv[c].id /\ p.size = srv[c].size /\ p.state = "closed"
          /\ p.eof = srv[c].eof /\ p.exited = srv[c].exited /\ p.win = srv[c].win
          /\ p.left = srv[c].left
      BY <1>5 DEF ProcessType
    <2>3. c <= Opened /\ srv[c].id = c - 1 /\ c \in Nat \ {0} /\ Opened \in Int
      BY <1>4, <1>9, OpenServer
    <2>4. m \in PacketType /\ m.type = "close" /\ m.to = c - 1 /\ m.stream = "none" /\ m.n = 0
      <3>1. c - 1 \in Int /\ m = Packet("close", c - 1, "none", 0)
        BY <2>3
      <3> QED BY <3>1 DEF Packet, PacketType
    <2>5. DownPacket(m)
      BY <2>3, <2>4 DEF DownPacket
    <2>6. down' = Append(down, m)
      BY <1>9
    <2> HIDE DEF p, m
    <2>7. Amount(h, "adjust", c, "none") = 0 /\ \A s : Amount(m, "data", c - 1, s) = 0
      BY <1>9, <2>4 DEF Amount
    <2>8. /\ p.win + (Amount(m, "data", c - 1, "stdout") + Amount(m, "data", c - 1, "stderr"))
               = srv[c].win + Amount(h, "adjust", c, "none")
          /\ \A s \in Streams : p.left[s] + Amount(m, "data", c - 1, s) = srv[c].left[s]
      BY <1>5, <2>2, <2>7
    <2>9. /\ p.exited => srv[c].exited
          /\ p.state = "none" <=> srv[c].state = "none"
          /\ p.eof => (\A s \in Streams : p.left[s] = 0) /\ (StatusFirst => p.exited)
      BY <1>7, <1>9, <2>2
    <2>10. ASSUME ch.live, c = k
           PROVE  (\A s \in Streams : p.left[s] = 0) /\ (StatusFirst => StatusKnown \/ srv[c].exited)
      <3>1. Ended
        <4>1. stage \in {"closing", "status"}
          BY <1>3, <1>9, <2>10 DEF UpPacket, c
        <4> QED BY <4>1 DEF IInv, ReadOK
      <3>2. \A s \in Streams : ch.got[s] + ch.avail[s] = srv[k].size[s]
        BY <2>10, <3>1 DEF IInv, ReadOK
      <3>3. PICK f, u : Ledger(f, u)
        BY <2>10 DEF IInv, BooksOK
      <3>4. ASSUME NEW s \in Streams PROVE srv[k].left[s] = 0
        <4>1. Tally(down, f[s], "data", ch.id, s) /\ down \in Seq(PacketType)
          BY <1>2, <3>3, Types DEF Ledger
        <4>2. Carried(down, f[s]) \in Nat
          BY <4>1, TallyType
        <4>3. ch.got[s] + ch.avail[s] + Carried(down, f[s]) <= srv[k].size[s] - srv[k].left[s]
          BY <3>3 DEF Ledger
        <4>4. srv[k].size[s] \in Nat /\ srv[k].left[s] \in Nat
          BY <1>2, <1>4, Types
        <4>5. srv[k].size[s] + Carried(down, f[s]) <= srv[k].size[s] - srv[k].left[s]
          BY <3>2, <4>3
        <4> QED BY <4>2, <4>4, <4>5
      <3>5. StatusFirst => StatusKnown
        BY <2>10, <3>1 DEF IInv, StatusOK
      <3> QED BY <2>2, <2>10, <3>4, <3>5
    <2>11. ServerStep(c, p, m, TRUE, TRUE)
      BY <1>1, <1>6, <2>1, <2>2, <2>4, <2>5, <2>6, <2>8, <2>9, <2>10 DEF ServerStep, h, c
    <2> QED BY <1>4, <2>2, <2>4, <2>11, ServerKeeps
  <1>10. CASE h.type = "close" /\ srv' = srv /\ down' = down
    <2>1. srv' = [srv EXCEPT ![c] = srv[c]]
      BY <1>4, <1>5, <1>10
    <2>2. Amount(h, "adjust", c, "none") = 0
      BY <1>10 DEF Amount
    <2>3. /\ srv[c].win + 0 = srv[c].win + Amount(h, "adjust", c, "none")
          /\ \A s \in Streams : srv[c].left[s] + 0 = srv[c].left[s]
      BY <1>5, <2>2
    <2>4. ServerStep(c, srv[c], h, FALSE, TRUE)
      BY <1>1, <1>6, <1>7, <1>10, <2>1, <2>3 DEF ServerStep, h, c
    <2> QED BY <1>2, <1>4, <1>5, <2>4, ServerKeeps
  <1> QED BY <1>1, <1>8, <1>9, <1>10 DEF h, c

LEMMA NoiseKeeps ==
  ASSUME IInv, Noise
  PROVE  IInv'
  <1> DEFINE m == Packet("other", -1, "none", 0)
  <1>1. /\ ~lost /\ noise < MaxNoise /\ noise' = noise + 1 /\ UNCHANGED <<client, srv, up, lost>>
        /\ down' = Append(down, m)
    BY DEF Noise
  <1>2. TypeOK /\ k \in 1..NumCommands
    BY DEF IInv, LoopOK
  <1>3. /\ srv \in [1..NumCommands -> ProcessType] /\ srv[k] \in ProcessType /\ srv[k].win \in Nat
        /\ (\A s \in Streams : srv[k].left[s] \in Nat) /\ k \in Nat
    BY <1>2, Types
  <1>4. noise' \in 0..MaxNoise
    BY <1>1, <1>2, SshChannelAssumption DEF TypeOK
  <1>5. m \in PacketType /\ m.type = "other" /\ m.to = -1 /\ m.stream = "none" /\ m.n = 0
    BY DEF Packet, PacketType
  <1>6. DownPacket(m)
    <2>1. Opened \in Nat
      BY <1>2, <1>3 DEF Opened
    <2> QED BY <1>5, <2>1 DEF DownPacket
  <1> HIDE DEF m
  <1>7. \A s : Amount(m, "data", k - 1, s) = 0
    BY <1>5 DEF Amount
  <1>8. srv' = [srv EXCEPT ![k] = srv[k]]
    BY <1>1, <1>2, <1>3
  <1>9. (srv[k].eof => \A s \in Streams : srv[k].left[s] = 0) /\ (srv[k].eof /\ StatusFirst => srv[k].exited)
    BY <1>2 DEF IInv, ServersOK
  <1>10. /\ srv[k].win + (Amount(m, "data", k - 1, "stdout") + Amount(m, "data", k - 1, "stderr"))
               = srv[k].win + 0
         /\ \A s \in Streams : srv[k].left[s] + Amount(m, "data", k - 1, s) = srv[k].left[s]
    BY <1>3, <1>7
  <1>11. ServerStep(k, srv[k], m, TRUE, FALSE)
    BY <1>1, <1>4, <1>5, <1>6, <1>8, <1>9, <1>10 DEF ServerStep
  <1> QED BY <1>2, <1>3, <1>5, <1>11, ServerKeeps

(* The connection is lost, with the end of what was under way.              *)
LEMMA LoseKeeps ==
  ASSUME IInv, Lose
  PROVE  IInv'
  <1>1. lost' = TRUE /\ ~lost /\ up' = <<>> /\ UNCHANGED <<stage, k, ch, next, closeOk, results, srv, noise>>
    BY DEF Lose, client
  <1>2. PICK n \in 0..Len(down) : down' = SubSeq(down, 1, n)
    BY DEF Lose
  <1>3. TypeOK /\ down \in Seq(PacketType) /\ Len(down) \in Nat
    BY Types DEF IInv
  <1>4. /\ down' \in Seq(PacketType) /\ Len(down') = n /\ n \in Nat
        /\ \A j \in 1..n : down'[j] = down[j] /\ j \in 1..Len(down)
    BY <1>2, <1>3
  <1>5. TypeOK'
    BY <1>1, <1>3, <1>4 DEF TypeOK
  <1>6. LoopOK'
    BY <1>1 DEF IInv, LoopOK
  <1>7. ServersOK' /\ ReadOK' /\ RefillsOK' /\ OutputComplete' /\ ExitCodeOwn'
    BY <1>1 DEF IInv, ServersOK, ReadOK, RefillsOK, OutputComplete, ExitCodeOwn, Opened, Ended
  <1>8. QueuesOK'
    <2>1. \A j \in 1..Len(down') : DownPacket(down[j])
      BY <1>4 DEF IInv, QueuesOK
    <2>2. 1..Len(up') = {}
      BY <1>1
    <2> QED BY <1>1, <1>4, <2>1, <2>2 DEF QueuesOK, DownPacket, Opened
  <1>9. BooksOK'
    <2> SUFFICES ASSUME ch.live PROVE \E f, u : Ledger(f, u)'
      BY <1>1 DEF BooksOK
    <2>1. PICK f, u : Ledger(f, u)
      BY DEF IInv, BooksOK
    <2>2. PICK g : g = [s \in Streams |-> Trimmed(f[s], n)]
      OBVIOUS
    <2>3. PICK v : v = Zeros(0)
      OBVIOUS
    <2>4. ASSUME NEW s \in Streams
          PROVE  /\ Tally(down', g[s], "data", ch.id, s)
                 /\ Carried(down', g[s]) <= Carried(down, f[s])
                 /\ Carried(down', g[s]) \in Nat /\ Carried(down, f[s]) \in Nat
                 /\ \A j \in 0..n : g[s][j] = f[s][j]
      <3>1. Tally(down, f[s], "data", ch.id, s) /\ g[s] = Trimmed(f[s], n)
        BY <2>1, <2>2 DEF Ledger
      <3>2. /\ Tally(down', g[s], "data", ch.id, s)
            /\ Carried(down', g[s]) <= Carried(down, f[s])
            /\ \A j \in 0..n : g[s][j] = f[s][j]
        BY <1>2, <1>3, <3>1, TallyTrims
      <3> QED BY <1>3, <1>4, <3>1, <3>2, TallyType
    <2>5. Tally(up', v, "adjust", k, "none") /\ Carried(up', v) = 0
      <3>1. up' \in Seq(PacketType) /\ Len(up') = 0 /\ v = Zeros(Len(up'))
        BY <1>1, <2>3
      <3>2. \A j \in 1..Len(up') : Amount(up'[j], "adjust", k, "none") = 0
        BY <3>1
      <3> QED BY <3>1, <3>2, TallyNothing
    <2>6. k \in 1..NumCommands
      BY DEF IInv, LoopOK
    <2>7. /\ ReadAvail \in Nat /\ ch.win \in Nat /\ srv[k].win \in Nat
          /\ "stdout" \in Streams /\ "stderr" \in Streams
          /\ \A s \in Streams : /\ ch.got[s] \in Nat /\ ch.avail[s] \in Nat
                                /\ srv[k].size[s] \in Nat /\ srv[k].left[s] \in Nat
      BY <1>3, <2>6, Types
    <2>8. ASSUME NEW s \in Streams
          PROVE  ch.got[s] + ch.avail[s] + Carried(down', g[s]) <= srv[k].size[s] - srv[k].left[s]
      <3>1. ch.got[s] + ch.avail[s] + Carried(down, f[s]) <= srv[k].size[s] - srv[k].left[s]
        BY <2>1 DEF Ledger
      <3>2. ch.got[s] \in Nat /\ ch.avail[s] \in Nat /\ srv[k].size[s] \in Nat /\ srv[k].left[s] \in Nat
        BY <2>7
      <3>3. PICK x, y, a, b, c, d : /\ x = Carried(down', g[s]) /\ y = Carried(down, f[s])
                                    /\ a = ch.got[s] /\ b = ch.avail[s]
                                    /\ c = srv[k].size[s] /\ d = srv[k].left[s]
        OBVIOUS
      <3>4. x <= y /\ x \in Nat /\ y \in Nat
        BY <2>4, <3>3
      <3>5. a + b + y <= c - d /\ a \in Nat /\ b \in Nat /\ c \in Nat /\ d \in Nat
        BY <3>1, <3>2, <3>3
      <3>6. a + b + x <= c - d
        BY <3>4, <3>5
      <3> QED BY <3>3, <3>6, Zenon
    <2>9. srv[k].win + Carried(up', v) + Carried(down', g["stdout"])
            + Carried(down', g["stderr"]) + ReadAvail <= ch.win
      <3>1. srv[k].win + Carried(up, u) + Carried(down, f["stdout"])
              + Carried(down, f["stderr"]) + ReadAvail <= ch.win
        BY <2>1 DEF Ledger, Fits
      <3>2. Carried(up, u) \in Nat
        BY <1>3, <2>1, Types, TallyType DEF Ledger
      <3>3. /\ Carried(down', g["stdout"]) <= Carried(down, f["stdout"])
            /\ Carried(down', g["stdout"]) \in Nat /\ Carried(down, f["stdout"]) \in Nat
            /\ Carried(down', g["stderr"]) <= Carried(down, f["stderr"])
            /\ Carried(down', g["stderr"]) \in Nat /\ Carried(down, f["stderr"]) \in Nat
        BY <2>4, <2>7
      <3>4. Carried(up', v) = 0 /\ ReadAvail \in Nat /\ ch.win \in Nat /\ srv[k].win \in Nat
        BY <2>5, <2>7
      <3>5. PICK x, o, e, o2, e2, w, r, z :
                /\ x = Carried(up, u) /\ o = Carried(down, f["stdout"]) /\ e = Carried(down, f["stderr"])
                /\ o2 = Carried(down', g["stdout"]) /\ e2 = Carried(down', g["stderr"])
                /\ w = srv[k].win /\ r = ReadAvail /\ z = ch.win
        OBVIOUS
      <3>6. /\ x \in Nat /\ o \in Nat /\ e \in Nat /\ o2 \in Nat /\ e2 \in Nat /\ o2 <= o /\ e2 <= e
            /\ w \in Nat /\ r \in Nat /\ z \in Nat
        BY <3>2, <3>3, <3>4, <3>5
      <3>7. w + x + o + e + r <= z
        BY <3>1, <3>5
      <3>8. w + 0 + o2 + e2 + r <= z
        BY <3>6, <3>7
      <3> QED BY <3>4, <3>5, <3>8
    <2>10. ASSUME NEW j \in 1..Len(down'), NEW s \in Streams, Ends(down'[j])
           PROVE  ch.got[s] + ch.avail[s] + g[s][j] - g[s][0] = srv[k].size[s]
      <3>1. j \in 0..n /\ 0 \in 0..n /\ j \in 1..Len(down) /\ down'[j] = down[j]
        BY <1>4
      <3>2. ch.got[s] + ch.avail[s] + f[s][j] - f[s][0] = srv[k].size[s]
        BY <2>1, <2>10, <3>1 DEF Ledger
      <3> QED BY <2>4, <3>1, <3>2
    <2>11. Ledger(g, v)'
      <3>1. ReadAvail' = ReadAvail /\ \A x : Ends(x)' <=> Ends(x)
        BY <1>1 DEF ReadAvail, Ends
      <3> QED BY <1>1, <2>4, <2>5, <2>8, <2>9, <2>10, <3>1 DEF Ledger, Tally, Carried, Fits
    <2> QED BY <2>11
  <1>10. StatusOK'
    <2> SUFFICES ASSUME ch.live
                 PROVE  /\ ch.status \in {0, Code(k)}
                        /\ StatusFirst =>
                              /\ Ended => StatusKnown
                              /\ \A j \in 1..Len(down') : Ends(down'[j]) => StatusKnown \/ StatusBefore(j)'
      BY <1>1 DEF StatusOK, Ended, StatusKnown, Ends, StatusBefore, Code
    <2>1. /\ ch.status \in {0, Code(k)}
          /\ StatusFirst =>
                /\ Ended => StatusKnown
                /\ \A j \in 1..Len(down) : Ends(down[j]) => StatusKnown \/ StatusBefore(j)
      BY DEF IInv, StatusOK
    <2>2. ASSUME NEW j \in 1..Len(down'), StatusBefore(j)
          PROVE  StatusBefore(j)'
      <3>1. PICK l \in 1..Len(down) : l <= j /\ down[l].type = "status" /\ down[l].to = ch.id
        BY <2>2 DEF StatusBefore
      <3>2. l \in 1..n
        BY <1>4, <3>1
      <3> QED BY <1>1, <1>4, <3>1, <3>2 DEF StatusBefore
    <2> QED BY <1>4, <2>1, <2>2
  <1> QED BY <1>5, <1>6, <1>7, <1>8, <1>9, <1>10 DEF IInv

-----------------------------------------------------------------------------
(* What the books say of the open channel.                                  *)
LEMMA BookFacts ==
  ASSUME IInv, ch.live, NEW f, NEW u, Ledger(f, u)
  PROVE  /\ TypeOK /\ k \in 1..NumCommands /\ ch.id = k - 1
         /\ down \in Seq(PacketType) /\ up \in Seq(PacketType)
         /\ ReadAvail \in Nat /\ ch.win \in Nat /\ srv[k].win \in Nat
         /\ "stdout" \in Streams /\ "stderr" \in Streams
         /\ \A s \in Streams : /\ ch.got[s] \in Nat /\ ch.avail[s] \in Nat
                               /\ srv[k].size[s] \in Nat /\ srv[k].left[s] \in Nat
                               /\ Carried(down, f[s]) \in Nat
         /\ Carried(up, u) \in Nat
  <1>1. TypeOK /\ k \in 1..NumCommands /\ ch.id = k - 1
    BY DEF IInv, LoopOK
  <1>2. /\ down \in Seq(PacketType) /\ up \in Seq(PacketType)
        /\ ReadAvail \in Nat /\ ch.win \in Nat /\ srv[k].win \in Nat
        /\ "stdout" \in Streams /\ "stderr" \in Streams
        /\ \A s \in Streams : /\ ch.got[s] \in Nat /\ ch.avail[s] \in Nat
                              /\ srv[k].size[s] \in Nat /\ srv[k].left[s] \in Nat
    BY <1>1, Types
  <1>3. \A s \in Streams : Carried(down, f[s]) \in Nat
    BY <1>2, TallyType DEF Ledger
  <1>4. Carried(up, u) \in Nat
    BY <1>2, TallyType DEF Ledger
  <1> QED BY <1>1, <1>2, <1>3, <1>4

(* A step of the call that only moves on, or that sends a CLOSE as well.    *)
MovesOn(closes) ==
    /\ UNCHANGED <<k, ch, next, results, srv, down, noise, lost>>
    /\ closeOk' \in BOOLEAN
    /\ up' = IF closes THEN Append(up, Packet("close", k, "none", 0)) ELSE up
    /\ stage # "done"
    /\ stage' \in Streams \cup {"close", "closing", "status", "failed", "crashed"}
    /\ stage' = "failed" <=> stage \in {"open", "failed"}
    /\ stage' \in {"stderr", "close", "closing", "status"} =>
          Ended /\ ch.got["stdout"] = srv[k].size["stdout"]
    /\ stage' \in {"close", "closing", "status"} =>
          ch.got["stderr"] = srv[k].size["stderr"]
    /\ stage' = "status" /\ ~lost => closeOk'
    /\ closes \/ stage \in {"closing", "status"} => stage' \in {"closing", "status"}
    /\ stage' \in Reading => stage \in Reading

LEMMA MovesOnKeeps ==
  ASSUME IInv, NEW closes \in BOOLEAN, MovesOn(closes)
  PROVE  IInv'
  <1> DEFINE m == Packet("close", k, "none", 0)
  <1>1. /\ UNCHANGED <<k, ch, next, results, srv, down, noise, lost>> /\ closeOk' \in BOOLEAN
        /\ up' = IF closes THEN Append(up, m) ELSE up
    BY DEF MovesOn
  <1>2. TypeOK /\ up \in Seq(PacketType) /\ Len(up) \in Nat /\ k \in Nat /\ k \in 1..NumCommands
    BY Types DEF IInv, LoopOK
  <1>3. m \in PacketType /\ m.type = "close" /\ m.to = k /\ m.stream = "none" /\ m.n = 0
    <2>1. k \in Int
      BY <1>2
    <2> QED BY <2>1 DEF Packet, PacketType
  <1> HIDE DEF m
  <1>4. /\ up' \in Seq(PacketType) /\ Len(up') = IF closes THEN Len(up) + 1 ELSE Len(up)
        /\ \A j \in 1..Len(up) : up'[j] = up[j]
        /\ closes => up'[Len(up) + 1] = m
    BY <1>1, <1>2, <1>3
  <1>5. TypeOK'
    BY <1>1, <1>2, <1>4 DEF TypeOK, MovesOn
  <1>6. Opened' = Opened
    BY <1>1 DEF Opened, MovesOn, Streams, Reading
  <1>7. LoopOK'
    <2>1. (ch.live <=> stage' \notin {"open", "failed", "done"})
      BY <1>1 DEF IInv, LoopOK, MovesOn, Streams, Reading
    <2>2. Len(results) = k - 1
      BY DEF IInv, LoopOK, MovesOn
    <2> QED BY <1>1, <2>1, <2>2 DEF IInv, LoopOK, MovesOn, Streams, Reading
  <1>8. ServersOK' /\ OutputComplete' /\ ExitCodeOwn'
    BY <1>1, <1>6 DEF IInv, ServersOK, OutputComplete, ExitCodeOwn
  <1>9. ReadOK' /\ RefillsOK'
    BY <1>1 DEF IInv, ReadOK, RefillsOK, Ended, MovesOn
  <1>10. StatusOK'
    BY <1>1 DEF IInv, StatusOK, Ended, StatusKnown, Ends, StatusBefore, Code
  <1>11. QueuesOK'
    <2>0. PICK M : M = m
      OBVIOUS
    <2>1. \A x : DownPacket(x)' <=> DownPacket(x)
      BY <1>6 DEF DownPacket
    <2>2. \A x : UpPacket(x) => UpPacket(x)'
      BY <1>1, <1>6 DEF UpPacket, MovesOn
    <2>3. closes => UpPacket(M)'
      <3> SUFFICES ASSUME closes PROVE UpPacket(M)'
        OBVIOUS
      <3>1. stage' \in {"closing", "status"}
        BY DEF MovesOn
      <3>2. Opened' = k /\ k' = k /\ k \in 1..k
        BY <1>1, <1>2, <3>1 DEF Opened
      <3> QED BY <1>1, <1>3, <2>0, <3>1, <3>2 DEF UpPacket
    <2>5. \A j \in 1..Len(up) : \E x : x = up[j] /\ UpPacket(x)'
      BY <2>2 DEF IInv, QueuesOK
    <2>6. \A j \in 1..Len(up') : \E x : x = up'[j] /\ UpPacket(x)'
      <3> TAKE j \in 1..Len(up')
      <3>1. CASE j \in 1..Len(up)
        BY <1>4, <2>5, <3>1
      <3>2. CASE j \notin 1..Len(up)
        <4>1. closes /\ up'[j] = m
          BY <1>2, <1>4, <3>2
        <4> QED BY <2>0, <2>3, <4>1
      <3> QED BY <3>1, <3>2
    <2>7. \A j \in 1..Len(down') : \E x : x = down'[j] /\ DownPacket(x)'
      <3>1. \A j \in 1..Len(down) : \E x : x = down[j] /\ DownPacket(x)'
        BY <2>1 DEF IInv, QueuesOK
      <3> QED BY <1>1, <3>1
    <2> QED BY <2>6, <2>7 DEF QueuesOK, DownPacket, UpPacket
  <1>12. BooksOK'
    <2> SUFFICES ASSUME ch.live PROVE \E f, u : Ledger(f, u)'
      BY <1>1 DEF BooksOK
    <2>1. PICK f, u : Ledger(f, u)
      BY DEF IInv, BooksOK
    <2>2. PICK v : v = IF closes THEN Grown(u, Len(up), Amount(m, "adjust", k, "none")) ELSE u
      OBVIOUS
    <2>3. Tally(up, u, "adjust", k, "none") /\ Carried(up, u) \in Nat
      BY <2>1, BookFacts DEF Ledger
    <2>4. Amount(m, "adjust", k, "none") = 0
      BY <1>3 DEF Amount
    <2>5. Tally(up', v, "adjust", k, "none") /\ Carried(up', v) = Carried(up, u)
      <3>1. CASE closes
        <4>1. /\ Tally(up', v, "adjust", k, "none")
              /\ Carried(up', v) = Carried(up, u) + Amount(m, "adjust", k, "none")
          BY <1>1, <1>2, <1>3, <2>2, <2>3, <3>1, TallyGrows
        <4> QED BY <2>3, <2>4, <4>1
      <3>2. CASE ~closes
        BY <1>1, <2>2, <2>3, <3>2
      <3> QED BY <3>1, <3>2
    <2>6. ReadAvail' = ReadAvail /\ \A x : Ends(x)' <=> Ends(x)
      BY <1>1 DEF ReadAvail, Ends
    <2>7. Fits(srv[k].win + Carried(up', v) + Carried(down, f["stdout"])
                 + Carried(down, f["stderr"]) + ReadAvail, ch.win, lost)
      BY <2>1, <2>5 DEF Ledger
    <2>8. Ledger(f, v)'
      BY <1>1, <2>1, <2>5, <2>6, <2>7 DEF Ledger, Tally, Carried, Fits
    <2> QED BY <2>8
  <1> QED BY <1>5, <1>7, <1>8, <1>9, <1>10, <1>11, <1>12 DEF IInv

LEMMA OpenFailsKeeps ==
  ASSUME IInv, OpenFails
  PROVE  IInv'
  <1>1. closeOk \in BOOLEAN
    BY DEF IInv, TypeOK
  <1>2. MovesOn(FALSE)
    BY <1>1 DEF OpenFails, MovesOn, Reading
  <1> QED BY <1>2, MovesOnKeeps

(* A read that returns 0 has nothing buffered and the end behind it.        *)
LEMMA ReadEndKeeps ==
  ASSUME IInv, ReadEnd("stdout", "stderr") \/ ReadEnd("stderr", "close")
  PROVE  IInv'
  <1>1. closeOk \in BOOLEAN /\ TypeOK
    BY DEF IInv, TypeOK
  <1>2. /\ UNCHANGED <<k, ch, next, closeOk, results, srv, down, up, noise, lost>>
        /\ Ended
        /\ \/ stage = "stdout" /\ stage' = "stderr" /\ ch.avail["stdout"] = 0
           \/ stage = "stderr" /\ stage' = "close" /\ ch.avail["stderr"] = 0
    BY DEF ReadEnd, Ended
  <1>3. ch.live
    BY <1>2 DEF IInv, LoopOK
  <1>4. \A s \in Streams : ch.got[s] + ch.avail[s] = srv[k].size[s] /\ ch.got[s] \in Nat
    BY <1>1, <1>2, <1>3, Types DEF IInv, ReadOK
  <1>5. \A s \in Streams : ch.avail[s] = 0 => ch.got[s] = srv[k].size[s]
    BY <1>4
  <1>6. "stdout" \in Streams /\ "stderr" \in Streams
    BY DEF Streams, Reading
  <1>7. /\ stage' \in {"stderr", "close", "closing", "status"} =>
             ch.got["stdout"] = srv[k].size["stdout"]
        /\ stage' \in {"close", "closing", "status"} => ch.got["stderr"] = srv[k].size["stderr"]
    <2>1. CASE stage = "stdout"
      BY <1>2, <1>5, <1>6, <2>1
    <2>2. CASE stage = "stderr"
      BY <1>2, <1>5, <1>6, <2>2 DEF IInv, ReadOK
    <2> QED BY <1>2, <2>1, <2>2
  <1>8. MovesOn(FALSE)
    BY <1>1, <1>2, <1>7 DEF MovesOn, Reading, Streams
  <1> QED BY <1>8, MovesOnKeeps

LEMMA ReadFailsKeeps ==
  ASSUME IInv, ReadFails
  PROVE  IInv'
  <1>1. closeOk \in BOOLEAN
    BY DEF IInv, TypeOK
  <1>2. MovesOn(FALSE)
    BY <1>1 DEF ReadFails, MovesOn, Reading
  <1> QED BY <1>2, MovesOnKeeps

LEMMA SendCloseKeeps ==
  ASSUME IInv, SendClose
  PROVE  IInv'
  <1>1. closeOk' \in BOOLEAN /\ lost \in BOOLEAN
    BY DEF IInv, TypeOK, SendClose
  <1>2. /\ Ended /\ ch.got["stdout"] = srv[k].size["stdout"]
        /\ ch.got["stderr"] = srv[k].size["stderr"]
    BY DEF IInv, ReadOK, SendClose
  <1>3. MovesOn(~lost)
    BY <1>1, <1>2 DEF SendClose, MovesOn, Reading
  <1> QED BY <1>1, <1>3, MovesOnKeeps

LEMMA CloseFailsKeeps ==
  ASSUME IInv, CloseFails
  PROVE  IInv'
  <1>1. /\ Ended /\ ch.got["stdout"] = srv[k].size["stdout"]
        /\ ch.got["stderr"] = srv[k].size["stderr"]
    BY DEF IInv, ReadOK, CloseFails
  <1>2. MovesOn(FALSE)
    BY <1>1 DEF CloseFails, MovesOn, Reading
  <1> QED BY <1>2, MovesOnKeeps

LEMMA QueuesKept ==
  ASSUME QueuesOK,
         \A x : DownPacket(x) => DownPacket(x)',
         \A x : UpPacket(x) => UpPacket(x)',
         \A j \in 1..Len(down') : \E l \in 1..Len(down) : down'[j] = down[l],
         \A j \in 1..Len(up') : \/ \E l \in 1..Len(up) : up'[j] = up[l]
                                \/ \E x : x = up'[j] /\ UpPacket(x)'
  PROVE  QueuesOK'
  <1>1. \A j \in 1..Len(down') : \E x : x = down'[j] /\ DownPacket(x)'
    <2>1. \A j \in 1..Len(down) : \E x : x = down[j] /\ DownPacket(x)'
      BY DEF QueuesOK
    <2> QED BY <2>1
  <1>2. \A j \in 1..Len(up') : \E x : x = up'[j] /\ UpPacket(x)'
    <2>1. \A j \in 1..Len(up) : \E x : x = up[j] /\ UpPacket(x)'
      BY DEF QueuesOK
    <2> QED BY <2>1
  <1> QED BY <1>1, <1>2 DEF QueuesOK, DownPacket, UpPacket

ChannelType == [live : BOOLEAN, id : 0..(IdModulus - 1), win : Nat,
                eof : BOOLEAN, close : BOOLEAN, status : Nat,
                avail : [Streams -> Nat], got : [Streams -> Nat]]

(* What _libssh2_channel_read makes of the window.                          *)
LEMMA Refills ==
  ASSUME TypeOK
  PROVE  /\ Refilled \in Nat /\ ch.win <= Refilled /\ (Low => ch.win < Refilled)
         /\ Buf <= Refilled /\ (Window \div 4) * 3 + Buf <= Refilled
  <1>1. ch.win \in Nat /\ Buf \in Nat \ {0} /\ Window \in Nat \ {0} /\ MinAdjust \in Nat
    BY Types
  <1>2. PICK q : q = Window \div 4
    OBVIOUS
  <1>3. q \in Nat /\ q * 3 <= Window /\ q * 3 \in Nat
    BY <1>1, <1>2
  <1>4. PICK t : t = q * 3
    OBVIOUS
  <1>5. t \in Nat /\ t <= Window
    BY <1>3, <1>4
  <1>6. PICK w : w = IF ch.win < Buf THEN ch.win + Buf ELSE ch.win
    OBVIOUS
  <1>7. w \in Nat /\ ch.win <= w /\ Buf <= w /\ (ch.win < Buf => ch.win < w)
    BY <1>1, <1>6
  <1>8. Refilled = IF w < t + Buf THEN w + Most(Window + Buf - w, MinAdjust) ELSE w
    BY <1>2, <1>4, <1>6 DEF Refilled
  <1>9. w < t + Buf => /\ Most(Window + Buf - w, MinAdjust) \in Nat \ {0}
                       /\ t + Buf <= w + Most(Window + Buf - w, MinAdjust)
    BY <1>1, <1>5, <1>7 DEF Most
  <1>10. PICK a : a = Most(Window + Buf - w, MinAdjust)
    OBVIOUS
  <1>11. Refilled \in Nat /\ w <= Refilled /\ Buf <= Refilled /\ t + Buf <= Refilled
    BY <1>1, <1>5, <1>7, <1>8, <1>9, <1>10
  <1> QED BY <1>1, <1>2, <1>4, <1>7, <1>11 DEF Low

(* libssh2_channel_free: the entry is complete, the channel is gone.        *)
LEMMA FinishKeeps ==
  ASSUME IInv, Finish
  PROVE  IInv'
  <1> DEFINE e == [out |-> ch.got["stdout"], err |-> ch.got["stderr"],
                   code |-> IF closeOk THEN ch.status ELSE 0]
  <1>1. /\ stage = "status" /\ results' = Append(results, e)
        /\ ch' = [ch EXCEPT !.live = FALSE, !.avail = [s \in Streams |-> 0]]
        /\ UNCHANGED <<next, closeOk, srv, down, up, noise, lost>>
        /\ \/ k < NumCommands /\ k' = k + 1 /\ stage' = "open"
           \/ ~(k < NumCommands) /\ k' = k /\ stage' = "done"
    BY DEF Finish
  <1>2. /\ TypeOK /\ ch.live /\ k \in 1..NumCommands /\ k \in Nat /\ Len(results) = k - 1
        /\ (~lost => closeOk) /\ (k < NumCommands => next = k)
    BY <1>1, Types DEF IInv, LoopOK
  <1>3. ch \in ChannelType /\ ch.got \in [Streams -> Nat] /\ ch.status \in Nat
    BY <1>2 DEF TypeOK, ChannelType
  <1>4. e.out = srv[k].size["stdout"] /\ e.err = srv[k].size["stderr"] /\ Ended
    BY <1>1 DEF IInv, ReadOK
  <1>5. e.code \in {0, Code(k)} /\ (StatusFirst /\ ~lost => e.code = Code(k))
    <2>1. ch.status \in {0, Code(k)} /\ (StatusFirst => ch.status = Code(k))
      BY <1>2, <1>4 DEF IInv, StatusOK, StatusKnown
    <2> QED BY <1>2, <2>1
  <1>6. e \in [out : Nat, err : Nat, code : Nat]
    <2>1. ch.got["stdout"] \in Nat /\ ch.got["stderr"] \in Nat
      BY <1>3 DEF Streams, Reading
    <2> QED BY <1>3, <2>1
  <1> HIDE DEF e
  <1>7. /\ results \in Seq([out : Nat, err : Nat, code : Nat])
        /\ results' \in Seq([out : Nat, err : Nat, code : Nat])
        /\ Len(results') = k /\ DOMAIN results = 1..(k - 1) /\ DOMAIN results' = 1..k
        /\ results'[k] = e /\ \A c \in 1..(k - 1) : results'[c] = results[c]
    <2>1. results \in Seq([out : Nat, err : Nat, code : Nat])
      BY <1>2 DEF TypeOK
    <2>2. k = Len(results) + 1
      BY <1>2
    <2> QED BY <1>1, <1>2, <1>6, <2>1, <2>2
  <1>8. ch' \in ChannelType /\ ~ch'.live
    <2>1. [s \in Streams |-> 0] \in [Streams -> Nat]
      OBVIOUS
    <2> QED BY <1>1, <1>3, <2>1 DEF ChannelType
  <1>9. TypeOK'
    <2>1. k' \in Nat
      BY <1>1, <1>2
    <2> QED BY <1>1, <1>2, <1>7, <1>8, <2>1 DEF TypeOK, ChannelType
  <1>10. Opened' = Opened /\ Opened = k /\ k' \in 1..NumCommands
    BY <1>1, <1>2, SshChannelAssumption DEF Opened
  <1>11. LoopOK'
    <2>1. Len(results') = IF stage' = "done" THEN k' ELSE k' - 1
      BY <1>1, <1>2, <1>7
    <2>2. stage' = "open" => next' = k' - 1
      BY <1>1, <1>2
    <2> QED BY <1>1, <1>8, <1>10, <2>1, <2>2 DEF LoopOK
  <1>12. ServersOK'
    BY <1>1, <1>10 DEF IInv, ServersOK
  <1>13. QueuesOK'
    <2>1. \A x : DownPacket(x) => DownPacket(x)'
      BY <1>10 DEF DownPacket
    <2>2. \A x : UpPacket(x) => UpPacket(x)'
      BY <1>8, <1>10 DEF UpPacket
    <2>3. QueuesOK
      BY DEF IInv
    <2> QED BY <1>1, <2>1, <2>2, <2>3, QueuesKept
  <1>14. BooksOK' /\ StatusOK'
    BY <1>8 DEF BooksOK, StatusOK
  <1>15. ReadOK' /\ RefillsOK'
    BY <1>1, <1>8 DEF ReadOK, RefillsOK, Reading
  <1>16. OutputComplete' /\ ExitCodeOwn'
    <2>1. ASSUME NEW c \in DOMAIN results'
          PROVE  /\ results'[c].out = srv[c].size["stdout"]
                 /\ results'[c].err = srv[c].size["stderr"]
                 /\ results'[c].code \in {0, Code(c)}
                 /\ StatusFirst /\ ~lost => results'[c].code = Code(c)
      <3>1. CASE c = k
        BY <1>4, <1>5, <1>7, <3>1
      <3>2. CASE c \in 1..(k - 1)
        BY <1>7, <3>2 DEF IInv, OutputComplete, ExitCodeOwn
      <3>3. c = k \/ c \in 1..(k - 1)
        BY <1>2, <1>7
      <3> QED BY <3>1, <3>2, <3>3
    <2> QED BY <1>1, <2>1 DEF OutputComplete, ExitCodeOwn, Code
  <1> QED BY <1>9, <1>11, <1>12, <1>13, <1>14, <1>15, <1>16 DEF IInv

(* A read that returns bytes takes them off the buffer and off the window.  *)
LEMMA ReadDataKeeps ==
  ASSUME IInv, NEW s \in Streams, ReadData(s)
  PROVE  IInv'
  <1> DEFINE n == Least(ch.avail[s], Buf)
  <1>1. /\ stage = s /\ ~Low /\ ch.avail[s] > 0
        /\ ch' = [ch EXCEPT !.got[s] = @ + n, !.avail[s] = @ - n, !.win = @ - n]
        /\ UNCHANGED <<stage, k, next, closeOk, results, srv, down, up, noise, lost>>
    BY DEF ReadData
  <1>2. TypeOK /\ ch.live /\ k \in 1..NumCommands /\ ch.id = k - 1
    BY <1>1 DEF IInv, LoopOK, Streams, Reading
  <1>3. PICK f, u : Ledger(f, u)
    BY <1>2 DEF IInv, BooksOK
  <1>4. /\ ReadAvail \in Nat /\ ch.win \in Nat /\ srv[k].win \in Nat /\ Buf \in Nat \ {0}
        /\ "stdout" \in Streams /\ "stderr" \in Streams
        /\ \A t \in Streams : t = "stdout" \/ t = "stderr"
        /\ \A t \in Streams : ch.got[t] \in Nat /\ ch.avail[t] \in Nat /\ Carried(down, f[t]) \in Nat
        /\ Carried(up, u) \in Nat
    BY <1>2, <1>3, BookFacts, Types
  <1>5. n \in Nat /\ n <= ch.avail[s] /\ n <= Buf
    BY <1>4 DEF Least
  <1>6. ReadAvail <= ch.win
    <2>1. srv[k].win + Carried(up, u) + Carried(down, f["stdout"])
            + Carried(down, f["stderr"]) + ReadAvail <= ch.win
      BY <1>3 DEF Ledger, Fits
    <2>2. Carried(down, f["stdout"]) \in Nat /\ Carried(down, f["stderr"]) \in Nat
      BY <1>4
    <2>3. PICK x, o, e, w, r, z :
             /\ x = Carried(up, u) /\ o = Carried(down, f["stdout"]) /\ e = Carried(down, f["stderr"])
             /\ w = srv[k].win /\ r = ReadAvail /\ z = ch.win
      OBVIOUS
    <2>4. x \in Nat /\ o \in Nat /\ e \in Nat /\ w \in Nat /\ r \in Nat /\ z \in Nat
      BY <1>4, <2>2, <2>3
    <2>5. w + x + o + e + r <= z
      BY <2>1, <2>3
    <2>6. r <= z
      BY <2>4, <2>5
    <2> QED BY <2>3, <2>6
  <1>7. ch.avail[s] <= ReadAvail
    BY <1>4 DEF ReadAvail
  <1> HIDE DEF n
  <1>8. ch \in ChannelType
    BY <1>2 DEF TypeOK, ChannelType
  <1>9. PICK a, b, w : a = ch.avail[s] - n /\ b = ch.got[s] + n /\ w = ch.win - n
    OBVIOUS
  <1>10. a \in Nat /\ b \in Nat /\ w \in Nat
    BY <1>4, <1>5, <1>6, <1>7, <1>9
  <1>11. ch' = [ch EXCEPT !.got = [ch.got EXCEPT ![s] = b], !.avail = [ch.avail EXCEPT ![s] = a],
                          !.win = w]
    BY <1>1, <1>8, <1>9 DEF ChannelType
  <1>12. ch' \in ChannelType
    BY <1>8, <1>10, <1>11 DEF ChannelType
  <1>13. /\ ch'.live = ch.live /\ ch'.id = ch.id /\ ch'.eof = ch.eof /\ ch'.close = ch.close
         /\ ch'.status = ch.status /\ ch'.win = w
         /\ ch'.got = [ch.got EXCEPT ![s] = b] /\ ch'.avail = [ch.avail EXCEPT ![s] = a]
    BY <1>8, <1>11 DEF ChannelType
  <1>14. /\ ch'.got[s] = b /\ ch'.avail[s] = a
         /\ \A t \in Streams : t # s => ch'.got[t] = ch.got[t] /\ ch'.avail[t] = ch.avail[t]
    BY <1>8, <1>13 DEF ChannelType
  <1>15. \A t \in Streams : ch'.got[t] + ch'.avail[t] = ch.got[t] + ch.avail[t]
    <2> TAKE t \in Streams
    <2>1. CASE t = s
      BY <1>4, <1>5, <1>9, <1>14, <2>1
    <2>2. CASE t # s
      BY <1>14, <2>2
    <2> QED BY <2>1, <2>2
  <1>16. ReadAvail' = ReadAvail - n
    <2>1. CASE s = "stdout"
      BY <1>4, <1>5, <1>9, <1>14, <2>1 DEF ReadAvail
    <2>2. CASE s = "stderr"
      BY <1>4, <1>5, <1>9, <1>14, <2>2 DEF ReadAvail
    <2> QED BY <1>4, <2>1, <2>2
  <1>17. TypeOK'
    BY <1>1, <1>2, <1>12 DEF TypeOK, ChannelType
  <1>18. LoopOK' /\ ServersOK' /\ OutputComplete' /\ ExitCodeOwn'
    BY <1>1, <1>13 DEF IInv, LoopOK, ServersOK, OutputComplete, ExitCodeOwn, Opened
  <1>19. QueuesOK'
    <2>1. (\A x : DownPacket(x) => DownPacket(x)') /\ (\A x : UpPacket(x) => UpPacket(x)')
      BY <1>1, <1>13 DEF DownPacket, UpPacket, Opened
    <2>2. QueuesOK
      BY DEF IInv
    <2> QED BY <1>1, <2>1, <2>2, QueuesKept
  <1>20. ReadOK'
    <2>1. ch.live /\ Ended => \A t \in Streams : ch'.got[t] + ch'.avail[t] = srv[k].size[t]
      BY <1>15 DEF IInv, ReadOK
    <2>2. stage = "stderr" => Ended /\ ch'.got["stdout"] = srv[k].size["stdout"]
      BY <1>1, <1>4, <1>14 DEF IInv, ReadOK
    <2> QED BY <1>1, <1>4, <1>13, <2>1, <2>2 DEF ReadOK, Ended
  <1>21. StatusOK'
    BY <1>1, <1>13 DEF IInv, StatusOK, Ended, StatusKnown, Ends, StatusBefore, Code
  <1>22. RefillsOK'
    <2>1. (Window \div 4) * 3 + Buf <= ch.win
      BY <1>1, <1>2, Refills DEF Low
    <2>2. PICK t : t = (Window \div 4) * 3
      OBVIOUS
    <2>3. t \in Int
      BY <2>2, SshChannelAssumption
    <2>4. Buf <= t => Buf <= w
      BY <1>4, <1>5, <1>9, <2>1, <2>2, <2>3
    <2> QED BY <1>4, <1>10, <1>13, <2>2, <2>4 DEF RefillsOK
  <1>23. BooksOK'
    <2>1. \A x : Ends(x)' <=> Ends(x)
      BY <1>13 DEF Ends
    <2>2. \A t \in Streams : Tally(down, f[t], "data", ch.id, t)
      BY <1>3 DEF Ledger
    <2>3. Tally(up, u, "adjust", k, "none")
      BY <1>3 DEF Ledger
    <2>4. \A t \in Streams :
             /\ ch'.got[t] + ch'.avail[t] + Carried(down, f[t]) <= srv[k].size[t] - srv[k].left[t]
             /\ ~lost => ch'.got[t] + ch'.avail[t] + Carried(down, f[t]) = srv[k].size[t] - srv[k].left[t]
      BY <1>3, <1>15 DEF Ledger
    <2>5. Fits(srv[k].win + Carried(up, u) + Carried(down, f["stdout"])
                 + Carried(down, f["stderr"]) + ReadAvail', ch'.win, lost)
      <3>1. Fits(srv[k].win + Carried(up, u) + Carried(down, f["stdout"])
                   + Carried(down, f["stderr"]) + ReadAvail, ch.win, lost)
        BY <1>3 DEF Ledger
      <3>2. PICK p : p = srv[k].win + Carried(up, u) + Carried(down, f["stdout"]) + Carried(down, f["stderr"])
        OBVIOUS
      <3>3. p \in Int /\ Fits(p + ReadAvail, ch.win, lost)
        <4>1. Carried(down, f["stdout"]) \in Nat /\ Carried(down, f["stderr"]) \in Nat
          BY <1>4
        <4> QED BY <1>4, <3>1, <3>2, <4>1
      <3>4. Fits(p + (ReadAvail - n), ch.win - n, lost)
        <4>1. PICK r, z : r = ReadAvail /\ z = ch.win
          OBVIOUS
        <4>2. r \in Nat /\ z \in Nat /\ n \in Nat /\ p \in Int /\ p + r <= z /\ (~lost => p + r = z)
          BY <1>4, <1>5, <3>3, <4>1 DEF Fits
        <4>3. p + (r - n) <= z - n /\ (~lost => p + (r - n) = z - n)
          BY <4>2
        <4> QED BY <4>1, <4>3 DEF Fits
      <3> QED BY <1>9, <1>13, <1>16, <3>2, <3>4
    <2>6. \A j \in 1..Len(down), t \in Streams : Ends(down[j]) =>
             ch'.got[t] + ch'.avail[t] + f[t][j] - f[t][0] = srv[k].size[t]
      BY <1>3, <1>15 DEF Ledger
    <2>7. Ledger(f, u)'
      BY <1>1, <1>13, <2>1, <2>2, <2>3, <2>4, <2>5, <2>6 DEF Ledger, Tally, Carried, Fits
    <2> QED BY <2>7 DEF BooksOK
  <1> QED BY <1>17, <1>18, <1>19, <1>20, <1>21, <1>22, <1>23 DEF IInv

(* A window adjustment grants the server no more than the window grows by.  *)
LEMMA ExpandWindowKeeps ==
  ASSUME IInv, ExpandWindow
  PROVE  IInv'
  <1> DEFINE d == Refilled - ch.win
             w == Refilled
             m == Packet("adjust", k, "none", d)
  <1>1. /\ stage \in Reading /\ Low /\ ~lost /\ up' = Append(up, m)
        /\ ch' = [ch EXCEPT !.win = w]
        /\ UNCHANGED <<stage, k, next, closeOk, results, srv, down, noise, lost>>
    BY DEF ExpandWindow
  <1>2. TypeOK /\ ch.live /\ k \in 1..NumCommands /\ k \in Nat /\ ch.id = k - 1
    BY <1>1, Types DEF IInv, LoopOK, Reading
  <1>3. w \in Nat /\ d \in Nat /\ ch.win \in Nat /\ w = ch.win + d /\ Buf <= w
    <2>1. Refilled \in Nat /\ ch.win <= Refilled /\ Buf <= Refilled
      BY <1>2, Refills
    <2>2. ch.win \in Nat
      BY <1>2, Types
    <2> QED BY <2>1, <2>2
  <1> HIDE DEF d, w
  <1>4. m \in PacketType /\ m.type = "adjust" /\ m.to = k /\ m.stream = "none" /\ m.n = d
    BY <1>2, <1>3 DEF Packet, PacketType
  <1> HIDE DEF m
  <1>5. ch \in ChannelType
    BY <1>2 DEF TypeOK, ChannelType
  <1>6. /\ ch' \in ChannelType /\ ch'.live = ch.live /\ ch'.id = ch.id /\ ch'.eof = ch.eof
        /\ ch'.close = ch.close /\ ch'.status = ch.status /\ ch'.win = w
        /\ ch'.got = ch.got /\ ch'.avail = ch.avail
    BY <1>1, <1>3, <1>5 DEF ChannelType
  <1>7. /\ up \in Seq(PacketType) /\ up' \in Seq(PacketType) /\ Len(up) \in Nat
        /\ Len(up') = Len(up) + 1
        /\ up'[Len(up) + 1] = m /\ \A j \in 1..Len(up) : up'[j] = up[j]
    BY <1>1, <1>2, <1>4, Types
  <1>8. TypeOK'
    BY <1>1, <1>2, <1>6, <1>7 DEF TypeOK, ChannelType
  <1>9. LoopOK' /\ ServersOK' /\ OutputComplete' /\ ExitCodeOwn'
    BY <1>1, <1>6 DEF IInv, LoopOK, ServersOK, OutputComplete, ExitCodeOwn, Opened
  <1>10. QueuesOK'
    <2>0. PICK M : M = m
      OBVIOUS
    <2>1. (\A x : DownPacket(x) => DownPacket(x)') /\ (\A x : UpPacket(x) => UpPacket(x)')
      BY <1>1, <1>6 DEF DownPacket, UpPacket, Opened
    <2>2. UpPacket(M)'
      <3>1. Opened' = k /\ k' = k /\ k \in 1..k
        BY <1>1, <1>2 DEF Opened, Reading
      <3> QED BY <1>1, <1>4, <2>0, <3>1 DEF UpPacket
    <2>3. \A j \in 1..Len(up') : \/ \E l \in 1..Len(up) : up'[j] = up[l]
                                 \/ \E x : x = up'[j] /\ UpPacket(x)'
      <3> TAKE j \in 1..Len(up')
      <3>1. j \in 1..Len(up) \/ j = Len(up) + 1
        BY <1>7
      <3> QED BY <1>7, <2>0, <2>2, <3>1
    <2>4. QueuesOK
      BY DEF IInv
    <2> QED BY <1>1, <2>1, <2>3, <2>4, QueuesKept
  <1>11. ReadOK' /\ StatusOK'
    BY <1>1, <1>6 DEF IInv, ReadOK, StatusOK, Ended, StatusKnown, Ends, StatusBefore, Code
  <1>12. RefillsOK'
    BY <1>3, <1>6 DEF RefillsOK
  <1>13. BooksOK'
    <2>1. PICK f, u : Ledger(f, u)
      BY <1>2 DEF IInv, BooksOK
    <2>2. PICK v : v = Grown(u, Len(up), Amount(m, "adjust", k, "none"))
      OBVIOUS
    <2>3. Amount(m, "adjust", k, "none") = d
      BY <1>4 DEF Amount
    <2>4. Tally(up', v, "adjust", k, "none") /\ Carried(up', v) = Carried(up, u) + d
      <3>1. Tally(up, u, "adjust", k, "none")
        BY <2>1 DEF Ledger
      <3> QED BY <1>1, <1>4, <1>7, <2>2, <2>3, <3>1, TallyGrows
    <2>5. /\ ReadAvail \in Nat /\ srv[k].win \in Nat /\ Carried(up, u) \in Nat
          /\ Carried(down, f["stdout"]) \in Nat /\ Carried(down, f["stderr"]) \in Nat
      BY <1>2, <2>1, BookFacts
    <2>6. Fits(srv[k].win + Carried(up', v) + Carried(down, f["stdout"])
                 + Carried(down, f["stderr"]) + ReadAvail, w, lost)
      <3>1. srv[k].win + Carried(up, u) + Carried(down, f["stdout"])
              + Carried(down, f["stderr"]) + ReadAvail = ch.win
        BY <1>1, <2>1 DEF Ledger, Fits
      <3>2. PICK x, o, e, p, r, z :
               /\ x = Carried(up, u) /\ o = Carried(down, f["stdout"]) /\ e = Carried(down, f["stderr"])
               /\ p = srv[k].win /\ r = ReadAvail /\ z = ch.win
        OBVIOUS
      <3>3. x \in Nat /\ o \in Nat /\ e \in Nat /\ p \in Nat /\ r \in Nat /\ z \in Nat
        BY <1>3, <2>5, <3>2
      <3>4. p + x + o + e + r = z
        BY <3>1, <3>2
      <3>5. p + (x + d) + o + e + r = z + d /\ z + d \in Nat
        BY <1>3, <3>3, <3>4
      <3>6. Fits(p + (x + d) + o + e + r, z + d, lost)
        BY <3>5 DEF Fits
      <3> QED BY <1>3, <2>4, <3>2, <3>6
    <2>7. ReadAvail' = ReadAvail /\ \A x : Ends(x)' <=> Ends(x)
      BY <1>6 DEF ReadAvail, Ends
    <2>8. Ledger(f, v)'
      BY <1>1, <1>6, <2>1, <2>4, <2>6, <2>7 DEF Ledger, Tally, Carried, Fits
    <2> QED BY <2>8 DEF BooksOK
  <1> QED BY <1>8, <1>9, <1>10, <1>11, <1>12, <1>13 DEF IInv

(* What a packet does to the open channel: data is never cut short by the   *)
(* window and never comes after the end.                                    *)
LEMMA PacketEffects ==
  ASSUME IInv, ch.live, down # <<>>, NEW c, c = PacketAdded(ch, Head(down)), NEW f, NEW u, Ledger(f, u)
  PROVE  LET h == Head(down)
             A(s) == Amount(h, "data", ch.id, s)
         IN  /\ c \in ChannelType
             /\ c.live = ch.live /\ c.id = ch.id /\ c.win = ch.win /\ c.got = ch.got
             /\ \A s \in Streams : A(s) \in Nat /\ c.avail[s] = ch.avail[s] + A(s)
             /\ (c.eof \/ c.close) <=> (Ended \/ Ends(h))
             /\ Ended => \A s \in Streams : A(s) = 0
             /\ c.status = IF h.to = ch.id /\ h.type = "status" THEN Code(k) ELSE ch.status
  <1> DEFINE h == Head(down)
             A(s) == Amount(h, "data", ch.id, s)
  <1>1. /\ TypeOK /\ k \in 1..NumCommands /\ ch.id = k - 1
        /\ down \in Seq(PacketType)
        /\ ReadAvail \in Nat /\ ch.win \in Nat /\ srv[k].win \in Nat
        /\ "stdout" \in Streams /\ "stderr" \in Streams
        /\ \A s \in Streams : /\ ch.got[s] \in Nat /\ ch.avail[s] \in Nat
                              /\ srv[k].size[s] \in Nat /\ srv[k].left[s] \in Nat
                              /\ Carried(down, f[s]) \in Nat
        /\ Carried(up, u) \in Nat
    BY BookFacts
  <1>2. h \in PacketType /\ h = down[1] /\ 1 \in 1..Len(down)
    BY <1>1
  <1>3. DownPacket(h) /\ k \in Nat
    BY <1>1, <1>2, Types DEF IInv, QueuesOK
  <1>4. ch \in ChannelType
    BY <1>1 DEF TypeOK, ChannelType
  <1>5. \A s \in Streams : A(s) \in Nat /\ A(s) <= Carried(down, f[s])
    <2> TAKE s \in Streams
    <2>1. Tally(down, f[s], "data", ch.id, s)
      BY DEF Ledger
    <2>2. PICK a, b, r : a = A(s) /\ b = Carried(down, f[s]) /\ r = Carried(Tail(down), Shifted(f[s], Len(down)))
      OBVIOUS
    <2>3. r = b - a /\ r \in Nat /\ b \in Nat
      BY <1>1, <2>1, <2>2, TallyShifts
    <2>4. a \in Nat
      BY <1>2, <2>2, AmountType
    <2>5. a <= b
      BY <2>3, <2>4
    <2> QED BY <2>2, <2>4, <2>5
  <1>6. Ended => \A s \in Streams : A(s) = 0
    <2> SUFFICES ASSUME Ended, NEW s \in Streams PROVE A(s) = 0
      OBVIOUS
    <2>1. ch.got[s] + ch.avail[s] = srv[k].size[s]
      BY DEF IInv, ReadOK
    <2>2. ch.got[s] + ch.avail[s] + Carried(down, f[s]) <= srv[k].size[s] - srv[k].left[s]
      BY DEF Ledger
    <2>3. PICK a, b, g, v, z, l : /\ a = A(s) /\ b = Carried(down, f[s]) /\ g = ch.got[s] /\ v = ch.avail[s]
                                  /\ z = srv[k].size[s] /\ l = srv[k].left[s]
      OBVIOUS
    <2>4. a \in Nat /\ b \in Nat /\ g \in Nat /\ v \in Nat /\ z \in Nat /\ l \in Nat /\ a <= b
      BY <1>1, <1>5, <2>3
    <2>5. g + v = z /\ g + v + b <= z - l
      BY <2>1, <2>2, <2>3
    <2>6. a = 0
      BY <2>4, <2>5
    <2> QED BY <2>3, <2>6
  <1> HIDE DEF A, h
  <1>7. CASE h.to # ch.id
    <2>1. c = ch
      BY <1>7 DEF PacketAdded, h
    <2>2. \A s \in Streams : A(s) = 0
      BY <1>7 DEF A, Amount
    <2>3. ~Ends(h)
      BY <1>7 DEF Ends
    <2>4. \A s \in Streams : ch.avail[s] = ch.avail[s] + A(s)
      BY <1>1, <2>2
    <2> QED BY <1>4, <1>5, <1>6, <1>7, <2>1, <2>3, <2>4 DEF Ended, A, h
  <1>8. CASE h.to = ch.id /\ h.type # "data"
    <2>1. \A s \in Streams : A(s) = 0
      BY <1>8 DEF A, Amount
    <2>2. \A s \in Streams : ch.avail[s] = ch.avail[s] + A(s)
      BY <1>1, <2>1
    <2>3. /\ c \in ChannelType /\ c.live = ch.live /\ c.id = ch.id /\ c.win = ch.win /\ c.got = ch.got
          /\ c.avail = ch.avail
          /\ (c.eof \/ c.close) <=> (Ended \/ Ends(h))
          /\ c.status = IF h.type = "status" THEN Code(k) ELSE ch.status
      <3>1. CASE h.type = "eof"
        <4>1. c = [ch EXCEPT !.eof = TRUE]
          BY <1>8, <3>1 DEF PacketAdded, h
        <4> QED BY <1>4, <1>8, <3>1, <4>1 DEF ChannelType, Ends
      <3>2. CASE h.type = "close"
        <4>1. c = [ch EXCEPT !.close = TRUE, !.eof = TRUE]
          BY <1>8, <3>2 DEF PacketAdded, h
        <4> QED BY <1>4, <1>8, <3>2, <4>1 DEF ChannelType, Ends
      <3>3. CASE h.type = "status"
        <4>1. c = [ch EXCEPT !.status = h.n]
          BY <1>8, <3>3 DEF PacketAdded, h
        <4>2. h.n = Code(k) /\ h.n \in Nat
          <5>1. h.n = Code(h.to + 1)
            BY <1>3, <3>3 DEF DownPacket
          <5>2. h.to + 1 = k
            BY <1>1, <1>3, <1>8
          <5> QED BY <1>3, <5>1, <5>2 DEF Code
        <4> QED BY <1>4, <1>8, <3>3, <4>1, <4>2 DEF ChannelType, Ends, Ended
      <3>4. CASE h.type = "other"
        <4>1. c = ch
          BY <1>8, <3>4 DEF PacketAdded, h
        <4> QED BY <1>4, <1>8, <3>4, <4>1 DEF Ends, Ended
      <3>5. h.type \in {"eof", "close", "status", "other"}
        BY <1>3, <1>8 DEF DownPacket
      <3> QED BY <3>1, <3>2, <3>3, <3>4, <3>5
    <2> QED BY <1>5, <1>6, <1>8, <2>2, <2>3 DEF A, h
  <1>9. CASE h.to = ch.id /\ h.type = "data"
    <2>1. h.n \in Nat \ {0} /\ h.n <= MaxPacket /\ h.stream \in Streams /\ MaxPacket \in Nat
      <3>1. h.n \in 1..MaxPacket /\ h.stream \in Streams
        BY <1>3, <1>9 DEF DownPacket
      <3>2. MaxPacket \in Nat
        BY SshChannelAssumption
      <3> QED BY <3>1, <3>2
    <2>2. A(h.stream) = h.n /\ \A s \in Streams : s # h.stream => A(s) = 0
      BY <1>9 DEF A, Amount
    <2>3. ReadAvail + h.n <= ch.win
      <3>1. srv[k].win + Carried(up, u) + Carried(down, f["stdout"])
              + Carried(down, f["stderr"]) + ReadAvail <= ch.win
        BY DEF Ledger, Fits
      <3>2. PICK x, o, e, w, r, z :
               /\ x = Carried(up, u) /\ o = Carried(down, f["stdout"]) /\ e = Carried(down, f["stderr"])
               /\ w = srv[k].win /\ r = ReadAvail /\ z = ch.win
        OBVIOUS
      <3>3. x \in Nat /\ o \in Nat /\ e \in Nat /\ w \in Nat /\ r \in Nat /\ z \in Nat
        BY <1>1, <3>2
      <3>4. w + x + o + e + r <= z
        BY <3>1, <3>2
      <3>5. h.n <= o \/ h.n <= e
        <4>1. h.n <= Carried(down, f[h.stream])
          BY <1>5, <2>1, <2>2
        <4>2. h.stream = "stdout" \/ h.stream = "stderr"
          BY <2>1 DEF Streams, Reading
        <4> QED BY <3>2, <4>1, <4>2
      <3>6. r + h.n <= z
        BY <2>1, <3>3, <3>4, <3>5
      <3> QED BY <3>2, <3>6
    <2>4. Least(Least(h.n, MaxPacket), ch.win - ReadAvail) = h.n /\ ~(ch.win <= ReadAvail)
      <3>1. PICK n, r, z : n = h.n /\ r = ReadAvail /\ z = ch.win
        OBVIOUS
      <3>2. n \in Nat \ {0} /\ n <= MaxPacket /\ r \in Nat /\ z \in Nat /\ MaxPacket \in Nat /\ r + n <= z
        BY <1>1, <2>1, <2>3, <3>1
      <3>3. Least(Least(n, MaxPacket), z - r) = n /\ ~(z <= r)
        BY <3>2 DEF Least
      <3> QED BY <3>1, <3>3
    <2>5. c = [ch EXCEPT !.eof = FALSE, !.avail[h.stream] = @ + h.n]
      BY <1>9, <2>4 DEF PacketAdded, DataAdded, h
    <2>6. PICK a : a = ch.avail[h.stream] + h.n
      OBVIOUS
    <2>7. a \in Nat
      <3>1. ch.avail[h.stream] \in Nat /\ h.n \in Nat
        BY <1>1, <2>1
      <3> QED BY <2>6, <3>1
    <2>8. c = [ch EXCEPT !.eof = FALSE, !.avail = [ch.avail EXCEPT ![h.stream] = a]]
      BY <1>4, <2>1, <2>5, <2>6 DEF ChannelType
    <2>9. /\ c \in ChannelType /\ c.live = ch.live /\ c.id = ch.id /\ c.win = ch.win /\ c.got = ch.got
          /\ c.status = ch.status /\ c.eof = FALSE /\ c.close = ch.close
          /\ c.avail = [ch.avail EXCEPT ![h.stream] = a]
      <3>1. PICK v : v = [ch.avail EXCEPT ![h.stream] = a]
        OBVIOUS
      <3>2. v \in [Streams -> Nat]
        BY <1>4, <2>1, <2>7, <3>1 DEF ChannelType
      <3>3. c = [ch EXCEPT !.eof = FALSE, !.avail = v]
        BY <2>8, <3>1
      <3>4. /\ c \in ChannelType /\ c.live = ch.live /\ c.id = ch.id /\ c.win = ch.win /\ c.got = ch.got
            /\ c.status = ch.status /\ c.eof = FALSE /\ c.close = ch.close /\ c.avail = v
        BY <1>4, <3>2, <3>3 DEF ChannelType
      <3> QED BY <3>1, <3>4
    <2>10. \A s \in Streams : c.avail[s] = ch.avail[s] + A(s)
      <3> TAKE s \in Streams
      <3>1. ch.avail \in [Streams -> Nat]
        BY <1>4 DEF ChannelType
      <3>2. CASE s = h.stream
        BY <2>2, <2>6, <2>9, <3>1, <3>2
      <3>3. CASE s # h.stream
        BY <1>1, <2>2, <2>9, <3>1, <3>3
      <3> QED BY <3>2, <3>3
    <2>11. ~Ended /\ ~Ends(h)
      BY <1>6, <1>9, <2>1, <2>2 DEF Ends
    <2> QED BY <1>5, <1>6, <1>9, <2>9, <2>10, <2>11 DEF Ended, A, h
  <1> QED BY <1>7, <1>8, <1>9

LEMMA ReceiveBooks ==
  ASSUME IInv, Receive, ch.live
  PROVE  BooksOK'
  <1> DEFINE h == Head(down)
             A(s) == Amount(h, "data", ch.id, s)
             N == Len(down)
  <1>1. /\ down # <<>> /\ ch' = PacketAdded(ch, h) /\ down' = Tail(down)
        /\ UNCHANGED <<k, next, results, srv, up, noise, lost>>
    BY DEF Receive
  <1>2. PICK f, u : Ledger(f, u)
    BY DEF IInv, BooksOK
  <1>3. PICK c : c = ch'
    OBVIOUS
  <1>4. /\ c.live = ch.live /\ c.id = ch.id /\ c.win = ch.win /\ c.got = ch.got
        /\ \A s \in Streams : A(s) \in Nat /\ c.avail[s] = ch.avail[s] + A(s)
    BY <1>1, <1>2, <1>3, PacketEffects
  <1>5. /\ k \in 1..NumCommands /\ ch.id = k - 1 /\ down \in Seq(PacketType)
        /\ ReadAvail \in Nat /\ ch.win \in Nat /\ srv[k].win \in Nat
        /\ "stdout" \in Streams /\ "stderr" \in Streams
        /\ \A s \in Streams : ch.got[s] \in Nat /\ ch.avail[s] \in Nat /\ Carried(down, f[s]) \in Nat
        /\ Carried(up, u) \in Nat
    BY <1>2, BookFacts
  <1>6. N \in Nat \ {0} /\ Len(down') = N - 1 /\ \A j \in 1..(N - 1) : down'[j] = down[j + 1]
    BY <1>1, <1>5
  <1> HIDE DEF A, h, N
  <1>7. PICK g : g = [s \in Streams |-> Shifted(f[s], N)]
    OBVIOUS
  <1>8. ASSUME NEW s \in Streams
        PROVE  /\ Tally(down', g[s], "data", ch.id, s)
               /\ Carried(down', g[s]) = Carried(down, f[s]) - A(s)
               /\ \A j \in 0..(N - 1) : g[s][j] = f[s][j + 1]
               /\ f[s][1] = f[s][0] + A(s)
    <2>1. Tally(down, f[s], "data", ch.id, s) /\ g[s] = Shifted(f[s], N)
      BY <1>2, <1>7 DEF Ledger
    <2> QED BY <1>1, <1>5, <2>1, TallyShifts DEF A, h, N
  <1>9. ASSUME NEW s \in Streams
        PROVE  c.got[s] + c.avail[s] + Carried(down', g[s]) = ch.got[s] + ch.avail[s] + Carried(down, f[s])
    <2>1. PICK p, q, r, a : p = ch.got[s] /\ q = ch.avail[s] /\ r = Carried(down, f[s]) /\ a = A(s)
      OBVIOUS
    <2>2. p \in Nat /\ q \in Nat /\ r \in Nat /\ a \in Nat
      BY <1>4, <1>5, <2>1
    <2>3. p + (q + a) + (r - a) = p + q + r
      BY <2>2
    <2>4. c.got[s] = p /\ c.avail[s] = q + a /\ Carried(down', g[s]) = r - a
      BY <1>4, <1>8, <2>1
    <2> QED BY <2>1, <2>3, <2>4
  <1>10. Fits(srv[k].win + Carried(up, u) + Carried(down', g["stdout"])
                + Carried(down', g["stderr"]) + (c.avail["stdout"] + c.avail["stderr"]), ch.win, lost)
    <2>1. Fits(srv[k].win + Carried(up, u) + Carried(down, f["stdout"])
                 + Carried(down, f["stderr"]) + (ch.avail["stdout"] + ch.avail["stderr"]), ch.win, lost)
      BY <1>2 DEF Ledger, ReadAvail
    <2>2. PICK x, o, e, w, z, p, q, a, b :
             /\ x = Carried(up, u) /\ o = Carried(down, f["stdout"]) /\ e = Carried(down, f["stderr"])
             /\ w = srv[k].win /\ z = ch.win /\ p = ch.avail["stdout"] /\ q = ch.avail["stderr"]
             /\ a = A("stdout") /\ b = A("stderr")
      OBVIOUS
    <2>3. /\ x \in Nat /\ o \in Nat /\ e \in Nat /\ w \in Nat /\ z \in Nat /\ p \in Nat /\ q \in Nat
          /\ a \in Nat /\ b \in Nat
      BY <1>4, <1>5, <2>2
    <2>4. Fits(w + x + o + e + (p + q), z, lost)
      BY <2>1, <2>2
    <2>5. Fits(w + x + (o - a) + (e - b) + ((p + a) + (q + b)), z, lost)
      <3>1. w + x + (o - a) + (e - b) + ((p + a) + (q + b)) = w + x + o + e + (p + q)
        BY <2>3
      <3> QED BY <2>4, <3>1
    <2>6. /\ Carried(down', g["stdout"]) = o - a /\ Carried(down', g["stderr"]) = e - b
          /\ c.avail["stdout"] = p + a /\ c.avail["stderr"] = q + b
      BY <1>4, <1>5, <1>8, <2>2
    <2> QED BY <2>2, <2>5, <2>6
  <1>11. ASSUME NEW j \in 1..Len(down'), NEW s \in Streams, Ends(down'[j])
         PROVE  c.got[s] + c.avail[s] + g[s][j] - g[s][0] = srv[k].size[s]
    <2>1. /\ j \in 0..(N - 1) /\ 0 \in 0..(N - 1) /\ j + 1 \in 1..N /\ j + 1 \in 0..N /\ 1 \in 0..N /\ 0 \in 0..N
          /\ down'[j] = down[j + 1] /\ 0 + 1 = 1
      BY <1>6
    <2>2. ch.got[s] + ch.avail[s] + f[s][j + 1] - f[s][0] = srv[k].size[s]
      BY <1>2, <1>11, <2>1 DEF Ledger, N
    <2>3. g[s][j] = f[s][j + 1] /\ g[s][0] = f[s][1] /\ f[s][1] = f[s][0] + A(s)
      BY <1>8, <2>1
    <2>4. f[s][j + 1] \in Nat /\ f[s][0] \in Nat
      <3>1. Tally(down, f[s], "data", ch.id, s)
        BY <1>2 DEF Ledger
      <3> QED BY <1>5, <2>1, <3>1, TallyType DEF N
    <2>5. PICK p, q, y, z, a : /\ p = ch.got[s] /\ q = ch.avail[s] /\ y = f[s][j + 1] /\ z = f[s][0]
                               /\ a = A(s)
      OBVIOUS
    <2>6. p \in Nat /\ q \in Nat /\ y \in Nat /\ z \in Nat /\ a \in Nat
      BY <1>4, <1>5, <2>4, <2>5
    <2>7. p + (q + a) + y - (z + a) = p + q + y - z
      BY <2>6
    <2>8. c.got[s] = p /\ c.avail[s] = q + a /\ g[s][j] = y /\ g[s][0] = z + a
      BY <1>4, <2>3, <2>5
    <2>9. p + q + y - z = srv[k].size[s]
      BY <2>2, <2>5
    <2> QED BY <2>7, <2>8, <2>9
  <1>12. Ledger(g, u)'
    <2>1. \A x : Ends(x)' <=> Ends(x)
      BY <1>3, <1>4 DEF Ends
    <2>2. Tally(up, u, "adjust", k, "none")
      BY <1>2 DEF Ledger
    <2>3. \A s \in Streams :
             /\ ch'.got[s] + ch'.avail[s] + Carried(down', g[s]) <= srv[k].size[s] - srv[k].left[s]
             /\ ~lost => ch'.got[s] + ch'.avail[s] + Carried(down', g[s]) = srv[k].size[s] - srv[k].left[s]
      BY <1>2, <1>3, <1>9 DEF Ledger
    <2>4. Fits(srv[k].win + Carried(up, u) + Carried(down', g["stdout"])
                 + Carried(down', g["stderr"]) + ReadAvail', ch'.win, lost)
      BY <1>3, <1>4, <1>10 DEF ReadAvail
    <2>5. \A j \in 1..Len(down'), s \in Streams : Ends(down'[j]) =>
             ch'.got[s] + ch'.avail[s] + g[s][j] - g[s][0] = srv[k].size[s]
      BY <1>3, <1>11
    <2>6. \A s \in Streams : Tally(down', g[s], "data", ch'.id, s)
      BY <1>3, <1>4, <1>8
    <2> QED BY <1>1, <2>1, <2>2, <2>3, <2>4, <2>5, <2>6 DEF Ledger, Tally, Carried, Fits
  <1> QED BY <1>12 DEF BooksOK

LEMMA ReceiveKeeps ==
  ASSUME IInv, Receive
  PROVE  IInv'
  <1> DEFINE h == Head(down)
             N == Len(down)
  <1>1. /\ down # <<>> /\ ch' = PacketAdded(ch, h) /\ down' = Tail(down)
        /\ UNCHANGED <<k, next, results, srv, up, noise, lost>>
        /\ stage \in {"open", "closing"} \cup Reading
        /\ \/ stage = "closing" /\ stage' = "status" /\ closeOk' = TRUE
           \/ stage # "closing" /\ stage' = stage /\ closeOk' = closeOk
    BY DEF Receive
  <1>2. TypeOK /\ down \in Seq(PacketType) /\ h \in PacketType /\ h = down[1] /\ k \in 1..NumCommands
    BY <1>1, Types DEF IInv, LoopOK
  <1>3. /\ down' \in Seq(PacketType) /\ N \in Nat \ {0} /\ Len(down') = N - 1
        /\ \A j \in 1..(N - 1) : down'[j] = down[j + 1]
    BY <1>1, <1>2
  <1>4. Opened' = Opened
    BY <1>1 DEF Opened
  <1> HIDE DEF h, N
  <1>5. ch' \in ChannelType /\ ch'.live = ch.live /\ ch'.id = ch.id /\ ch'.win = ch.win /\ ch'.got = ch.got
    <2>1. CASE ch.live
      <3>1. PICK f, u : Ledger(f, u)
        BY <2>1 DEF IInv, BooksOK
      <3>2. PICK c : c = ch'
        OBVIOUS
      <3>3. c \in ChannelType /\ c.live = ch.live /\ c.id = ch.id /\ c.win = ch.win /\ c.got = ch.got
        BY <1>1, <2>1, <3>1, <3>2, PacketEffects DEF h
      <3> QED BY <3>2, <3>3
    <2>2. CASE ~ch.live
      BY <1>1, <1>2, <2>2 DEF PacketAdded, TypeOK, ChannelType
    <2> QED BY <2>1, <2>2
  <1>6. TypeOK'
    BY <1>1, <1>2, <1>3, <1>5 DEF TypeOK, ChannelType
  <1>7. LoopOK'
    BY <1>1, <1>5 DEF IInv, LoopOK
  <1>8. ServersOK' /\ OutputComplete' /\ ExitCodeOwn'
    BY <1>1, <1>4 DEF IInv, ServersOK, OutputComplete, ExitCodeOwn
  <1>9. QueuesOK'
    <2>1. (\A x : DownPacket(x) => DownPacket(x)') /\ (\A x : UpPacket(x) => UpPacket(x)')
      BY <1>1, <1>4, <1>5 DEF DownPacket, UpPacket
    <2>2. QueuesOK
      BY DEF IInv
    <2>3. \A j \in 1..Len(down') : \E l \in 1..Len(down) : down'[j] = down[l]
      <3> TAKE j \in 1..Len(down')
      <3>1. j \in 1..(N - 1) /\ j + 1 \in 1..Len(down)
        BY <1>3 DEF N
      <3> QED BY <1>3, <3>1
    <2> QED BY <1>1, <2>1, <2>2, <2>3, QueuesKept
  <1>10. RefillsOK'
    BY <1>1, <1>5 DEF IInv, RefillsOK, Reading
  <1>11. BooksOK'
    <2>1. CASE ch.live
      BY <2>1, ReceiveBooks
    <2>2. CASE ~ch.live
      BY <1>5, <2>2 DEF BooksOK
    <2> QED BY <2>1, <2>2
  <1>12. ReadOK' /\ StatusOK'
    <2>1. CASE ch.live
      <3>1. PICK f, u : Ledger(f, u)
        BY <2>1 DEF IInv, BooksOK
      <3>2. PICK c : c = ch'
        OBVIOUS
      <3> DEFINE A(s) == Amount(h, "data", ch.id, s)
      <3>3. /\ \A s \in Streams : A(s) \in Nat /\ c.avail[s] = ch.avail[s] + A(s)
            /\ (c.eof \/ c.close) <=> (Ended \/ Ends(h))
            /\ Ended => \A s \in Streams : A(s) = 0
            /\ c.status = IF h.to = ch.id /\ h.type = "status" THEN Code(k) ELSE ch.status
            /\ c.got = ch.got /\ c.id = ch.id
        BY <1>1, <2>1, <3>1, <3>2, PacketEffects DEF h
      <3> HIDE DEF A
      <3>4. Ended' <=> Ended \/ Ends(h)
        BY <3>2, <3>3 DEF Ended
      <3>5. \A s \in Streams : ch.got[s] \in Nat /\ ch.avail[s] \in Nat
        BY <1>2, Types
      <3>6. ASSUME Ended', NEW s \in Streams PROVE c.got[s] + c.avail[s] = srv[k].size[s]
        <4>1. CASE Ended
          <5>1. ch.got[s] + ch.avail[s] = srv[k].size[s] /\ A(s) = 0
            BY <2>1, <3>3, <4>1 DEF IInv, ReadOK
          <5> QED BY <3>3, <3>5, <5>1
        <4>2. CASE Ends(h)
          <5>1. 1 \in 1..Len(down) /\ Ends(down[1])
            BY <1>2, <1>3, <4>2 DEF N
          <5>2. ch.got[s] + ch.avail[s] + f[s][1] - f[s][0] = srv[k].size[s]
            BY <3>1, <5>1 DEF Ledger
          <5>3. Tally(down, f[s], "data", ch.id, s)
            BY <3>1 DEF Ledger
          <5>4. f[s][1] = f[s][0] + A(s)
            BY <1>1, <1>2, <5>3, TallyShifts DEF A, h
          <5>5. f[s][0] \in Nat
            <6>1. 0 \in 0..Len(down)
              BY <1>3 DEF N
            <6> QED BY <1>2, <5>3, <6>1, TallyType
          <5>6. PICK p, q, z, a : p = ch.got[s] /\ q = ch.avail[s] /\ z = f[s][0] /\ a = A(s)
            OBVIOUS
          <5>7. p \in Nat /\ q \in Nat /\ z \in Nat /\ a \in Nat
            BY <3>3, <3>5, <5>5, <5>6
          <5>8. p + q + (z + a) - z = p + (q + a)
            BY <5>7
          <5>9. c.got[s] = p /\ c.avail[s] = q + a /\ p + q + (z + a) - z = srv[k].size[s]
            BY <3>3, <5>2, <5>4, <5>6
          <5> QED BY <5>8, <5>9
        <4> QED BY <3>4, <3>6, <4>1, <4>2
      <3>7. ReadOK'
        <4>1. stage' \in {"stderr", "close", "closing", "status"} =>
                 stage \in {"stderr", "close", "closing", "status"}
          BY <1>1
        <4>2. stage' \in {"close", "closing", "status"} => stage \in {"close", "closing", "status"}
          BY <1>1
        <4>3. stage \in {"stderr", "close", "closing", "status"} =>
                 Ended /\ ch.got["stdout"] = srv[k].size["stdout"]
          BY DEF IInv, ReadOK
        <4>4. stage \in {"close", "closing", "status"} => ch.got["stderr"] = srv[k].size["stderr"]
          BY DEF IInv, ReadOK
        <4> QED BY <1>1, <1>5, <3>2, <3>4, <3>6, <4>1, <4>2, <4>3, <4>4 DEF ReadOK
      <3>8. StatusOK'
        <4> DEFINE Before(n) == \E j \in 1..Len(down') : j <= n /\ down'[j].type = "status" /\ down'[j].to = ch.id
        <4>1. /\ ch.status \in {0, Code(k)}
              /\ StatusFirst =>
                    /\ Ended => StatusKnown
                    /\ \A j \in 1..N : Ends(down[j]) => StatusKnown \/ StatusBefore(j)
                    /\ srv[k].exited /\ ~lost => StatusKnown \/ StatusBefore(N)
          BY <2>1 DEF IInv, StatusOK, N
        <4>2. c.status \in {0, Code(k)} /\ (StatusKnown => c.status = Code(k))
          BY <3>3, <4>1 DEF StatusKnown
        <4>3. ASSUME NEW n \in 1..N, StatusKnown \/ StatusBefore(n)
              PROVE  c.status = Code(k) \/ Before(n - 1)
          <5>1. CASE StatusKnown
            BY <4>2, <5>1
          <5>2. CASE StatusBefore(n)
            <6>1. PICK l \in 1..Len(down) : l <= n /\ down[l].type = "status" /\ down[l].to = ch.id
              BY <5>2 DEF StatusBefore
            <6>2. CASE l = 1
              BY <1>2, <3>3, <6>1, <6>2
            <6>3. CASE l # 1
              <7>1. l - 1 \in 1..(N - 1) /\ l - 1 <= n - 1 /\ (l - 1) + 1 = l
                BY <1>3, <6>1, <6>3 DEF N
              <7>2. down'[l - 1] = down[l] /\ l - 1 \in 1..Len(down')
                BY <1>3, <7>1
              <7> QED BY <6>1, <7>1, <7>2
            <6> QED BY <6>2, <6>3
          <5> QED BY <4>3, <5>1, <5>2
        <4>4. StatusFirst /\ Ended' => c.status = Code(k)
          <5> SUFFICES ASSUME StatusFirst, Ended' PROVE c.status = Code(k)
            OBVIOUS
          <5>1. CASE Ended
            BY <4>1, <4>2, <5>1
          <5>2. CASE Ends(h)
            <6>1. 1 \in 1..N /\ Ends(down[1])
              BY <1>2, <1>3, <5>2
            <6>2. StatusKnown \/ StatusBefore(1)
              BY <4>1, <6>1
            <6>3. c.status = Code(k) \/ Before(1 - 1)
              BY <4>3, <6>1, <6>2
            <6>4. ~Before(1 - 1)
              OBVIOUS
            <6> QED BY <6>3, <6>4
          <5> QED BY <3>4, <5>1, <5>2
        <4>5. ASSUME StatusFirst, NEW j \in 1..Len(down'), Ends(down'[j])
              PROVE  c.status = Code(k) \/ Before(j)
          <5>1. j + 1 \in 1..N /\ (j + 1) - 1 = j /\ down'[j] = down[j + 1]
            BY <1>3
          <5>2. StatusKnown \/ StatusBefore(j + 1)
            BY <4>1, <4>5, <5>1
          <5> QED BY <4>3, <5>1, <5>2
        <4>6. ASSUME StatusFirst, srv[k].exited, ~lost
              PROVE  c.status = Code(k) \/ Before(Len(down'))
          <5>1. N \in 1..N /\ N - 1 = Len(down')
            BY <1>3
          <5> QED BY <4>1, <4>3, <4>6, <5>1
        <4>7. \A x : Ends(x)' <=> Ends(x)
          BY <1>5 DEF Ends
        <4>8. StatusKnown' <=> c.status = Code(k)
          BY <1>1, <3>2 DEF StatusKnown, Code
        <4> HIDE DEF Before
        <4>9. ASSUME StatusFirst
              PROVE  /\ Ended' => StatusKnown'
                     /\ \A j \in 1..Len(down') : Ends(down'[j]) => StatusKnown' \/ Before(j)
                     /\ srv[k].exited /\ ~lost => StatusKnown' \/ Before(Len(down'))
          BY <4>4, <4>5, <4>6, <4>8, <4>9
        <4> QED BY <1>1, <1>5, <3>2, <4>2, <4>7, <4>9 DEF StatusOK, StatusBefore, Before, Ends, Code
      <3> QED BY <3>7, <3>8
    <2>2. CASE ~ch.live
      <3>1. stage = "open" /\ stage' = "open"
        BY <1>1, <2>2 DEF IInv, LoopOK, Reading
      <3> QED BY <1>5, <2>2, <3>1 DEF ReadOK, StatusOK
    <2> QED BY <2>1, <2>2
  <1> QED BY <1>6, <1>7, <1>8, <1>9, <1>10, <1>11, <1>12 DEF IInv

(* A new channel: its number is not the one of any packet under way.        *)
LEMMA OpenKeeps ==
  ASSUME IInv, Open
  PROVE  IInv'
  <1>1. /\ stage = "open" /\ ~lost /\ stage' = "stdout" /\ ch' = Channel(next) /\ next' = NextId(next)
        /\ UNCHANGED <<k, closeOk, results, down, up, noise, lost>>
    BY DEF Open
  <1>2. PICK out \in OutSizes, err \in ErrSizes :
           srv' = [srv EXCEPT ![k] = Process(next, [s \in Streams |-> IF s = "stdout" THEN out ELSE err])]
    BY DEF Open
  <1>3. PICK size : size = [s \in Streams |-> IF s = "stdout" THEN out ELSE err]
    OBVIOUS
  <1>4. size \in [Streams -> Nat]
    BY <1>3, SshChannelAssumption
  <1>5. PICK p : p = Process(next, size)
    OBVIOUS
  <1>6. /\ TypeOK /\ k \in 1..NumCommands /\ ~ch.live /\ next = k - 1 /\ Len(results) = k - 1
        /\ Opened = k - 1
    BY <1>1 DEF IInv, LoopOK, Opened
  <1>7. /\ k \in Nat \ {0} /\ NumCommands \in Nat /\ k <= NumCommands /\ NumCommands <= IdModulus
        /\ IdModulus \in Nat \ {0} /\ Window \in Nat \ {0} /\ next \in Nat /\ next \in 0..(IdModulus - 1)
    BY <1>6, SshChannelAssumption
  <1>8. /\ p \in ProcessType /\ p.state = "running" /\ p.id = next /\ p.win = Window /\ p.size = size
        /\ p.left = size /\ p.eof = FALSE /\ p.exited = FALSE
    BY <1>4, <1>5, <1>7 DEF Process, ProcessType
  <1>9. /\ srv \in [1..NumCommands -> ProcessType] /\ srv' \in [1..NumCommands -> ProcessType] /\ srv'[k] = p
        /\ \A c \in 1..NumCommands : c # k => srv'[c] = srv[c]
    <2>1. srv \in [1..NumCommands -> ProcessType] /\ srv' = [srv EXCEPT ![k] = p]
      BY <1>2, <1>3, <1>5, <1>6, Types
    <2> QED BY <1>6, <1>8, <2>1
  <1>10. /\ ch' \in ChannelType /\ ch'.live = TRUE /\ ch'.id = next /\ ch'.win = Window /\ ch'.eof = FALSE
         /\ ch'.close = FALSE /\ ch'.status = 0
         /\ ch'.avail = [s \in Streams |-> 0] /\ ch'.got = [s \in Streams |-> 0]
    BY <1>1, <1>7 DEF Channel, ChannelType
  <1>11. next' \in 0..(IdModulus - 1) /\ (k < NumCommands => next' = k)
    <2>1. next' = k % IdModulus
      BY <1>1, <1>6, <1>7 DEF NextId
    <2> QED BY <1>7, <2>1
  <1>12. TypeOK'
    BY <1>1, <1>6, <1>9, <1>10, <1>11 DEF TypeOK, ChannelType, ProcessType, Streams, Reading
  <1>13. LoopOK'
    BY <1>1, <1>6, <1>10, <1>11 DEF LoopOK
  <1>14. Opened' = k /\ Opened' = Opened + 1
    BY <1>1, <1>6, <1>7 DEF Opened
  <1>15. ServersOK'
    <2>1. ASSUME NEW c \in 1..NumCommands
          PROVE  /\ srv'[c].state = "none" <=> c > k
                 /\ c <= k => srv'[c].id = c - 1
                 /\ srv'[c].eof => \A s \in Streams : srv'[c].left[s] = 0
                 /\ srv'[c].eof /\ StatusFirst => srv'[c].exited
      <3>1. CASE c = k
        BY <1>6, <1>7, <1>8, <1>9, <3>1
      <3>2. CASE c # k
        <4>1. /\ srv[c].state = "none" <=> c > k - 1
              /\ c <= k - 1 => srv[c].id = c - 1
              /\ srv[c].eof => \A s \in Streams : srv[c].left[s] = 0
              /\ srv[c].eof /\ StatusFirst => srv[c].exited
          BY <1>6 DEF IInv, ServersOK
        <4>2. (c > k - 1 <=> c > k) /\ (c <= k <=> c <= k - 1)
          BY <1>7, <3>2
        <4> QED BY <1>9, <3>2, <4>1, <4>2
      <3> QED BY <3>1, <3>2
    <2> QED BY <1>14, <2>1 DEF ServersOK
  <1>16. QueuesOK'
    <2>1. \A x : DownPacket(x) => DownPacket(x)'
      BY <1>6, <1>7, <1>14 DEF DownPacket
    <2>2. \A x : UpPacket(x) => UpPacket(x)'
      BY <1>1, <1>6, <1>7, <1>14 DEF UpPacket
    <2>3. QueuesOK
      BY DEF IInv
    <2> QED BY <1>1, <2>1, <2>2, <2>3, QueuesKept
  <1>17. (\A j \in 1..Len(down) : down[j].to # next) /\ (\A j \in 1..Len(up) : up[j].to # k)
    <2>1. \A j \in 1..Len(down) : DownPacket(down[j])
      BY DEF IInv, QueuesOK
    <2>2. \A j \in 1..Len(up) : UpPacket(up[j])
      BY DEF IInv, QueuesOK
    <2>3. \A x : DownPacket(x) => x.to # next
      BY <1>6, <1>7 DEF DownPacket
    <2>4. \A x : UpPacket(x) => x.to # k
      BY <1>6, <1>7 DEF UpPacket
    <2> QED BY <2>1, <2>2, <2>3, <2>4
  <1>18. BooksOK'
    <2>1. down \in Seq(PacketType) /\ up \in Seq(PacketType) /\ Len(down) \in Nat
      BY <1>6, Types
    <2>2. PICK g, v : g = [s \in Streams |-> Zeros(Len(down))] /\ v = Zeros(Len(up))
      OBVIOUS
    <2>3. ASSUME NEW s \in Streams
          PROVE  Tally(down, g[s], "data", next, s) /\ Carried(down, g[s]) = 0
      <3>1. \A j \in 1..Len(down) : Amount(down[j], "data", next, s) = 0
        BY <1>17 DEF Amount
      <3> QED BY <2>1, <2>2, <3>1, TallyNothing
    <2>4. Tally(up, v, "adjust", k, "none") /\ Carried(up, v) = 0
      <3>1. \A j \in 1..Len(up) : Amount(up[j], "adjust", k, "none") = 0
        BY <1>17 DEF Amount
      <3> QED BY <2>1, <2>2, <3>1, TallyNothing
    <2>5. ReadAvail' = 0
      BY <1>10 DEF ReadAvail, Streams, Reading
    <2>6. ASSUME NEW s \in Streams
          PROVE  /\ ch'.got[s] + ch'.avail[s] + Carried(down, g[s]) = srv'[k].size[s] - srv'[k].left[s]
                 /\ ch'.got[s] + ch'.avail[s] + Carried(down, g[s]) <= srv'[k].size[s] - srv'[k].left[s]
      <3>1. ch'.got[s] = 0 /\ ch'.avail[s] = 0 /\ srv'[k].size = size /\ srv'[k].left = size
        BY <1>8, <1>9, <1>10
      <3>2. size[s] \in Nat
        BY <1>4
      <3> QED BY <2>3, <3>1, <3>2
    <2>7. Fits(srv'[k].win + Carried(up, v) + Carried(down, g["stdout"]) + Carried(down, g["stderr"])
                 + ReadAvail', ch'.win, lost)
      <3>1. Carried(down, g["stdout"]) = 0 /\ Carried(down, g["stderr"]) = 0
        BY <2>3 DEF Streams, Reading
      <3>2. srv'[k].win = Window /\ ch'.win = Window /\ Fits(Window + 0 + 0 + 0 + 0, Window, lost)
        BY <1>7, <1>8, <1>9, <1>10 DEF Fits
      <3> QED BY <2>4, <2>5, <3>1, <3>2
    <2>8. \A j \in 1..Len(down) : ~(Ends(down[j])')
      BY <1>1, <1>10, <1>17 DEF Ends
    <2>9. Ledger(g, v)'
      BY <1>1, <1>10, <2>3, <2>4, <2>6, <2>7, <2>8 DEF Ledger, Tally, Carried, Ends, Fits
    <2> QED BY <2>9 DEF BooksOK
  <1>19. ReadOK'
    BY <1>1, <1>10 DEF ReadOK, Ended
  <1>20. StatusOK'
    <2>1. \A j \in 1..Len(down') : ~(down'[j].to = ch'.id)
      BY <1>1, <1>10, <1>17
    <2> QED BY <1>1, <1>8, <1>9, <1>10, <2>1 DEF StatusOK, Ended, Ends
  <1>21. RefillsOK'
    <2>1. (Window \div 4) * 3 <= Window /\ (Window \div 4) * 3 \in Int
      BY <1>7
    <2>2. Buf \in Int
      BY SshChannelAssumption
    <2>3. Buf <= (Window \div 4) * 3 => Buf <= Window
      <3>1. PICK t : t = (Window \div 4) * 3
        OBVIOUS
      <3>2. t <= Window /\ t \in Int /\ Window \in Int
        BY <1>7, <2>1, <3>1
      <3> QED BY <2>2, <3>1, <3>2
    <2> QED BY <1>7, <1>10, <2>2, <2>3 DEF RefillsOK
  <1>22. OutputComplete' /\ ExitCodeOwn'
    <2>1. \A c \in DOMAIN results : c \in 1..NumCommands /\ c # k
      <3>1. results \in Seq([out : Nat, err : Nat, code : Nat])
        BY <1>6 DEF TypeOK
      <3>2. DOMAIN results = 1..(k - 1)
        BY <1>6, <3>1
      <3> QED BY <1>7, <3>2
    <2> QED BY <1>1, <1>9, <2>1 DEF IInv, OutputComplete, ExitCodeOwn
  <1> QED BY <1>12, <1>13, <1>15, <1>16, <1>18, <1>19, <1>20, <1>21, <1>22 DEF IInv

-----------------------------------------------------------------------------
LEMMA InitIInv == Init => IInv
  <1> SUFFICES ASSUME Init PROVE IInv
    OBVIOUS
  <1> DEFINE zero == [s \in Streams |-> 0]
  <1>1. zero \in [Streams -> Nat]
    OBVIOUS
  <1>2. /\ NumCommands \in Nat \ {0} /\ IdModulus \in Nat \ {0} /\ Window \in Nat \ {0} /\ MaxNoise \in Nat
        /\ 0 \in 0..(IdModulus - 1)
    BY SshChannelAssumption
  <1>3. ch \in ChannelType /\ ~ch.live
    BY <1>1, <1>2 DEF Init, Channel, ChannelType
  <1>4. NoProcess \in ProcessType /\ NoProcess.state = "none" /\ ~NoProcess.eof
    <2>1. Process(0, zero) \in ProcessType /\ Process(0, zero).eof = FALSE
      BY <1>1, <1>2 DEF Process, ProcessType
    <2>2. NoProcess = [Process(0, zero) EXCEPT !.state = "none"]
      BY DEF NoProcess
    <2> HIDE DEF zero
    <2> QED BY <2>1, <2>2 DEF ProcessType
  <1>5. /\ stage = "open" /\ k = 1 /\ next = 0 /\ closeOk = FALSE /\ results = <<>> /\ down = <<>> /\ up = <<>>
        /\ noise = 0 /\ lost = FALSE /\ srv = [c \in 1..NumCommands |-> NoProcess]
    BY DEF Init
  <1>6. TypeOK
    <2>1. srv \in [1..NumCommands -> ProcessType]
      BY <1>4, <1>5
    <2>2. ch \in ChannelType
      BY <1>3
    <2>3. /\ down \in Seq(PacketType) /\ up \in Seq(PacketType)
          /\ results \in Seq([out : Nat, err : Nat, code : Nat])
      BY <1>5
    <2>4. k \in Nat /\ next \in 0..(IdModulus - 1) /\ noise \in 0..MaxNoise
      BY <1>2, <1>5
    <2>5. closeOk \in BOOLEAN /\ lost \in BOOLEAN
      BY <1>5
    <2>6. stage \in Streams \cup {"open", "close", "closing", "status", "done", "failed", "crashed"}
      BY <1>5
    <2> QED BY <2>1, <2>2, <2>3, <2>4, <2>5, <2>6 DEF TypeOK, ChannelType, ProcessType
  <1>7. LoopOK
    BY <1>2, <1>3, <1>5 DEF LoopOK
  <1>8. ServersOK
    <2>1. Opened = 0
      BY <1>5 DEF Opened
    <2> QED BY <1>4, <1>5, <2>1 DEF ServersOK
  <1>9. QueuesOK /\ OutputComplete /\ ExitCodeOwn
    BY <1>5 DEF QueuesOK, OutputComplete, ExitCodeOwn
  <1>10. BooksOK /\ StatusOK /\ ReadOK /\ RefillsOK
    BY <1>3, <1>5 DEF BooksOK, StatusOK, ReadOK, RefillsOK, Reading
  <1> QED BY <1>6, <1>7, <1>8, <1>9, <1>10 DEF IInv

LEMMA StepIInv == IInv /\ [Next]_vars => IInv'
  <1> SUFFICES ASSUME IInv, [Next]_vars PROVE IInv'
    OBVIOUS
  <1>0. "stdout" \in Streams /\ "stderr" \in Streams
    BY DEF Streams, Reading
  <1>1. CASE Client
    BY <1>0, <1>1, OpenKeeps, OpenFailsKeeps, ExpandWindowKeeps, ReceiveKeeps, ReadDataKeeps, ReadEndKeeps,
       ReadFailsKeeps, SendCloseKeeps, CloseFailsKeeps, FinishKeeps DEF Client
  <1>2. ASSUME NEW c \in 1..NumCommands, Server(c) PROVE IInv'
    BY <1>2, ServerDataKeeps, ServerEofKeeps, ServerStatusKeeps, ServerCloseKeeps DEF Server
  <1>3. CASE ServerReceive
    BY <1>3, ServerReceiveKeeps
  <1>4. CASE Noise
    BY <1>4, NoiseKeeps
  <1>5. CASE Lose
    BY <1>5, LoseKeeps
  <1>6. CASE UNCHANGED vars
    <2>1. UNCHANGED <<stage, k, ch, next, closeOk, results, srv, down, up, noise, lost>>
      BY <1>6 DEF vars, client
    <2>2. TypeOK' /\ LoopOK' /\ ServersOK' /\ QueuesOK'
      <3>1. TypeOK'
        BY <2>1 DEF IInv, TypeOK
      <3>2. LoopOK'
        BY <2>1 DEF IInv, LoopOK
      <3>3. ServersOK'
        BY <2>1 DEF IInv, ServersOK, Opened
      <3>4. QueuesOK'
        BY <2>1 DEF IInv, QueuesOK, DownPacket, UpPacket, Opened
      <3> QED BY <3>1, <3>2, <3>3, <3>4
    <2>3. ReadOK' /\ StatusOK' /\ RefillsOK' /\ OutputComplete' /\ ExitCodeOwn'
      <3>1. ReadOK' /\ RefillsOK'
        BY <2>1 DEF IInv, ReadOK, RefillsOK, Ended, Ends
      <3>2. StatusOK'
        BY <2>1 DEF IInv, StatusOK, Ended, StatusKnown, StatusBefore, Ends, Code
      <3>3. OutputComplete' /\ ExitCodeOwn'
        BY <2>1 DEF IInv, OutputComplete, ExitCodeOwn, Code
      <3> QED BY <3>1, <3>2, <3>3
    <2>4. BooksOK'
      <3>1. \A f, u : Ledger(f, u) => Ledger(f, u)'
        BY <2>1 DEF Ledger, Tally, Carried, Ends, ReadAvail, Fits
      <3> QED BY <2>1, <3>1 DEF IInv, BooksOK
    <2> QED BY <2>2, <2>3, <2>4 DEF IInv
  <1> QED BY <1>1, <1>2, <1>3, <1>4, <1>5, <1>6 DEF Next

(* The invariant holds in every state of every call, whatever its commands  *)
(* write, in whatever pieces it arrives and wherever the connection breaks. *)
THEOREM Invariance == Spec => []IInv
  BY InitIInv, StepIInv, PTL DEF Spec

(* Both sides of the channel and the packets under way always have their    *)
(* shapes: no window and no buffer count of channel.c ever goes below zero. *)
THEOREM TypeCorrect == Spec => []TypeOK
  <1>1. IInv => TypeOK
    BY DEF IInv
  <1> QED BY <1>1, Invariance, PTL

(* The entry of a finished command (wrapper.c, lines 263-291) holds every   *)
(* byte its process wrote to either stream, for any window, buffer and      *)
(* packet size and any order of packets.                                    *)
THEOREM NothingIsLost == Spec => []OutputComplete
  <1>1. IInv => OutputComplete
    BY DEF IInv
  <1> QED BY <1>1, Invariance, PTL

(* The exit code of an entry is its own command's or 0, and its own         *)
(* command's where servers send the status first and the connection holds:  *)
(* the CLOSE that libssh2_channel_close waits for may be missing, but the   *)
(* EOF that ended the reads came after the status.                          *)
THEOREM StatusIsOwn == Spec => []ExitCodeOwn
  <1>1. IInv => ExitCodeOwn
    BY DEF IInv
  <1> QED BY <1>1, Invariance, PTL

(* The refill of _libssh2_channel_read leaves room for a buffer while reads *)
(* go on, and what is buffered stays within the window: _libssh2_packet_add *)
(* never has to cut data short.                                             *)
THEOREM RefillsSuffice == Spec => []WindowSuffices
  <1>1. IInv => WindowSuffices
    <2> SUFFICES ASSUME IInv, stage \in Reading, Buf <= (Window \div 4) * 3
                 PROVE  ch.win >= Buf /\ ReadAvail <= ch.win
      BY DEF WindowSuffices
    <2>1. ch.live
      BY DEF IInv, LoopOK, Reading
    <2>2. PICK f, u : Ledger(f, u)
      BY <2>1 DEF IInv, BooksOK
    <2>3. PICK x, o, e, w, r, z :
             /\ x = Carried(up, u) /\ o = Carried(down, f["stdout"]) /\ e = Carried(down, f["stderr"])
             /\ w = srv[k].win /\ r = ReadAvail /\ z = ch.win
      OBVIOUS
    <2>4. x \in Nat /\ o \in Nat /\ e \in Nat /\ w \in Nat /\ r \in Nat /\ z \in Nat
      BY <2>1, <2>2, <2>3, BookFacts
    <2>5. w + x + o + e + r <= z
      BY <2>2, <2>3 DEF Ledger, Fits
    <2>6. r <= z
      BY <2>4, <2>5
    <2> QED BY <2>3, <2>6 DEF IInv, RefillsOK
  <1> QED BY <1>1, Invariance, PTL

-----------------------------------------------------------------------------
(* What the packets of a queue carry.                                       *)
Part(m, type, to) == IF m.type = type /\ m.to = to THEN m.n ELSE 0

(* A set of numbers has a least one.                                        *)
LEMMA LeastOf ==
  ASSUME NEW S, S \subseteq Nat, S # {}
  PROVE  \E i \in S : \A j \in S : i <= j
  <1> DEFINE R == {ss \in Nat \X Nat : ss[1] < ss[2]}
  <1>1. PICK i \in S : \A j \in S : <<j, i>> \notin R
    <2>1. IsWellFoundedOn(R, Nat)
      BY NatLessThanWellFounded DEF OpToRel
    <2> HIDE DEF R
    <2> QED BY <2>1, WFMin
  <1>2. \A j \in Nat : j < i => <<j, i>> \in R
    OBVIOUS
  <1> HIDE DEF R
  <1>3. \A j \in S : ~(j < i)
    BY <1>1, <1>2, Zenon
  <1> QED BY <1>3

(* Running totals that follow the packets from 0 end in the sum: two such   *)
(* totals that differ would have a first place where they do.               *)
LEMMA BytesAre ==
  ASSUME NEW q \in Seq(PacketType), NEW type, NEW to, NEW g,
         g \in [0..Len(q) -> Int], g[0] = 0,
         \A j \in 1..Len(q) : g[j] = g[j - 1] + Part(q[j], type, to)
  PROVE  Bytes(q, type, to) = g[Len(q)]
  <1> DEFINE n == Len(q)
             Step(h, j) == IF j = 0 THEN 0
                           ELSE h[j - 1] + (IF q[j].type = type /\ q[j].to = to THEN q[j].n ELSE 0)
             Totals(h) == h = [j \in 0..n |-> Step(h, j)]
             sum == CHOOSE h : Totals(h)
  <1>1. Bytes(q, type, to) = sum[n]
    BY DEF Bytes
  <1>2. n \in Nat
    OBVIOUS
  <1>3. \A j \in 0..n : g[j] = Step(g, j)
    <2> TAKE j \in 0..n
    <2>1. CASE j = 0
      BY <2>1
    <2>2. CASE j # 0
      <3>1. j \in 1..n
        BY <1>2, <2>2
      <3> QED BY <2>2, <3>1 DEF Part
    <2> QED BY <2>1, <2>2
  <1>4. Totals(g)
    <2> HIDE DEF Step
    <2> QED BY <1>3
  <1>5. Totals(sum)
    <2> HIDE DEF Totals
    <2> QED BY <1>4
  <1>6. \A j \in 0..n : sum[j] = Step(sum, j)
    <2> HIDE DEF sum, Step
    <2> QED BY <1>5
  <1> HIDE DEF sum, Totals, n
  <1>7. \A j \in 0..n : sum[j] = g[j]
    <2> DEFINE Bad == {j \in 0..n : sum[j] # g[j]}
    <2> SUFFICES ASSUME Bad # {} PROVE FALSE
      OBVIOUS
    <2>1. PICK i \in Bad : \A j \in Bad : i <= j
      <3>1. Bad \subseteq Nat
        BY <1>2
      <3> HIDE DEF Bad
      <3> QED BY <3>1, LeastOf
    <2>2. i \in 0..n /\ sum[i] # g[i]
      OBVIOUS
    <2>3. CASE i = 0
      BY <1>3, <1>6, <2>2, <2>3
    <2>4. CASE i # 0
      <3>1. i - 1 \in 0..n /\ ~(i <= i - 1)
        BY <1>2, <2>2, <2>4
      <3>2. sum[i - 1] = g[i - 1]
        BY <2>1, <3>1
      <3>3. Step(sum, i) = Step(g, i)
        BY <3>2
      <3> QED BY <1>3, <1>6, <2>2, <3>3
    <2> QED BY <2>3, <2>4
  <1> QED BY <1>1, <1>2, <1>7 DEF n

(* The books count the bytes that are under way.                            *)
LEMMA BooksCount ==
  ASSUME IInv, ch.live, NEW f, NEW u, Ledger(f, u)
  PROVE  /\ Bytes(down, "data", ch.id) = Carried(down, f["stdout"]) + Carried(down, f["stderr"])
         /\ Bytes(up, "adjust", k) = Carried(up, u)
  <1>1. /\ down \in Seq(PacketType) /\ up \in Seq(PacketType)
        /\ "stdout" \in Streams /\ "stderr" \in Streams
    BY BookFacts
  <1>2. Bytes(down, "data", ch.id) = Carried(down, f["stdout"]) + Carried(down, f["stderr"])
    <2> DEFINE n == Len(down)
    <2>1. PICK o, e : o = f["stdout"] /\ e = f["stderr"]
      OBVIOUS
    <2>2. Tally(down, o, "data", ch.id, "stdout") /\ Tally(down, e, "data", ch.id, "stderr")
      BY <1>1, <2>1 DEF Ledger
    <2>3. /\ o \in [0..n -> Nat] /\ e \in [0..n -> Nat] /\ n \in Nat
          /\ \A j \in 1..n : /\ o[j] = o[j - 1] + Amount(down[j], "data", ch.id, "stdout")
                             /\ e[j] = e[j - 1] + Amount(down[j], "data", ch.id, "stderr")
      BY <1>1, <2>2 DEF Tally
    <2>4. PICK g : g = [j \in 0..n |-> (o[j] - o[0]) + (e[j] - e[0])]
      OBVIOUS
    <2>5. /\ g \in [0..n -> Int] /\ g[0] = 0
          /\ \A j \in 0..n : g[j] = (o[j] - o[0]) + (e[j] - e[0])
      <3>1. o[0] \in Nat /\ e[0] \in Nat /\ 0 \in 0..n /\ \A j \in 0..n : o[j] \in Nat /\ e[j] \in Nat
        BY <2>3
      <3> QED BY <2>4, <3>1
    <2> HIDE DEF n
    <2>6. ASSUME NEW j \in 1..n
          PROVE  g[j] = g[j - 1] + Part(down[j], "data", ch.id)
      <3>1. DownPacket(down[j]) /\ down[j] \in PacketType
        BY <1>1 DEF IInv, QueuesOK, n
      <3>2. PICK x, y : x = Amount(down[j], "data", ch.id, "stdout") /\ y = Amount(down[j], "data", ch.id, "stderr")
        OBVIOUS
      <3>3. x \in Nat /\ y \in Nat
        BY <3>1, <3>2, AmountType
      <3>4. Part(down[j], "data", ch.id) = x + y
        <4>1. CASE down[j].type = "data" /\ down[j].to = ch.id
          <5>1. (down[j].stream = "stdout" \/ down[j].stream = "stderr") /\ down[j].n \in Nat
            BY <3>1, <4>1 DEF DownPacket, Streams, Reading, PacketType
          <5> QED BY <3>2, <4>1, <5>1 DEF Part, Amount
        <4>2. CASE ~(down[j].type = "data" /\ down[j].to = ch.id)
          BY <3>2, <4>2 DEF Part, Amount
        <4> QED BY <4>1, <4>2
      <3>5. j \in 0..n /\ j - 1 \in 0..n /\ 0 \in 0..n
        BY <2>3
      <3>6. PICK a, b, c, d : a = o[j - 1] /\ b = e[j - 1] /\ c = o[0] /\ d = e[0]
        OBVIOUS
      <3>7. a \in Nat /\ b \in Nat /\ c \in Nat /\ d \in Nat
        BY <2>3, <3>5, <3>6
      <3>8. o[j] = a + x /\ e[j] = b + y
        BY <2>3, <3>2, <3>6
      <3>9. g[j] = ((a + x) - c) + ((b + y) - d) /\ g[j - 1] = (a - c) + (b - d)
        BY <2>5, <3>5, <3>6, <3>8
      <3>10. ((a + x) - c) + ((b + y) - d) = ((a - c) + (b - d)) + (x + y)
        BY <3>3, <3>7
      <3> QED BY <3>4, <3>9, <3>10
    <2>7. Bytes(down, "data", ch.id) = g[n]
      <3>1. /\ down \in Seq(PacketType) /\ g \in [0..Len(down) -> Int] /\ g[0] = 0
            /\ \A j \in 1..Len(down) : g[j] = g[j - 1] + Part(down[j], "data", ch.id)
        BY <1>1, <2>5, <2>6 DEF n
      <3>2. Bytes(down, "data", ch.id) = g[Len(down)]
        BY <3>1, BytesAre
      <3> QED BY <3>2 DEF n
    <2>8. n \in 0..n
      BY <2>3
    <2> QED BY <2>1, <2>5, <2>7, <2>8 DEF Carried, n
  <1>3. Bytes(up, "adjust", k) = Carried(up, u)
    <2> DEFINE n == Len(up)
    <2>1. /\ u \in [0..n -> Nat] /\ n \in Nat
          /\ \A j \in 1..n : u[j] = u[j - 1] + Amount(up[j], "adjust", k, "none")
      BY <1>1 DEF Ledger, Tally
    <2>2. PICK g : g = [j \in 0..n |-> u[j] - u[0]]
      OBVIOUS
    <2>3. g \in [0..n -> Int] /\ g[0] = 0 /\ \A j \in 0..n : g[j] = u[j] - u[0]
      <3>1. u[0] \in Nat /\ 0 \in 0..n /\ \A j \in 0..n : u[j] \in Nat
        BY <2>1
      <3> QED BY <2>2, <3>1
    <2> HIDE DEF n
    <2>4. ASSUME NEW j \in 1..n
          PROVE  g[j] = g[j - 1] + Part(up[j], "adjust", k)
      <3>1. UpPacket(up[j]) /\ up[j] \in PacketType
        BY <1>1 DEF IInv, QueuesOK, n
      <3>2. PICK x : x = Amount(up[j], "adjust", k, "none")
        OBVIOUS
      <3>3. x \in Nat /\ Part(up[j], "adjust", k) = x
        BY <3>1, <3>2, AmountType DEF Part, Amount, UpPacket
      <3>4. j \in 0..n /\ j - 1 \in 0..n /\ 0 \in 0..n
        BY <2>1
      <3>5. u[j] = u[j - 1] + x /\ u[j - 1] \in Nat /\ u[0] \in Nat
        BY <2>1, <3>2, <3>4
      <3>6. g[j] = u[j] - u[0] /\ g[j - 1] = u[j - 1] - u[0]
        BY <2>3, <3>4
      <3>7. PICK y, z : y = u[j - 1] /\ z = u[0]
        OBVIOUS
      <3>8. g[j] = (y + x) - z /\ g[j - 1] = y - z /\ y \in Nat /\ z \in Nat
        BY <3>5, <3>6, <3>7
      <3> QED BY <3>3, <3>8
    <2>5. Bytes(up, "adjust", k) = g[n]
      <3>1. /\ up \in Seq(PacketType) /\ g \in [0..Len(up) -> Int] /\ g[0] = 0
            /\ \A j \in 1..Len(up) : g[j] = g[j - 1] + Part(up[j], "adjust", k)
        BY <1>1, <2>3, <2>4 DEF n
      <3>2. Bytes(up, "adjust", k) = g[Len(up)]
        BY <3>1, BytesAre
      <3> QED BY <3>2 DEF n
    <2>6. n \in 0..n
      BY <2>1
    <2> QED BY <2>3, <2>5, <2>6 DEF Carried, n
  <1> QED BY <1>2, <1>3

(* While the connection holds, the window libssh2 keeps for the open        *)
(* channel and the one the server keeps for it differ by exactly what is    *)
(* under way and buffered, and no byte the server sent within its window    *)
(* was dropped or cut short by _libssh2_packet_add: for any sizes, any      *)
(* number of adjustments and any interleaving of the two directions.        *)
THEOREM WindowsAgree == Spec => []WindowAccounting
  <1>1. IInv => WindowAccounting
    <2> SUFFICES ASSUME IInv, ch.live, ~lost
                 PROVE  /\ ch.win = srv[k].win + Bytes(down, "data", ch.id) + ReadAvail
                                      + Bytes(up, "adjust", k)
                        /\ Sum(srv[k].size) - Sum(srv[k].left)
                              = Sum(ch.got) + ReadAvail + Bytes(down, "data", ch.id)
      BY DEF WindowAccounting
    <2>1. PICK f, u : Ledger(f, u)
      BY DEF IInv, BooksOK
    <2>2. PICK o, e, x, w, z, s1, s2, l1, l2, g1, g2, a1, a2 :
             /\ o = Carried(down, f["stdout"]) /\ e = Carried(down, f["stderr"]) /\ x = Carried(up, u)
             /\ w = srv[k].win /\ z = ch.win
             /\ s1 = srv[k].size["stdout"] /\ s2 = srv[k].size["stderr"]
             /\ l1 = srv[k].left["stdout"] /\ l2 = srv[k].left["stderr"]
             /\ g1 = ch.got["stdout"] /\ g2 = ch.got["stderr"]
             /\ a1 = ch.avail["stdout"] /\ a2 = ch.avail["stderr"]
      OBVIOUS
    <2>3. /\ o \in Nat /\ e \in Nat /\ x \in Nat /\ w \in Nat /\ z \in Nat
          /\ s1 \in Nat /\ s2 \in Nat /\ l1 \in Nat /\ l2 \in Nat
          /\ g1 \in Nat /\ g2 \in Nat /\ a1 \in Nat /\ a2 \in Nat
      BY <2>1, <2>2, BookFacts
    <2>4. Bytes(down, "data", ch.id) = o + e /\ Bytes(up, "adjust", k) = x
      BY <2>1, <2>2, BooksCount
    <2>5. ReadAvail = a1 + a2 /\ Sum(srv[k].size) = s1 + s2 /\ Sum(srv[k].left) = l1 + l2 /\ Sum(ch.got) = g1 + g2
      BY <2>2 DEF ReadAvail, Sum
    <2>6. w + x + o + e + (a1 + a2) = z
      BY <2>1, <2>2, <2>5 DEF Ledger, Fits
    <2>7. g1 + a1 + o = s1 - l1 /\ g2 + a2 + e = s2 - l2
      BY <2>1, <2>2 DEF Ledger, Streams, Reading
    <2>8. z = w + (o + e) + (a1 + a2) + x
      BY <2>3, <2>6
    <2>9. (s1 + s2) - (l1 + l2) = (g1 + g2) + (a1 + a2) + (o + e)
      BY <2>3, <2>7
    <2> QED BY <2>2, <2>4, <2>5, <2>8, <2>9
  <1> QED BY <1>1, Invariance, PTL

-----------------------------------------------------------------------------
(* The ends of a channel: an EOF or a CLOSE that the server sent is known   *)
(* to the client or under way, and so is the CLOSE that the client waits an *)
(* answer to.                                                               *)
Comes(q, type, to) == \E j \in 1..Len(q) : q[j].type = type /\ q[j].to = to

EndOK ==
    /\ ch.live => srv[k].size["stderr"] \in ErrSizes
    /\ ch.live /\ ~lost =>
          /\ srv[k].eof => Ended \/ Comes(down, "eof", ch.id)
          /\ srv[k].state = "closed" => ch.close \/ Comes(down, "close", ch.id)
    /\ stage = "closing" /\ ~lost =>
          /\ ~ch.close
          /\ srv[k].state = "closed" \/ Comes(up, "close", k)

LEMMA ComesAppended ==
  ASSUME NEW q \in Seq(PacketType), NEW m \in PacketType, NEW type, NEW to
  PROVE  /\ Comes(q, type, to) => Comes(Append(q, m), type, to)
         /\ m.type = type /\ m.to = to => Comes(Append(q, m), type, to)
  <1>1. /\ Len(Append(q, m)) = Len(q) + 1 /\ Len(q) \in Nat
        /\ Append(q, m)[Len(q) + 1] = m /\ \A j \in 1..Len(q) : Append(q, m)[j] = q[j]
    OBVIOUS
  <1>2. \A j \in 1..Len(q) : j \in 1..Len(Append(q, m))
    BY <1>1
  <1>3. Len(q) + 1 \in 1..Len(Append(q, m))
    BY <1>1
  <1> QED BY <1>1, <1>2, <1>3 DEF Comes

LEMMA ComesTaken ==
  ASSUME NEW q \in Seq(PacketType), q # <<>>, NEW type, NEW to, Comes(q, type, to)
  PROVE  (Head(q).type = type /\ Head(q).to = to) \/ Comes(Tail(q), type, to)
  <1>1. /\ Len(q) \in Nat /\ Len(Tail(q)) = Len(q) - 1 /\ Head(q) = q[1]
        /\ \A j \in 1..(Len(q) - 1) : Tail(q)[j] = q[j + 1]
    OBVIOUS
  <1>2. PICK j \in 1..Len(q) : q[j].type = type /\ q[j].to = to
    BY DEF Comes
  <1>3. CASE j = 1
    BY <1>1, <1>2, <1>3
  <1>4. CASE j # 1
    <2>1. j - 1 \in 1..Len(Tail(q)) /\ (j - 1) + 1 = j
      BY <1>1, <1>4
    <2>2. Tail(q)[j - 1] = q[j]
      BY <1>1, <2>1
    <2> QED BY <1>2, <2>1, <2>2 DEF Comes
  <1> QED BY <1>3, <1>4

(* Only a CLOSE of its own closes a channel.                                *)
LEMMA CloseSeen ==
  ASSUME NEW h, NEW c, ch \in ChannelType, ch.live, DownPacket(h), c = PacketAdded(ch, h)
  PROVE  c.close <=> ch.close \/ (h.to = ch.id /\ h.type = "close")
  <1>1. CASE h.to # ch.id
    BY <1>1 DEF PacketAdded
  <1>2. CASE h.to = ch.id /\ h.type = "data"
    <2>1. c = DataAdded(ch, h)
      BY <1>2 DEF PacketAdded
    <2>2. PICK n : n = Least(Least(h.n, MaxPacket), ch.win - ReadAvail)
      OBVIOUS
    <2>3. c = ch \/ c = [ch EXCEPT !.eof = FALSE, !.avail[h.stream] = @ + n]
      BY <2>1, <2>2 DEF DataAdded
    <2>4. c.close = ch.close
      BY <2>3 DEF ChannelType
    <2> QED BY <1>2, <2>4
  <1>3. CASE h.to = ch.id /\ h.type = "eof"
    <2>1. c = [ch EXCEPT !.eof = TRUE]
      BY <1>3 DEF PacketAdded
    <2> QED BY <1>3, <2>1 DEF ChannelType
  <1>4. CASE h.to = ch.id /\ h.type = "status"
    <2>1. c = [ch EXCEPT !.status = h.n]
      BY <1>4 DEF PacketAdded
    <2> QED BY <1>4, <2>1 DEF ChannelType
  <1>5. CASE h.to = ch.id /\ h.type = "close"
    <2>1. c = [ch EXCEPT !.close = TRUE, !.eof = TRUE]
      BY <1>5 DEF PacketAdded
    <2> QED BY <1>5, <2>1 DEF ChannelType
  <1>6. CASE h.to = ch.id /\ h.type = "other"
    BY <1>6 DEF PacketAdded
  <1> QED BY <1>1, <1>2, <1>3, <1>4, <1>5, <1>6 DEF DownPacket

(* A step of the server, as far as the ends are concerned.                  *)
ServerEnds ==
    /\ UNCHANGED <<client, lost>>
    /\ srv'[k].size = srv[k].size
    /\ srv'[k].eof => srv[k].eof \/ Comes(down, "eof", ch.id)'
    /\ srv'[k].state = "closed" => srv[k].state = "closed" \/ Comes(down, "close", ch.id)'
    /\ srv[k].state = "closed" => srv'[k].state = "closed"
    /\ Comes(down, "eof", ch.id) => Comes(down, "eof", ch.id)'
    /\ Comes(down, "close", ch.id) => Comes(down, "close", ch.id)'
    /\ Comes(up, "close", k) => srv'[k].state = "closed" \/ Comes(up, "close", k)'

LEMMA ServerEndsKeeps ==
  ASSUME EndOK, ServerEnds
  PROVE  EndOK'
  <1>1. UNCHANGED <<stage, k, ch, lost>>
    BY DEF ServerEnds, client
  <1> QED BY <1>1 DEF EndOK, ServerEnds, Ended

(* A packet the server sends of its own accord.                             *)
LEMMA ServerSends ==
  ASSUME IInv, ch.live, NEW c \in 1..NumCommands, NEW m \in PacketType, NEW p,
         ~lost, UNCHANGED <<client, up, lost>>, down' = Append(down, m), srv' = [srv EXCEPT ![c] = p],
         p.size = srv[c].size,
         p.eof => srv[c].eof \/ (m.type = "eof" /\ m.to = srv[c].id),
         p.state = "closed" => srv[c].state = "closed" \/ (m.type = "close" /\ m.to = srv[c].id),
         srv[c].state = "closed" => p.state = "closed"
  PROVE  ServerEnds
  <1>1. /\ TypeOK /\ k \in 1..NumCommands /\ ch.id = k - 1 /\ UNCHANGED <<stage, k, ch, next, closeOk, results>>
        /\ k <= Opened
    <2>1. TypeOK /\ k \in 1..NumCommands /\ ch.id = k - 1 /\ stage \notin {"open", "failed"}
      BY DEF IInv, LoopOK
    <2> QED BY <2>1 DEF client, Opened
  <1>2. srv[k].id = ch.id
    BY <1>1 DEF IInv, ServersOK
  <1>3. down \in Seq(PacketType) /\ srv \in [1..NumCommands -> ProcessType]
    BY <1>1, Types
  <1>4. srv'[k] = IF c = k THEN p ELSE srv[k]
    BY <1>1, <1>3
  <1>5. \A type, to : /\ Comes(down, type, to) => Comes(down', type, to)
                      /\ m.type = type /\ m.to = to => Comes(down', type, to)
    BY <1>3, ComesAppended
  <1>6. \A type : Comes(down, type, ch.id)' <=> Comes(down', type, ch.id)
    BY <1>1 DEF Comes
  <1>7. Comes(up, "close", k)' <=> Comes(up, "close", k)
    BY <1>1 DEF Comes
  <1> QED BY <1>1, <1>2, <1>4, <1>5, <1>6, <1>7 DEF ServerEnds

LEMMA ServerStepEnds ==
  ASSUME IInv, EndOK, NEW c \in 1..NumCommands, Server(c)
  PROVE  EndOK'
  <1>1. /\ srv[c].state = "running" /\ ~lost /\ UNCHANGED <<client, up, lost>>
    BY DEF Server, ServerData, ServerEof, ServerStatus, ServerClose, Running
  <1>2. CASE ~ch.live
    <2>1. UNCHANGED <<stage, k, ch, lost>>
      BY <1>1 DEF client
    <2>2. stage # "closing"
      BY <1>2 DEF IInv, LoopOK
    <2> QED BY <1>2, <2>1, <2>2 DEF EndOK
  <1>3. CASE ch.live
    <2>1. srv \in [1..NumCommands -> ProcessType] /\ srv[c] \in ProcessType
      BY Types DEF IInv
    <2>2. c <= Opened /\ srv[c].id = c - 1 /\ c \in Nat \ {0}
      BY <1>1, OpenServer
    <2>3. ASSUME NEW s \in Streams, ServerData(c, s) PROVE ServerEnds
      <3>1. PICK n \in 1..Least(Least(srv[c].left[s], srv[c].win), MaxPacket) :
               /\ srv' = [srv EXCEPT ![c].left[s] = @ - n, ![c].win = @ - n]
               /\ down' = Append(down, Packet("data", srv[c].id, s, n))
        BY <2>3 DEF ServerData
      <3>2. n \in Nat
        <4>1. srv[c].left[s] \in Nat /\ srv[c].win \in Nat /\ MaxPacket \in Nat
          BY <2>1, SshChannelAssumption DEF ProcessType
        <4> QED BY <4>1 DEF Least
      <3> DEFINE p == [srv[c] EXCEPT !.left[s] = @ - n, !.win = @ - n]
                 m == Packet("data", srv[c].id, s, n)
      <3>3. srv' = [srv EXCEPT ![c] = p]
        BY <2>1, <3>1, Zenon
      <3>4. p.size = srv[c].size /\ p.eof = srv[c].eof /\ p.state = srv[c].state
        BY <2>1 DEF ProcessType
      <3>5. m \in PacketType
        BY <2>2, <3>2 DEF Packet, PacketType
      <3>6. down' = Append(down, m)
        BY <3>1
      <3> HIDE DEF p, m
      <3> QED BY <1>1, <1>3, <3>3, <3>4, <3>5, <3>6, ServerSends
    <2>4. ASSUME ServerEof(c) PROVE ServerEnds
      <3> DEFINE p == [srv[c] EXCEPT !.eof = TRUE]
                 m == Packet("eof", srv[c].id, "none", 0)
      <3>1. srv' = [srv EXCEPT ![c] = p] /\ down' = Append(down, m)
        BY <2>1, <2>4, Zenon DEF ServerEof
      <3>2. p.size = srv[c].size /\ p.state = srv[c].state
        BY <2>1 DEF ProcessType
      <3>3. m \in PacketType /\ m.type = "eof" /\ m.to = srv[c].id
        BY <2>2 DEF Packet, PacketType
      <3> HIDE DEF p, m
      <3> QED BY <1>1, <1>3, <3>1, <3>2, <3>3, ServerSends
    <2>5. ASSUME ServerStatus(c) PROVE ServerEnds
      <3> DEFINE p == [srv[c] EXCEPT !.exited = TRUE]
                 m == Packet("status", srv[c].id, "none", Code(c))
      <3>1. srv' = [srv EXCEPT ![c] = p] /\ down' = Append(down, m)
        BY <2>1, <2>5, Zenon DEF ServerStatus
      <3>2. p.size = srv[c].size /\ p.eof = srv[c].eof /\ p.state = srv[c].state
        BY <2>1 DEF ProcessType
      <3>3. m \in PacketType
        BY <2>2 DEF Packet, PacketType, Code
      <3> HIDE DEF p, m
      <3> QED BY <1>1, <1>3, <3>1, <3>2, <3>3, ServerSends
    <2>6. ASSUME ServerClose(c) PROVE ServerEnds
      <3> DEFINE p == [srv[c] EXCEPT !.state = "closed"]
                 m == Packet("close", srv[c].id, "none", 0)
      <3>1. srv' = [srv EXCEPT ![c] = p] /\ down' = Append(down, m)
        BY <2>1, <2>6, Zenon DEF ServerClose
      <3>2. p.size = srv[c].size /\ p.eof = srv[c].eof /\ p.state = "closed"
        BY <2>1 DEF ProcessType
      <3>3. m \in PacketType /\ m.type = "close" /\ m.to = srv[c].id
        BY <2>2 DEF Packet, PacketType
      <3> HIDE DEF p, m
      <3> QED BY <1>1, <1>3, <3>1, <3>2, <3>3, ServerSends
    <2> QED BY <2>3, <2>4, <2>5, <2>6, ServerEndsKeeps DEF Server
  <1> QED BY <1>2, <1>3, Types DEF IInv

(* The CLOSE the client sent is answered, if the server's was not sent.     *)
LEMMA ServerReceiveEnds ==
  ASSUME IInv, EndOK, ServerReceive
  PROVE  EndOK'
  <1> DEFINE h == Head(up)
             c == h.to
  <1>1. /\ up # <<>> /\ ~lost /\ up' = Tail(up) /\ UNCHANGED <<client, lost>>
        /\ \/ /\ h.type = "adjust"
              /\ srv' = [srv EXCEPT ![c].win = @ + h.n]
              /\ UNCHANGED down
           \/ /\ h.type = "close" /\ srv[c].state = "running"
              /\ srv' = [srv EXCEPT ![c].state = "closed"]
              /\ down' = Append(down, Packet("close", srv[c].id, "none", 0))
           \/ /\ h.type = "close" /\ srv[c].state = "closed"
              /\ UNCHANGED <<srv, down>>
    BY DEF ServerReceive
  <1>2. TypeOK /\ up \in Seq(PacketType) /\ down \in Seq(PacketType) /\ h = up[1] /\ 1 \in 1..Len(up)
    BY <1>1, Types DEF IInv
  <1>3. UpPacket(h)
    BY <1>2 DEF IInv, QueuesOK
  <1>4. c \in 1..NumCommands /\ k \in 1..NumCommands
    <2>1. k \in 1..NumCommands /\ Opened <= k /\ Opened \in Int
      BY Types DEF IInv, LoopOK, Opened
    <2> QED BY <1>3, <2>1, SshChannelAssumption DEF UpPacket
  <1>5. srv \in [1..NumCommands -> ProcessType] /\ srv[c] \in ProcessType
    BY <1>2, <1>4, Types
  <1>6. UNCHANGED <<stage, k, ch, lost>>
    BY <1>1 DEF client
  <1>7. CASE ~ch.live
    <2>1. stage # "closing"
      BY <1>7 DEF IInv, LoopOK
    <2> QED BY <1>6, <1>7, <2>1 DEF EndOK
  <1>8. CASE ch.live
    <2>1. Comes(up, "close", k) => (h.type = "close" /\ c = k) \/ Comes(up', "close", k)
      BY <1>1, <1>2, ComesTaken
    <2>2. ch.id = k - 1 /\ k <= Opened
      <3>1. stage \notin {"open", "failed"} /\ ch.id = k - 1
        BY <1>8 DEF IInv, LoopOK
      <3> QED BY <1>4, <3>1 DEF Opened
    <2>3. srv[k].id = ch.id
      BY <1>4, <2>2 DEF IInv, ServersOK
    <2> HIDE DEF h, c
    <2>4. /\ srv'[k].size = srv[k].size /\ srv'[k].eof = srv[k].eof
          /\ srv'[k].state = "closed" => srv[k].state = "closed" \/ Comes(down', "close", ch.id)
          /\ srv[k].state = "closed" => srv'[k].state = "closed"
          /\ h.type = "close" /\ c = k => srv'[k].state = "closed"
          /\ \A type : Comes(down, type, ch.id) => Comes(down', type, ch.id)
      <3>1. CASE h.type = "adjust" /\ srv' = [srv EXCEPT ![c].win = @ + h.n] /\ down' = down
        <4>1. PICK b : b = srv[c].win + h.n
          OBVIOUS
        <4>2. srv' = [srv EXCEPT ![c] = [srv[c] EXCEPT !.win = b]]
          BY <1>5, <3>1, <4>1, Zenon
        <4>3. PICK p : p = [srv[c] EXCEPT !.win = b]
          OBVIOUS
        <4>4. p.size = srv[c].size /\ p.eof = srv[c].eof /\ p.state = srv[c].state
          BY <1>5, <4>3 DEF ProcessType
        <4>5. srv'[k] = IF c = k THEN p ELSE srv[k]
          BY <1>4, <1>5, <4>2, <4>3
        <4> QED BY <3>1, <4>4, <4>5
      <3>2. CASE /\ h.type = "close" /\ srv[c].state = "running"
                 /\ srv' = [srv EXCEPT ![c].state = "closed"]
                 /\ down' = Append(down, Packet("close", srv[c].id, "none", 0))
        <4>1. PICK p : p = [srv[c] EXCEPT !.state = "closed"]
          OBVIOUS
        <4>2. srv' = [srv EXCEPT ![c] = p]
          BY <1>5, <3>2, <4>1, Zenon
        <4>3. p.size = srv[c].size /\ p.eof = srv[c].eof /\ p.state = "closed"
          BY <1>5, <4>1 DEF ProcessType
        <4>4. srv'[k] = IF c = k THEN p ELSE srv[k]
          BY <1>4, <1>5, <4>2
        <4>5. PICK m : m = Packet("close", srv[c].id, "none", 0)
          OBVIOUS
        <4>6. m \in PacketType /\ m.type = "close" /\ m.to = srv[c].id
          <5>1. srv[c].id \in Nat
            BY <1>5 DEF ProcessType
          <5> QED BY <4>5, <5>1 DEF Packet, PacketType
        <4>7. \A type, to : /\ Comes(down, type, to) => Comes(down', type, to)
                            /\ m.type = type /\ m.to = to => Comes(down', type, to)
          BY <1>2, <3>2, <4>5, <4>6, ComesAppended
        <4> QED BY <2>3, <4>3, <4>4, <4>6, <4>7
      <3>3. CASE h.type = "close" /\ srv[c].state = "closed" /\ srv' = srv /\ down' = down
        BY <3>3
      <3> QED BY <1>1, <3>1, <3>2, <3>3 DEF h, c
    <2>5. /\ \A type : Comes(down, type, ch.id)' <=> Comes(down', type, ch.id)
          /\ Comes(up, "close", k)' <=> Comes(up', "close", k)
      BY <1>6 DEF Comes
    <2>6. ServerEnds
      BY <1>1, <2>1, <2>4, <2>5 DEF ServerEnds
    <2> QED BY <2>6, ServerEndsKeeps
  <1> QED BY <1>2, <1>7, <1>8, Types

LEMMA NoiseEnds ==
  ASSUME IInv, EndOK, Noise
  PROVE  EndOK'
  <1>1. PICK m : m = Packet("other", -1, "none", 0)
    OBVIOUS
  <1>2. m \in PacketType /\ down' = Append(down, m) /\ UNCHANGED <<client, srv, up, lost>>
    BY <1>1 DEF Packet, PacketType, Noise
  <1>3. UNCHANGED <<stage, k, ch, lost, srv, up>>
    BY <1>2 DEF client
  <1>4. down \in Seq(PacketType)
    BY Types DEF IInv
  <1>5. \A type : Comes(down, type, ch.id) => Comes(down', type, ch.id)
    BY <1>2, <1>4, ComesAppended
  <1>6. /\ \A type : Comes(down, type, ch.id)' <=> Comes(down', type, ch.id)
        /\ Comes(up, "close", k)' <=> Comes(up, "close", k)
    BY <1>3 DEF Comes
  <1> QED BY <1>3, <1>5, <1>6 DEF EndOK, Ended

(* The packet that ends a channel is not forgotten.                         *)
LEMMA ReceiveEnds ==
  ASSUME IInv, EndOK, Receive
  PROVE  EndOK'
  <1> DEFINE h == Head(down)
  <1>1. /\ down # <<>> /\ ch' = PacketAdded(ch, h) /\ down' = Tail(down) /\ stage' # "closing"
        /\ UNCHANGED <<k, srv, lost>>
    BY DEF Receive, Reading
  <1>2. /\ TypeOK /\ down \in Seq(PacketType) /\ h = down[1] /\ 1 \in 1..Len(down)
    BY <1>1, Types DEF IInv
  <1>3. CASE ~ch.live
    <2>1. ch' = ch
      BY <1>1, <1>3 DEF PacketAdded
    <2> QED BY <1>1, <1>3, <2>1 DEF EndOK
  <1>4. CASE ch.live
    <2>1. PICK f, u : Ledger(f, u)
      BY <1>4 DEF IInv, BooksOK
    <2>2. PICK c : c = ch'
      OBVIOUS
    <2>3. c.live = ch.live /\ c.id = ch.id /\ ((c.eof \/ c.close) <=> (Ended \/ Ends(h)))
      BY <1>1, <1>4, <2>1, <2>2, PacketEffects
    <2>4. c.close <=> ch.close \/ (h.to = ch.id /\ h.type = "close")
      <3>1. ch \in ChannelType
        BY <1>2 DEF TypeOK, ChannelType
      <3>2. DownPacket(h)
        BY <1>2 DEF IInv, QueuesOK
      <3> QED BY <1>1, <1>4, <2>2, <3>1, <3>2, CloseSeen
    <2>5. \A type : Comes(down, type, ch.id) => (h.type = type /\ h.to = ch.id) \/ Comes(down', type, ch.id)
      BY <1>1, <1>2, ComesTaken
    <2>6. \A type : Comes(down, type, ch.id)' <=> Comes(down', type, ch.id)
      BY <2>2, <2>3 DEF Comes
    <2>7. Ended' <=> Ended \/ Ends(h)
      BY <2>2, <2>3 DEF Ended
    <2> HIDE DEF h
    <2> QED BY <1>1, <1>4, <2>2, <2>4, <2>5, <2>6, <2>7 DEF EndOK, Ends
  <1> QED BY <1>2, <1>3, <1>4, Types

LEMMA OpenEnds ==
  ASSUME IInv, EndOK, Open
  PROVE  EndOK'
  <1>1. stage' = "stdout" /\ k' = k
    BY DEF Open
  <1>2. PICK out \in OutSizes, err \in ErrSizes :
           srv' = [srv EXCEPT ![k] = Process(next, [s \in Streams |-> IF s = "stdout" THEN out ELSE err])]
    BY DEF Open
  <1>3. PICK size : size = [s \in Streams |-> IF s = "stdout" THEN out ELSE err]
    OBVIOUS
  <1>4. size["stderr"] = err
    BY <1>3 DEF Streams, Reading
  <1>5. srv'[k] = Process(next, size)
    <2>1. srv \in [1..NumCommands -> ProcessType] /\ k \in 1..NumCommands
      BY Types DEF IInv, LoopOK
    <2> QED BY <1>2, <1>3, <2>1
  <1>6. srv'[k].size = size /\ ~srv'[k].eof /\ srv'[k].state = "running"
    BY <1>5 DEF Process
  <1> QED BY <1>1, <1>4, <1>6 DEF EndOK

(* The other steps of the client.                                           *)
LEMMA ClientEnds ==
  ASSUME IInv, EndOK,
         \/ OpenFails \/ ExpandWindow \/ ReadData("stdout") \/ ReadData("stderr")
         \/ ReadEnd("stdout", "stderr") \/ ReadEnd("stderr", "close")
         \/ ReadFails \/ SendClose \/ CloseFails \/ Finish
  PROVE  EndOK'
  <1>1. TypeOK /\ ch \in ChannelType /\ up \in Seq(PacketType) /\ k \in Nat
    BY Types DEF IInv, TypeOK, ChannelType
  <1>2. CASE OpenFails \/ ReadEnd("stdout", "stderr") \/ ReadEnd("stderr", "close") \/ ReadFails \/ CloseFails
    <2>1. UNCHANGED <<k, ch, srv, down, lost>> /\ stage' # "closing"
      BY <1>2 DEF OpenFails, ReadEnd, ReadFails, CloseFails
    <2> QED BY <2>1 DEF EndOK, Ended, Comes
  <1>3. CASE ExpandWindow
    <2>1. UNCHANGED <<stage, k, srv, down, lost>> /\ stage # "closing" /\ ch' = [ch EXCEPT !.win = Refilled]
      BY <1>3 DEF ExpandWindow, Reading
    <2>2. ch'.live = ch.live /\ ch'.id = ch.id /\ ch'.eof = ch.eof /\ ch'.close = ch.close
      BY <1>1, <2>1 DEF ChannelType
    <2> QED BY <2>1, <2>2 DEF EndOK, Ended, Comes
  <1>4. ASSUME NEW s \in Streams, ReadData(s) PROVE EndOK'
    <2>1. UNCHANGED <<stage, k, srv, down, lost>> /\ stage # "closing"
      BY <1>4 DEF ReadData, Streams, Reading
    <2>2. PICK n : ch' = [ch EXCEPT !.got[s] = @ + n, !.avail[s] = @ - n, !.win = @ - n]
      BY <1>4 DEF ReadData
    <2>3. ch'.live = ch.live /\ ch'.id = ch.id /\ ch'.eof = ch.eof /\ ch'.close = ch.close
      BY <1>1, <2>2 DEF ChannelType
    <2> QED BY <2>1, <2>3 DEF EndOK, Ended, Comes
  <1>5. CASE SendClose
    <2>1. /\ UNCHANGED <<k, ch, srv, down, lost>>
          /\ up' = IF lost THEN up ELSE Append(up, Packet("close", k, "none", 0))
          /\ stage' = IF lost \/ ch.close THEN "status" ELSE "closing"
      BY <1>5 DEF SendClose
    <2>2. PICK m : m = Packet("close", k, "none", 0)
      OBVIOUS
    <2>3. m \in PacketType /\ m.type = "close" /\ m.to = k
      BY <1>1, <2>2 DEF Packet, PacketType
    <2>4. ~lost => Comes(up', "close", k)
      BY <1>1, <2>1, <2>2, <2>3, ComesAppended
    <2>5. /\ Comes(up, "close", k)' <=> Comes(up', "close", k)
          /\ \A type : Comes(down, type, ch.id)' <=> Comes(down, type, ch.id)
      BY <2>1 DEF Comes
    <2> QED BY <2>1, <2>4, <2>5 DEF EndOK, Ended
  <1>6. CASE Finish
    <2>1. ~ch'.live /\ stage' # "closing"
      <3>1. PICK a : ch' = [ch EXCEPT !.live = FALSE, !.avail = a]
        BY <1>6 DEF Finish
      <3> QED BY <1>1, <1>6, <3>1 DEF Finish, ChannelType
    <2> QED BY <2>1 DEF EndOK
  <1> QED BY <1>2, <1>3, <1>4, <1>5, <1>6 DEF Streams, Reading

(* Whatever the order of EOF, status and CLOSE, an end the server announced *)
(* has reached the client or is on its way, and a client that waits in      *)
(* libssh2_channel_close has its CLOSE on the way or answered.              *)
THEOREM EndsArrive == Spec => []EndOK
  <1>1. Init => EndOK
    BY DEF Init, EndOK, Channel
  <1>2. IInv /\ EndOK /\ [Next]_vars => EndOK'
    <2> SUFFICES ASSUME IInv, EndOK, [Next]_vars PROVE EndOK'
      OBVIOUS
    <2>1. CASE Client
      BY <2>1, OpenEnds, ReceiveEnds, ClientEnds DEF Client
    <2>2. ASSUME NEW c \in 1..NumCommands, Server(c) PROVE EndOK'
      BY <2>2, ServerStepEnds
    <2>3. CASE ServerReceive
      BY <2>3, ServerReceiveEnds
    <2>4. CASE Noise
      BY <2>4, NoiseEnds
    <2>5. CASE Lose
      BY <2>5 DEF Lose, client, EndOK
    <2>6. CASE UNCHANGED vars
      BY <2>6 DEF vars, client, EndOK, Ended, Comes
    <2> QED BY <2>1, <2>2, <2>3, <2>4, <2>5, <2>6 DEF Next
  <1> QED BY <1>1, <1>2, Invariance, PTL DEF Spec

(* Client and server never wait for one another (channel.c, lines 1764 to   *)
(* 1903 and 2292 to 2370): while the client waits for a packet, one is      *)
(* under way, or the process has something to send and the window for it,   *)
(* or has yet to report its end.  The window is there because what the      *)
(* client has not read of stderr is less than the refill keeps it at.       *)
THEOREM NobodyIsStuck == Spec => []NeverStuck
  <1>1. IInv /\ EndOK => NeverStuck
    <2> SUFFICES ASSUME IInv, EndOK, StderrFits, ~lost, Waiting, down = <<>>, up = <<>>
                 PROVE  \/ Running(k) /\ \E s \in Streams : srv[k].left[s] > 0 /\ srv[k].win > 0
                        \/ Running(k) /\ Written(k) /\ ~(srv[k].eof /\ srv[k].exited)
      BY DEF NeverStuck
    <2>1. TypeOK /\ k \in 1..NumCommands /\ Len(down) = 0 /\ Len(up) = 0
      BY DEF IInv, LoopOK
    <2>2. (\A type, to : ~Comes(down, type, to)) /\ (\A type, to : ~Comes(up, type, to))
      BY <2>1 DEF Comes
    <2>3. ch.live
      BY DEF Waiting, Reading, IInv, LoopOK
    <2>4. stage # "closing"
      BY <2>2, <2>3 DEF EndOK
    <2>5. stage \in Reading /\ ~Low /\ ch.avail[stage] = 0 /\ ~Ended
      BY <2>4 DEF Waiting, Ended
    <2>6. stage = "stdout"
      BY <2>5 DEF IInv, ReadOK, Reading
    <2>7. ~srv[k].eof /\ srv[k].state # "closed"
      BY <2>2, <2>3, <2>5 DEF EndOK, Ended
    <2>8. Running(k)
      <3>1. Opened = k /\ srv[k] \in ProcessType /\ ~(k > k)
        <4>1. k \in Nat /\ srv \in [1..NumCommands -> ProcessType]
          BY <2>1, Types
        <4>2. ~(k > k)
          BY <4>1
        <4> QED BY <2>1, <2>6, <4>1, <4>2 DEF Opened
      <3>2. srv[k].state # "none"
        BY <2>1, <3>1 DEF IInv, ServersOK
      <3> QED BY <2>7, <3>1, <3>2 DEF Running, ProcessType
    <2>9. CASE Written(k)
      BY <2>7, <2>8, <2>9
    <2>10. CASE ~Written(k)
      <3>1. \E s \in Streams : srv[k].left[s] > 0
        <4>1. srv[k].left \in [Streams -> Nat]
          BY <2>1, Types DEF ProcessType
        <4>2. PICK s \in Streams : srv[k].left[s] # 0
          BY <2>10, <4>1 DEF Written
        <4> QED BY <4>1, <4>2
      <3>2. PICK f, u : Ledger(f, u)
        BY <2>3 DEF IInv, BooksOK
      <3>3. PICK o, e, x, w, z, g, a, n, l, t :
               /\ o = Carried(down, f["stdout"]) /\ e = Carried(down, f["stderr"]) /\ x = Carried(up, u)
               /\ w = srv[k].win /\ z = ch.win /\ g = ch.got["stderr"] /\ a = ch.avail["stderr"]
               /\ n = srv[k].size["stderr"] /\ l = srv[k].left["stderr"] /\ t = (Window \div 4) * 3 + Buf
        OBVIOUS
      <3>4. /\ w \in Nat /\ z \in Nat /\ g \in Nat /\ a \in Nat /\ n \in Nat /\ l \in Nat
        BY <2>3, <3>2, <3>3, BookFacts
      <3>5. o = 0 /\ e = 0 /\ x = 0
        <4>1. /\ Tally(down, f["stdout"], "data", ch.id, "stdout")
              /\ Tally(down, f["stderr"], "data", ch.id, "stderr")
              /\ Tally(up, u, "adjust", k, "none")
          BY <3>2 DEF Ledger, Streams, Reading
        <4>2. f["stdout"][0] \in Nat /\ f["stderr"][0] \in Nat /\ u[0] \in Nat
          BY <2>1, <4>1 DEF Tally
        <4> QED BY <2>1, <3>3, <4>2 DEF Carried
      <3>6. ReadAvail = 0 + a
        BY <2>5, <2>6, <3>3 DEF ReadAvail
      <3>7. w + 0 + 0 + 0 + (0 + a) = z
        BY <3>2, <3>3, <3>5, <3>6 DEF Ledger, Fits
      <3>8. g + a + 0 = n - l
        BY <3>2, <3>3, <3>5 DEF Ledger, Streams, Reading
      <3>9. n < t
        BY <2>3, <3>3 DEF EndOK, StderrFits
      <3>10. t <= z /\ t \in Int
        <4>1. (Window \div 4) * 3 + Buf <= ch.win
          BY <2>1, <2>5, Refills DEF Low
        <4>2. Window \in Nat /\ Buf \in Nat
          BY SshChannelAssumption
        <4> QED BY <3>3, <4>1, <4>2
      <3>11. w > 0
        BY <3>4, <3>7, <3>8, <3>9, <3>10
      <3> QED BY <2>8, <3>1, <3>3, <3>11
    <2> QED BY <2>9, <2>10
  <1> QED BY <1>1, Invariance, EndsArrive, PTL

=============================================================================
