------------------------- MODULE PacketReaderProofs -------------------------
(***************************************************************************)
(* PacketReader for any header, block, MAC and buffer sizes and any        *)
(* packets.  Every byte has a place in the stream the server sent; the     *)
(* invariant asks for the places where packets start, so that they need    *)
(* not be computed by induction, and says that what is under way, what can *)
(* be received and what is buffered follow one another in the stream, from *)
(* the place up to which the reader has collected.                         *)
(***************************************************************************)
EXTENDS PacketReader, TLAPS

(* Where the packets start: packet k at start[k].                           *)
Starts(start) ==
    /\ start \in [1..(Len(sizes) + 1) -> Nat]
    /\ start[1] = 0
    /\ \A k \in 1..Len(sizes) : start[k + 1] = start[k] + WireSize(k, sizes[k])
    /\ \A i, j \in 1..(Len(sizes) + 1) : i <= j => start[i] <= start[j]

(* b is the byte at place p of the stream.                                  *)
At(start, b, p) ==
    \E k \in 1..Len(sizes) :
        /\ start[k] <= p /\ p < start[k + 1]
        /\ b = IF Sealed(k) /\ p - start[k] < sizes[k]
               THEN <<k, p - start[k], TRUE>> ELSE <<k, p - start[k], FALSE>>

(* The bytes of s are those of the stream from place p on.                  *)
Lies(start, s, p) == \A j \in 1..Len(s) : At(start, s[j], p + j - 1)

(* The packet that is being collected or comes next.                        *)
Current == Len(added) + 1

(* The place up to which the reader has collected.                          *)
Here(start) ==
    start[Current] + (IF total_num = 0 THEN 0 ELSE Header + data_num)

Layout(start) ==
    /\ Starts(start)
    /\ Lies(start, buf, Here(start))
    /\ Lies(start, net, Here(start) + Len(buf))
    /\ Lies(start, coming, Here(start) + Len(buf) + Len(net))
    /\ ~lost => Here(start) + Len(buf) + Len(net) + Len(coming) = start[Len(sizes) + 1]

LayoutOK == pc # "failed" => \E start : Layout(start)

(* What has been collected of the current packet: it is in clear, and ends  *)
(* at a block of the packet or in its MAC.                                  *)
Collecting ==
    /\ head = Current /\ head <= Len(sizes)
    /\ total_num = WireSize(head, sizes[head]) - Header
    /\ \A j \in 1..data_num : payload[j] = <<head, Header + j - 1, FALSE>>
    /\ encrypted /\ data_num <= total_num - Mac => (Header + data_num) % Block = 0

CollectOK ==
    /\ total_num = 0 => payload = <<>>
    /\ total_num # 0 => Collecting
    /\ pc \in {"caller", "head"} => total_num = 0
    /\ pc \in {"body", "full", "jump1"} => total_num # 0
    /\ pc \in {"full", "jump1"} => data_num = total_num

(* The sequence number is the number of packets handed on, and one more     *)
(* while one is being handed on for which it was counted already.           *)
CountOK ==
    /\ seqno = Len(added) + (IF created THEN 1 ELSE 0)
    /\ created => pc \in {"full", "jump1"}
    /\ pc = "jump1" => created

IInv ==
    TypeOK /\ PacketsWhole /\ FailureCauses /\ LayoutOK /\ CollectOK /\ CountOK

-----------------------------------------------------------------------------
(* Multiples of the block size.                                             *)
LEMMA Divides ==
  ASSUME NEW a \in Int, NEW B \in Nat \ {0}
  PROVE  a = B * (a \div B) + (a % B) /\ a % B \in Nat /\ a % B < B /\ a \div B \in Int
  OBVIOUS

LEMMA Multiple ==
  ASSUME NEW q \in Int, NEW B \in Nat \ {0}
  PROVE  (B * q) % B = 0
  <1>1. PICK x : x = B * q
    OBVIOUS
  <1>2. x \in Int
    BY <1>1
  <1>3. PICK d \in Int, r \in Nat : x = B * d + r /\ r < B /\ r = x % B
    BY <1>2, Divides
  <1>4. PICK e \in Int : e = q - d
    OBVIOUS
  <1>5. B * e = r
    BY <1>1, <1>3, <1>4
  <1>6. CASE e >= 1
    <2>1. B * e >= B
      BY <1>6
    <2> QED BY <1>3, <1>5, <2>1
  <1>7. CASE e <= -1
    <2>1. B * e <= -B
      BY <1>7
    <2> QED BY <1>3, <1>5, <2>1
  <1>8. CASE e = 0
    <2>1. B * e = 0
      BY <1>8
    <2> QED BY <1>1, <1>3, <1>5, <2>1
  <1> QED BY <1>4, <1>6, <1>7, <1>8

LEMMA Sums ==
  ASSUME NEW a \in Int, NEW b \in Int, NEW B \in Nat \ {0}, a % B = 0, b % B = 0
  PROVE  (a + b) % B = 0 /\ (a - b) % B = 0
  <1> DEFINE p == a \div B
             q == b \div B
  <1>1. p \in Int /\ a = B * p + (a % B)
    BY Divides
  <1>2. q \in Int /\ b = B * q + (b % B)
    BY Divides
  <1> HIDE DEF p, q
  <1>3. a + b = B * (p + q) /\ a - b = B * (p - q) /\ p + q \in Int /\ p - q \in Int
    BY <1>1, <1>2
  <1> QED BY <1>3, Multiple

LEMMA Whole ==
  ASSUME NEW n \in Nat, NEW B \in Nat \ {0}
  PROVE  (n - (n % B)) % B = 0 /\ n - (n % B) \in Nat /\ n - (n % B) <= n
  <1> DEFINE q == n \div B
             r == n % B
  <1>1. q \in Int /\ r \in Nat /\ n = B * q + r /\ r < B /\ n \in Int
    BY Divides
  <1>a. r = n % B
    OBVIOUS
  <1> HIDE DEF q, r
  <1>2. n - r = B * q
    BY <1>1
  <1>3. q >= 0
    <2>1. CASE q <= -1
      <3>1. B * q <= -B
        BY <1>1, <2>1
      <3> QED BY <1>1, <3>1
    <2> QED BY <1>1, <2>1
  <1>4. B * q >= 0
    BY <1>1, <1>3
  <1>5. (B * q) % B = 0
    BY <1>1, Multiple
  <1>6. (n - r) % B = 0 /\ n - r \in Nat /\ n - r <= n
    BY <1>1, <1>2, <1>4, <1>5
  <1> QED BY <1>a, <1>6


-----------------------------------------------------------------------------
(* Parts of sequences.                                                      *)
LEMMA TakeFacts ==
  ASSUME NEW T, NEW s \in Seq(T), NEW n \in 0..Len(s)
  PROVE  /\ Take(s, n) \in Seq(T) /\ Len(Take(s, n)) = n
         /\ \A j \in 1..n : Take(s, n)[j] = s[j]
  BY DEF Take

LEMMA SkipFacts ==
  ASSUME NEW T, NEW s \in Seq(T), NEW n \in 0..Len(s)
  PROVE  /\ Skip(s, n) \in Seq(T) /\ Len(Skip(s, n)) = Len(s) - n
         /\ \A j \in 1..(Len(s) - n) : Skip(s, n)[j] = s[n + j]
  BY DEF Skip

LEMMA JoinFacts ==
  ASSUME NEW T, NEW a \in Seq(T), NEW b \in Seq(T)
  PROVE  /\ a \o b \in Seq(T) /\ Len(a \o b) = Len(a) + Len(b)
         /\ \A j \in 1..Len(a) : (a \o b)[j] = a[j]
         /\ \A j \in 1..Len(b) : (a \o b)[Len(a) + j] = b[j]
  OBVIOUS

LEMMA LiesCut ==
  ASSUME NEW T, NEW s \in Seq(T), NEW n \in 0..Len(s), NEW start, NEW p \in Nat, Lies(start, s, p)
  PROVE  Lies(start, Take(s, n), p) /\ Lies(start, Skip(s, n), p + n)
  <1>1. Len(s) \in Nat /\ n \in Nat
    OBVIOUS
  <1>2. Lies(start, Take(s, n), p)
    <2>1. Len(Take(s, n)) = n /\ \A j \in 1..n : Take(s, n)[j] = s[j]
      BY TakeFacts
    <2> QED BY <1>1, <2>1 DEF Lies
  <1>3. Lies(start, Skip(s, n), p + n)
    <2>1. Len(Skip(s, n)) = Len(s) - n /\ \A j \in 1..(Len(s) - n) : Skip(s, n)[j] = s[n + j]
      BY SkipFacts
    <2>2. ASSUME NEW j \in 1..(Len(s) - n)
          PROVE  At(start, Skip(s, n)[j], p + n + j - 1)
      <3>1. n + j \in 1..Len(s) /\ p + (n + j) - 1 = p + n + j - 1
        BY <1>1
      <3>2. At(start, s[n + j], p + (n + j) - 1)
        BY <3>1 DEF Lies
      <3> QED BY <2>1, <3>1, <3>2
    <2> QED BY <2>1, <2>2 DEF Lies
  <1> QED BY <1>2, <1>3

LEMMA LiesJoin ==
  ASSUME NEW T, NEW a \in Seq(T), NEW b \in Seq(T), NEW start, NEW p \in Nat,
         Lies(start, a, p), Lies(start, b, p + Len(a))
  PROVE  Lies(start, a \o b, p)
  <1>1. Len(a) \in Nat /\ Len(b) \in Nat /\ Len(a \o b) = Len(a) + Len(b)
    BY JoinFacts
  <1>2. ASSUME NEW j \in 1..(Len(a) + Len(b))
        PROVE  At(start, (a \o b)[j], p + j - 1)
    <2>1. CASE j \in 1..Len(a)
      BY <2>1, JoinFacts DEF Lies
    <2>2. CASE j \notin 1..Len(a)
      <3>1. PICK i : i = j - Len(a)
        OBVIOUS
      <3>2. i \in 1..Len(b) /\ j = Len(a) + i /\ p + Len(a) + i - 1 = p + j - 1
        BY <1>1, <2>2, <3>1
      <3>3. (a \o b)[Len(a) + i] = b[i]
        BY <3>2, JoinFacts
      <3>4. At(start, b[i], p + Len(a) + i - 1)
        BY <3>2 DEF Lies
      <3> QED BY <3>2, <3>3, <3>4
    <2> QED BY <2>1, <2>2
  <1> QED BY <1>1, <1>2 DEF Lies

-----------------------------------------------------------------------------
LEMMA Types ==
  ASSUME TypeOK
  PROVE  /\ Header \in Nat \ {0} /\ Block \in Nat \ {0} /\ Header <= Block /\ Mac \in Nat \ {0}
         /\ BufSize \in Nat /\ Block <= BufSize /\ MaxPayload \in Nat /\ NumPackets \in Nat /\ NumPlain \in Nat
         /\ Len(sizes) \in Nat /\ Len(coming) \in Nat /\ Len(net) \in Nat /\ Len(buf) \in Nat
         /\ data_num \in Nat /\ total_num \in Nat /\ data_num <= total_num /\ Len(added) \in Nat /\ Current \in Nat \ {0}
         /\ coming \in Seq(ByteSet) /\ net \in Seq(ByteSet) /\ buf \in Seq(ByteSet) /\ payload \in Seq(ByteSet)
         /\ added \in Seq(Seq(ByteSet)) /\ sizes \in Seq(Sizes) /\ Len(sizes) <= NumPackets
         /\ Len(buf) <= BufSize
         /\ \A k \in 1..Len(sizes) : sizes[k] \in Sizes
  <1>1. /\ Header \in Nat \ {0} /\ Block \in Nat \ {0} /\ Header <= Block /\ Mac \in Nat \ {0}
        /\ BufSize \in Nat /\ Block <= BufSize /\ MaxPayload \in Nat /\ NumPackets \in Nat /\ NumPlain \in Nat
    BY PacketReaderAssumption
  <1>2. /\ Len(sizes) \in Nat /\ Len(coming) \in Nat /\ Len(net) \in Nat /\ Len(buf) \in Nat /\ Len(added) \in Nat
    BY DEF TypeOK
  <1>3. data_num \in Nat /\ total_num \in Nat /\ data_num <= total_num
    BY <1>1 DEF TypeOK, data_num
  <1>4. Current \in Nat \ {0}
    BY <1>2 DEF Current
  <1>5. /\ coming \in Seq(ByteSet) /\ net \in Seq(ByteSet) /\ buf \in Seq(ByteSet) /\ payload \in Seq(ByteSet)
        /\ added \in Seq(Seq(ByteSet)) /\ sizes \in Seq(Sizes) /\ Len(sizes) <= NumPackets
        /\ Len(buf) <= BufSize
    BY DEF TypeOK
  <1>6. \A k \in 1..Len(sizes) : sizes[k] \in Sizes
    BY <1>5
  <1> QED BY <1>1, <1>2, <1>3, <1>4, <1>5, <1>6

LEMMA SizeFacts ==
  ASSUME NEW k, NEW size \in Sizes
  PROVE  /\ size \in Nat /\ size >= Block /\ size > Header /\ size % Block = 0
         /\ WireSize(k, size) \in Nat /\ WireSize(k, size) >= size /\ WireSize(k, size) > Header
         /\ Sealed(k) => WireSize(k, size) = size + Mac
         /\ ~Sealed(k) => WireSize(k, size) = size
  BY PacketReaderAssumption DEF WireSize

(* There is one byte at each place.                                         *)
LEMMA ByteAt ==
  ASSUME TypeOK, NEW start, Starts(start), NEW h \in 1..Len(sizes), NEW p \in Nat,
         start[h] <= p, p < start[h + 1], NEW b, At(start, b, p)
  PROVE  b = IF Sealed(h) /\ p - start[h] < sizes[h]
             THEN <<h, p - start[h], TRUE>> ELSE <<h, p - start[h], FALSE>>
  <1>1. PICK k \in 1..Len(sizes) :
           /\ start[k] <= p /\ p < start[k + 1]
           /\ b = IF Sealed(k) /\ p - start[k] < sizes[k]
                  THEN <<k, p - start[k], TRUE>> ELSE <<k, p - start[k], FALSE>>
    BY DEF At
  <1>2. Len(sizes) \in Nat
    BY Types
  <1>3. \A i \in 1..(Len(sizes) + 1) : start[i] \in Nat
    BY DEF Starts
  <1>4. \A i, j \in 1..(Len(sizes) + 1) : i <= j => start[i] <= start[j]
    BY DEF Starts
  <1>5. ~(k < h)
    <2> SUFFICES ASSUME k < h PROVE FALSE
      OBVIOUS
    <2>1. k + 1 <= h /\ k + 1 \in 1..(Len(sizes) + 1) /\ h \in 1..(Len(sizes) + 1)
      BY <1>2
    <2>2. start[k + 1] <= start[h] /\ start[k + 1] \in Nat /\ start[h] \in Nat
      BY <1>3, <1>4, <2>1
    <2> QED BY <1>1, <2>2
  <1>6. ~(h < k)
    <2> SUFFICES ASSUME h < k PROVE FALSE
      OBVIOUS
    <2>1. h + 1 <= k /\ h + 1 \in 1..(Len(sizes) + 1) /\ k \in 1..(Len(sizes) + 1)
      BY <1>2
    <2>2. start[h + 1] <= start[k] /\ start[h + 1] \in Nat /\ start[k] \in Nat
      BY <1>3, <1>4, <2>1
    <2> QED BY <1>1, <2>2
  <1>7. k = h
    BY <1>2, <1>5, <1>6
  <1> QED BY <1>1, <1>7

(* A byte of the stream is not the reader's junk.                           *)
LEMMA Genuine ==
  ASSUME NEW k \in 1..NumPackets, NEW o \in Nat, NEW e \in BOOLEAN
  PROVE  /\ <<k, o, e>> \in ByteSet /\ <<k, o, e>> # Junk
         /\ Clear(<<k, o, TRUE>>) = <<k, o, FALSE>>
  <1>1. <<k, o, e>> \in (1..NumPackets) \X Nat \X BOOLEAN /\ <<k, o, TRUE>> \in (1..NumPackets) \X Nat \X BOOLEAN
    OBVIOUS
  <1>2. <<k, o, e>> # Junk /\ <<k, o, TRUE>> # Junk
    BY <1>1, PacketReaderAssumption
  <1> QED BY <1>1, <1>2 DEF ByteSet, Clear

LEMMA HereType ==
  ASSUME TypeOK, PacketsWhole, NEW start, Starts(start)
  PROVE  /\ Current \in 1..(Len(sizes) + 1) /\ start[Current] \in Nat /\ Here(start) \in Nat
         /\ start[Len(sizes) + 1] \in Nat
  <1>1. Len(added) <= Len(sizes) /\ Len(added) \in Nat /\ Len(sizes) \in Nat
    BY Types DEF PacketsWhole
  <1>2. Current \in 1..(Len(sizes) + 1) /\ Len(sizes) + 1 \in 1..(Len(sizes) + 1)
    BY <1>1 DEF Current
  <1>3. start[Current] \in Nat /\ start[Len(sizes) + 1] \in Nat
    BY <1>2 DEF Starts
  <1>4. Header \in Nat /\ data_num \in Nat
    BY Types
  <1> QED BY <1>2, <1>3, <1>4 DEF Here

-----------------------------------------------------------------------------
(* The server and TCP.                                                      *)
LEMMA BytesFacts ==
  ASSUME NEW k \in 1..NumPackets, NEW size \in Sizes
  PROVE  /\ Bytes(k, size) \in Seq(ByteSet) /\ Len(Bytes(k, size)) = WireSize(k, size)
         /\ \A j \in 1..WireSize(k, size) :
               Bytes(k, size)[j] = IF Sealed(k) /\ j - 1 < size
                                   THEN <<k, j - 1, TRUE>> ELSE <<k, j - 1, FALSE>>
  <1> DEFINE W == WireSize(k, size)
             B == Bytes(k, size)
  <1>1. W \in Nat /\ size \in Nat
    BY SizeFacts
  <1>2. B = [j \in 1..W |-> <<k, j - 1, Sealed(k) /\ j <= size>>]
    BY DEF Bytes
  <1> HIDE DEF W, B
  <1>3. ASSUME NEW j \in 1..W
        PROVE  B[j] = IF Sealed(k) /\ j - 1 < size THEN <<k, j - 1, TRUE>> ELSE <<k, j - 1, FALSE>>
    <2>1. B[j] = <<k, j - 1, Sealed(k) /\ j <= size>>
      BY <1>2
    <2>2. j <= size <=> j - 1 < size
      BY <1>1
    <2>3. CASE Sealed(k) /\ j <= size
      <3>1. (Sealed(k) /\ j <= size) = TRUE
        BY <2>3
      <3> QED BY <2>1, <2>2, <2>3, <3>1
    <2>4. CASE ~(Sealed(k) /\ j <= size)
      <3>1. (Sealed(k) /\ j <= size) = FALSE
        BY <2>4
      <3> QED BY <2>1, <2>2, <2>4, <3>1
    <2> QED BY <2>3, <2>4
  <1>4. \A j \in 1..W : B[j] \in ByteSet
    <2> TAKE j \in 1..W
    <2>1. j - 1 \in Nat
      BY <1>1
    <2>2. <<k, j - 1, TRUE>> \in ByteSet /\ <<k, j - 1, FALSE>> \in ByteSet
      BY <2>1, Genuine
    <2> QED BY <1>3, <2>2
  <1>5. B \in [1..W -> ByteSet]
    BY <1>2, <1>4
  <1>6. B \in Seq(ByteSet) /\ Len(B) = W
    BY <1>1, <1>5
  <1> QED BY <1>3, <1>6 DEF B, W

(* After a step packets start at g and the reader has collected up to p.    *)
Placed(g, p) ==
    /\ Starts(g)' /\ Here(g)' = p
    /\ \A j \in 1..Len(buf') : \E b, x : b = buf'[j] /\ x = p + j - 1 /\ At(g, b, x)'
    /\ \A j \in 1..Len(net') : \E b, x : b = net'[j] /\ x = p + Len(buf') + j - 1 /\ At(g, b, x)'
    /\ \A j \in 1..Len(coming') : \E b, x : /\ b = coming'[j] /\ x = p + Len(buf') + Len(net') + j - 1
                                            /\ At(g, b, x)'
    /\ ~lost' => p + Len(buf') + Len(net') + Len(coming') = g[Len(sizes') + 1]

LEMMA LayoutNext ==
  ASSUME NEW g, NEW p, Placed(g, p)
  PROVE  Layout(g)'
  <1>0. /\ Starts(g)' /\ Here(g)' = p
        /\ \A j \in 1..Len(buf') : \E b, x : b = buf'[j] /\ x = p + j - 1 /\ At(g, b, x)'
        /\ \A j \in 1..Len(net') : \E b, x : b = net'[j] /\ x = p + Len(buf') + j - 1 /\ At(g, b, x)'
        /\ \A j \in 1..Len(coming') : \E b, x : /\ b = coming'[j] /\ x = p + Len(buf') + Len(net') + j - 1
                                                /\ At(g, b, x)'
        /\ ~lost' => p + Len(buf') + Len(net') + Len(coming') = g[Len(sizes') + 1]
    BY DEF Placed
  <1> USE <1>0
  <1>1. \A j \in 1..Len(buf') : At(g, buf[j], Here(g) + j - 1)'
    <2> TAKE j \in 1..Len(buf')
    <2>1. PICK b, x : b = buf'[j] /\ x = p + j - 1 /\ At(g, b, x)'
      OBVIOUS
    <2>2. x = (Here(g) + j - 1)' /\ b = (buf[j])'
      BY <2>1
    <2> QED BY <2>1, <2>2 DEF At
  <1>2. \A j \in 1..Len(net') : At(g, net[j], Here(g) + Len(buf) + j - 1)'
    <2> TAKE j \in 1..Len(net')
    <2>1. PICK b, x : b = net'[j] /\ x = p + Len(buf') + j - 1 /\ At(g, b, x)'
      OBVIOUS
    <2>2. x = (Here(g) + Len(buf) + j - 1)' /\ b = (net[j])'
      BY <2>1
    <2> QED BY <2>1, <2>2 DEF At
  <1>3. \A j \in 1..Len(coming') : At(g, coming[j], Here(g) + Len(buf) + Len(net) + j - 1)'
    <2> TAKE j \in 1..Len(coming')
    <2>1. PICK b, x : b = coming'[j] /\ x = p + Len(buf') + Len(net') + j - 1 /\ At(g, b, x)'
      OBVIOUS
    <2>2. x = (Here(g) + Len(buf) + Len(net) + j - 1)' /\ b = (coming[j])'
      BY <2>1
    <2> QED BY <2>1, <2>2 DEF At
  <1> QED BY <1>1, <1>2, <1>3 DEF Layout, Lies

(* Steps that leave the stream as it is.                                    *)
LEMMA LayoutSame ==
  ASSUME NEW start, NEW p, Starts(start), sizes' = sizes, Here(start)' = p,
         NEW B, NEW N, NEW C, B = buf', N = net', C = coming',
         Lies(start, B, p), Lies(start, N, p + Len(B)), Lies(start, C, p + Len(B) + Len(N)),
         ~lost' => p + Len(B) + Len(N) + Len(C) = start[Len(sizes) + 1]
  PROVE  Layout(start)'
  <1>1. Starts(start)'
    BY DEF Starts
  <1>2. \A b, x : At(start, b, x) => At(start, b, x)'
    BY DEF At
  <1>3. \A j \in 1..Len(B) : \E b, x : b = B[j] /\ x = p + j - 1 /\ At(start, b, x)'
    BY <1>2 DEF Lies
  <1>4. \A j \in 1..Len(N) : \E b, x : b = N[j] /\ x = p + Len(B) + j - 1 /\ At(start, b, x)'
    BY <1>2 DEF Lies
  <1>5. \A j \in 1..Len(C) : \E b, x : b = C[j] /\ x = p + Len(B) + Len(N) + j - 1 /\ At(start, b, x)'
    BY <1>2 DEF Lies
  <1>6. Placed(start, p)
    BY <1>1, <1>3, <1>4, <1>5 DEF Placed
  <1> QED BY <1>6, LayoutNext

LEMMA SendKeeps ==
  ASSUME IInv, NEW size \in Sizes, Send(size)
  PROVE  IInv'
  <1> DEFINE L == Len(sizes)
             B == Bytes(L + 1, size)
             W == WireSize(L + 1, size)
  <1>1. /\ ~lost /\ L < NumPackets /\ sizes' = Append(sizes, size) /\ coming' = coming \o B
        /\ UNCHANGED <<net, lost, buf, payload, total_num, head, seqno, created, added, pc>>
    BY DEF Send, reader
  <1>2. /\ TypeOK /\ PacketsWhole /\ L \in Nat /\ L + 1 \in 1..NumPackets /\ sizes \in Seq(Sizes)
        /\ coming \in Seq(ByteSet) /\ Len(coming) \in Nat /\ NumPackets \in Nat
    <2>1. TypeOK /\ PacketsWhole
      BY DEF IInv
    <2>2. /\ L \in Nat /\ sizes \in Seq(Sizes)
          /\ coming \in Seq(ByteSet) /\ Len(coming) \in Nat /\ NumPackets \in Nat
      BY <2>1, Types
    <2>3. L + 1 \in 1..NumPackets
      BY <1>1, <2>2
    <2> QED BY <2>1, <2>2, <2>3
  <1>3. sizes' \in Seq(Sizes) /\ Len(sizes') = L + 1 /\ sizes'[L + 1] = size /\ \A j \in 1..L : sizes'[j] = sizes[j]
    BY <1>1, <1>2
  <1>4. /\ B \in Seq(ByteSet) /\ Len(B) = W
        /\ \A j \in 1..W : B[j] = IF Sealed(L + 1) /\ j - 1 < size
                                  THEN <<L + 1, j - 1, TRUE>> ELSE <<L + 1, j - 1, FALSE>>
    BY <1>2, BytesFacts
  <1>5. W \in Nat
    BY SizeFacts
  <1> HIDE DEF L, B, W
  <1>6. coming' \in Seq(ByteSet) /\ Len(coming') = Len(coming) + W
    BY <1>1, <1>2, <1>4, JoinFacts
  <1>7. data_num' = data_num /\ encrypted' = encrypted /\ Current' = Current
    BY <1>1 DEF data_num, encrypted, Current
  <1>8. TypeOK'
    <2>1. Len(sizes') <= NumPackets
      BY <1>2, <1>3
    <2> QED BY <1>1, <1>2, <1>3, <1>6, <1>7, <2>1 DEF TypeOK
  <1>9. PacketsWhole'
    <2>1. Len(added) <= L /\ \A k \in DOMAIN added : added[k] = Payload(k)
      BY <1>2 DEF PacketsWhole, L
    <2>2. DOMAIN added = 1..Len(added) /\ Len(added) \in Nat
      BY <1>2, Types
    <2>3. \A k \in DOMAIN added : Payload(k)' = Payload(k)
      <3>1. \A k \in 1..L : sizes'[k] = sizes[k]
        BY <1>3
      <3>2. \A k \in DOMAIN added : k \in 1..L
        BY <1>2, <2>1, <2>2
      <3> QED BY <3>1, <3>2 DEF Payload
    <2>4. Len(added) <= Len(sizes')
      BY <1>2, <1>3, <2>1, <2>2
    <2> QED BY <1>1, <2>1, <2>3, <2>4 DEF PacketsWhole, Payload
  <1>10. FailureCauses'
    <2>1. FailureCauses
      BY DEF IInv
    <2>2. \A k \in DOMAIN sizes : k \in DOMAIN sizes' /\ sizes'[k] = sizes[k]
      <3>1. DOMAIN sizes = 1..L /\ DOMAIN sizes' = 1..(L + 1)
        BY <1>2, <1>3 DEF L
      <3> QED BY <1>2, <1>3, <3>1
    <2> QED BY <1>1, <2>1, <2>2 DEF FailureCauses
  <1>11. CollectOK' /\ CountOK'
    <2>1. CollectOK /\ CountOK
      BY DEF IInv
    <2>2. Collecting => Collecting'
      <3> SUFFICES ASSUME Collecting PROVE Collecting'
        OBVIOUS
      <3>1. head = Current /\ head <= L
        BY DEF Collecting, L
      <3>2. head \in 1..L /\ head <= Len(sizes') /\ sizes'[head] = sizes[head]
        <4>1. Current \in Nat \ {0}
          BY <1>2, Types
        <4> QED BY <1>2, <1>3, <3>1, <4>1
      <3> QED BY <1>1, <1>7, <3>1, <3>2 DEF Collecting
    <2> QED BY <1>1, <1>7, <2>1, <2>2 DEF CollectOK, CountOK
  <1>12. LayoutOK'
    <2> SUFFICES ASSUME pc # "failed" PROVE \E start : Layout(start)'
      BY <1>1 DEF LayoutOK
    <2>1. PICK start : Layout(start)
      BY DEF IInv, LayoutOK
    <2>2. Starts(start)
      BY <2>1 DEF Layout
    <2>3. PICK e : e = start[L + 1]
      OBVIOUS
    <2>4. PICK g : g = [j \in 1..(L + 2) |-> IF j <= L + 1 THEN start[j] ELSE e + W]
      OBVIOUS
    <2>5. /\ start \in [1..(L + 1) -> Nat] /\ start[1] = 0
          /\ \A k \in 1..L : start[k + 1] = start[k] + WireSize(k, sizes[k])
          /\ \A i, j \in 1..(L + 1) : i <= j => start[i] <= start[j]
      BY <2>2 DEF Starts, L
    <2>6. /\ g \in [1..(L + 2) -> Nat] /\ g[L + 2] = e + W /\ \A j \in 1..(L + 1) : g[j] = start[j]
          /\ e \in Nat
      <3>1. e \in Nat
        BY <1>2, <2>3, <2>5
      <3> QED BY <1>2, <1>5, <2>4, <2>5, <3>1
    <2>7. Starts(g)'
      <3>1. Len(sizes') + 1 = L + 2 /\ 1 \in 1..(L + 1)
        BY <1>2, <1>3
      <3>2. \A k \in 1..(L + 1) : g[k + 1] = g[k] + WireSize(k, sizes'[k])
        <4> TAKE k \in 1..(L + 1)
        <4>1. CASE k \in 1..L
          <5>1. k \in 1..(L + 1) /\ k + 1 \in 1..(L + 1)
            BY <1>2, <4>1
          <5> QED BY <1>3, <2>5, <2>6, <4>1, <5>1
        <4>2. CASE k = L + 1
          <5>1. k + 1 = L + 2 /\ sizes'[k] = size /\ W = WireSize(k, size) /\ g[k] = e
            BY <1>2, <1>3, <2>3, <2>6, <4>2 DEF W
          <5> QED BY <2>6, <5>1
        <4> QED BY <1>2, <4>1, <4>2
      <3>3. \A i, j \in 1..(L + 2) : i <= j => g[i] <= g[j]
        <4> SUFFICES ASSUME NEW i \in 1..(L + 2), NEW j \in 1..(L + 2), i <= j PROVE g[i] <= g[j]
          OBVIOUS
        <4>1. CASE j \in 1..(L + 1)
          <5>1. i \in 1..(L + 1)
            BY <1>2, <4>1
          <5> QED BY <2>5, <2>6, <4>1, <5>1
        <4>2. CASE j = L + 2
          <5>1. \A x \in 1..(L + 1) : start[x] <= e /\ start[x] \in Nat
            BY <1>2, <2>3, <2>5
          <5>2. i \in 1..(L + 1) \/ i = L + 2
            BY <1>2
          <5>3. i \in 1..(L + 1) => g[i] <= e /\ g[i] \in Nat
            BY <2>6, <5>1
          <5> QED BY <1>5, <2>6, <4>2, <5>2, <5>3
        <4> QED BY <1>2, <4>1, <4>2
      <3>4. g[1] = 0
        BY <2>5, <2>6, <3>1
      <3> QED BY <1>3, <2>6, <3>1, <3>2, <3>3, <3>4 DEF Starts
    <2>8. \A b, p : At(start, b, p) => At(g, b, p)'
      <3> SUFFICES ASSUME NEW b, NEW p, At(start, b, p) PROVE At(g, b, p)'
        OBVIOUS
      <3>1. PICK k \in 1..L :
               /\ start[k] <= p /\ p < start[k + 1]
               /\ b = IF Sealed(k) /\ p - start[k] < sizes[k]
                      THEN <<k, p - start[k], TRUE>> ELSE <<k, p - start[k], FALSE>>
        BY DEF At, L
      <3>2. k \in 1..Len(sizes') /\ k \in 1..(L + 1) /\ k + 1 \in 1..(L + 1)
        BY <1>2, <1>3
      <3>3. g[k] = start[k] /\ g[k + 1] = start[k + 1] /\ sizes'[k] = sizes[k]
        BY <1>3, <2>6, <3>2
      <3> QED BY <3>1, <3>2, <3>3 DEF At
    <2>9. /\ Current \in 1..(L + 1) /\ start[Current] \in Nat /\ Here(start) \in Nat
      BY <1>2, <2>2, HereType DEF L
    <2>10. Here(g)' = Here(start)
      BY <1>1, <1>7, <2>6, <2>9 DEF Here
    <2>11. PICK p : p = Here(start)
      OBVIOUS
    <2>12. p \in Nat /\ Len(buf) \in Nat /\ Len(net) \in Nat /\ e = p + Len(buf) + Len(net) + Len(coming)
      <3>1. Len(buf) \in Nat /\ Len(net) \in Nat
        BY <1>2, Types
      <3> QED BY <1>1, <2>1, <2>3, <2>9, <2>11, <3>1 DEF Layout, L
    <2>13. ASSUME NEW j \in 1..W PROVE \E b, x : b = B[j] /\ x = e + j - 1 /\ At(g, b, x)'
      <3>1. g[L + 1] = e /\ L + 1 \in 1..Len(sizes') /\ (L + 1) + 1 = L + 2
        BY <1>2, <1>3, <2>3, <2>6
      <3>2. e <= e + j - 1 /\ e + j - 1 < e + W /\ (e + j - 1) - e = j - 1
        BY <1>5, <2>6
      <3>3. g[L + 1] <= e + j - 1 /\ e + j - 1 < g[(L + 1) + 1]
        BY <2>6, <3>1, <3>2
      <3>4. B[j] = IF Sealed(L + 1) /\ (e + j - 1) - g[L + 1] < sizes'[L + 1]
                   THEN <<L + 1, (e + j - 1) - g[L + 1], TRUE>>
                   ELSE <<L + 1, (e + j - 1) - g[L + 1], FALSE>>
        BY <1>3, <1>4, <3>1, <3>2
      <3>5. PICK b, x, n : b = B[j] /\ x = e + j - 1 /\ n = L + 1
        OBVIOUS
      <3>6. At(g, b, x)'
        BY <3>1, <3>3, <3>4, <3>5 DEF At
      <3> QED BY <3>5, <3>6
    <2>14. \A j \in 1..Len(buf') : \E b, x : b = buf'[j] /\ x = p + j - 1 /\ At(g, b, x)'
      BY <1>1, <2>1, <2>8, <2>11 DEF Layout, Lies
    <2>15. \A j \in 1..Len(net') : \E b, x : b = net'[j] /\ x = p + Len(buf') + j - 1 /\ At(g, b, x)'
      BY <1>1, <2>1, <2>8, <2>11 DEF Layout, Lies
    <2>16. \A j \in 1..Len(coming') : \E b, x : /\ b = coming'[j] /\ x = p + Len(buf') + Len(net') + j - 1
                                               /\ At(g, b, x)'
      <3> TAKE j \in 1..Len(coming')
      <3>1. CASE j \in 1..Len(coming)
        <4>1. coming'[j] = coming[j]
          BY <1>1, <1>2, <1>4, <3>1, JoinFacts
        <4>2. \E b, x : b = coming[j] /\ x = p + Len(buf) + Len(net) + j - 1 /\ At(g, b, x)'
          BY <2>1, <2>8, <2>11, <3>1 DEF Layout, Lies
        <4> QED BY <1>1, <4>1, <4>2
      <3>2. CASE j \notin 1..Len(coming)
        <4>1. PICK i : i = j - Len(coming)
          OBVIOUS
        <4>2. i \in 1..W /\ j = Len(coming) + i
          BY <1>2, <1>5, <1>6, <3>2, <4>1
        <4>3. coming'[j] = B[i]
          BY <1>1, <1>2, <1>4, <4>2, JoinFacts
        <4>4. e + i - 1 = p + Len(buf) + Len(net) + j - 1
          BY <1>2, <2>12, <4>2
        <4>5. \E b, x : b = B[i] /\ x = e + i - 1 /\ At(g, b, x)'
          BY <2>13, <4>2
        <4> QED BY <1>1, <4>3, <4>4, <4>5
      <3> QED BY <3>1, <3>2
    <2>17. p + Len(buf') + Len(net') + Len(coming') = g[Len(sizes') + 1]
      <3>1. g[Len(sizes') + 1] = e + W
        BY <1>2, <1>3, <2>6
      <3> QED BY <1>1, <1>2, <1>5, <1>6, <2>12, <3>1
    <2>18. Layout(g)'
      <3>1. Here(g)' = p
        BY <2>10, <2>11
      <3>2. ~lost' => p + Len(buf') + Len(net') + Len(coming') = g[Len(sizes') + 1]
        BY <2>17
      <3>3. Placed(g, p)
        BY <2>7, <2>14, <2>15, <2>16, <3>1, <3>2 DEF Placed
      <3> QED BY <3>3, LayoutNext
    <2> QED BY <2>18
  <1> QED BY <1>8, <1>9, <1>10, <1>11, <1>12 DEF IInv

LEMMA LayoutStays ==
  ASSUME UNCHANGED <<sizes, coming, net, lost, buf, payload, total_num, added>>, NEW start, Layout(start)
  PROVE  Layout(start)'
  <1>1. PICK p, B, N, C : p = Here(start) /\ B = buf' /\ N = net' /\ C = coming'
    OBVIOUS
  <1>2. Here(start)' = p
    BY <1>1 DEF Here, Current, data_num
  <1>3. /\ Starts(start) /\ Lies(start, B, p) /\ Lies(start, N, p + Len(B))
        /\ Lies(start, C, p + Len(B) + Len(N))
        /\ ~lost => p + Len(B) + Len(N) + Len(C) = start[Len(sizes) + 1]
    BY <1>1 DEF Layout
  <1> QED BY <1>1, <1>2, <1>3, LayoutSame

(* Steps that collect nothing and hand on nothing.                          *)
LEMMA MovesKeep ==
  ASSUME IInv, UNCHANGED <<sizes, payload, total_num, head, seqno, created, added>>,
         coming' \in Seq(ByteSet), net' \in Seq(ByteSet), buf' \in Seq(ByteSet), Len(buf') <= BufSize,
         lost' \in BOOLEAN, lost => lost',
         pc' \in {"caller", "wait", "loop", "head", "body", "full", "jump1", "failed"},
         pc' = "failed" => pc = "failed" \/ lost,
         pc' \in {"caller", "head"} => total_num = 0,
         pc' \in {"body", "full", "jump1"} => total_num # 0,
         pc' \in {"full", "jump1"} => data_num = total_num,
         created => pc' \in {"full", "jump1"},
         pc' = "jump1" => created,
         pc' # "failed" => pc # "failed" /\ \A start : Layout(start) => Layout(start)'
  PROVE  IInv'
  <1>1. data_num' = data_num /\ encrypted' = encrypted /\ Current' = Current
    BY DEF data_num, encrypted, Current
  <1>2. TypeOK'
    BY <1>1 DEF IInv, TypeOK
  <1>3. PacketsWhole'
    BY DEF IInv, PacketsWhole, Payload
  <1>4. FailureCauses'
    BY DEF IInv, FailureCauses
  <1>5. CollectOK' /\ CountOK'
    BY <1>1 DEF IInv, CollectOK, Collecting, CountOK
  <1>6. LayoutOK'
    BY DEF IInv, LayoutOK
  <1> QED BY <1>2, <1>3, <1>4, <1>5, <1>6 DEF IInv

LEMMA ArriveKeeps ==
  ASSUME IInv, NEW n \in 1..Len(coming), Arrive(n)
  PROVE  IInv'
  <1>1. /\ net' = net \o Take(coming, n) /\ coming' = Skip(coming, n)
        /\ UNCHANGED <<sizes, lost, buf, payload, total_num, head, seqno, created, added, pc>>
    BY DEF Arrive, reader
  <1>2. /\ TypeOK /\ PacketsWhole /\ coming \in Seq(ByteSet) /\ net \in Seq(ByteSet) /\ buf \in Seq(ByteSet)
        /\ Len(coming) \in Nat /\ Len(net) \in Nat /\ Len(buf) \in Nat /\ Len(buf) <= BufSize
    BY Types DEF IInv
  <1>3. n \in 0..Len(coming) /\ n \in Nat
    BY <1>2
  <1>4. Take(coming, n) \in Seq(ByteSet) /\ Len(Take(coming, n)) = n
    BY <1>2, <1>3, TakeFacts
  <1>5. coming' \in Seq(ByteSet) /\ Len(coming') = Len(coming) - n
    BY <1>1, <1>2, <1>3, SkipFacts
  <1>6. net' \in Seq(ByteSet) /\ Len(net') = Len(net) + n
    BY <1>1, <1>2, <1>4, JoinFacts
  <1>7. ASSUME NEW start, Layout(start) PROVE Layout(start)'
    <2>1. Starts(start)
      BY <1>7 DEF Layout
    <2>2. PICK p, q : p = Here(start) /\ q = p + Len(buf)
      OBVIOUS
    <2>3. p \in Nat /\ q \in Nat
      BY <1>2, <2>1, <2>2, HereType
    <2>4. Here(start)' = p
      BY <1>1, <2>2 DEF Here, Current, data_num
    <2>5. Lies(start, buf, p) /\ Lies(start, net, q) /\ Lies(start, coming, q + Len(net))
      BY <1>7, <2>2 DEF Layout
    <2>6. q + Len(net) \in Nat /\ q + Len(net) + n = q + (Len(net) + n)
      BY <1>2, <1>3, <2>3
    <2>7. Lies(start, Take(coming, n), q + Len(net)) /\ Lies(start, Skip(coming, n), q + Len(net) + n)
      BY <1>2, <1>3, <2>5, <2>6, LiesCut
    <2>8. Lies(start, net \o Take(coming, n), q)
      BY <1>2, <1>4, <2>3, <2>5, <2>7, LiesJoin
    <2>9. PICK B, N, C : B = buf' /\ N = net' /\ C = coming'
      OBVIOUS
    <2>10. /\ Lies(start, B, p) /\ Lies(start, N, p + Len(B)) /\ Lies(start, C, p + Len(B) + Len(N))
      BY <1>1, <1>6, <2>2, <2>5, <2>6, <2>7, <2>8, <2>9
    <2>11. ~lost => p + Len(B) + Len(N) + Len(C) = start[Len(sizes) + 1]
      <3>1. ~lost => p + Len(buf) + Len(net) + Len(coming) = start[Len(sizes) + 1]
        BY <1>7, <2>2 DEF Layout
      <3>2. p + Len(B) + Len(N) + Len(C) = p + Len(buf) + Len(net) + Len(coming)
        <4>1. Len(B) = Len(buf) /\ Len(N) = Len(net) + n /\ Len(C) = Len(coming) - n
          BY <1>1, <1>5, <1>6, <2>9
        <4>2. PICK x, y, z : x = Len(buf) /\ y = Len(net) /\ z = Len(coming)
          OBVIOUS
        <4>3. x \in Nat /\ y \in Nat /\ z \in Nat
          BY <1>2, <4>2
        <4>4. p + x + (y + n) + (z - n) = p + x + y + z
          BY <1>3, <2>3, <4>3
        <4> QED BY <4>1, <4>2, <4>4
      <3> QED BY <3>1, <3>2
    <2> QED BY <1>1, <2>1, <2>4, <2>9, <2>10, <2>11, LayoutSame
  <1>8. /\ lost \in BOOLEAN
        /\ pc \in {"caller", "wait", "loop", "head", "body", "full", "jump1", "failed"}
    BY <1>2 DEF TypeOK, IInv, FailureCauses
  <1>9. CollectOK /\ CountOK
    BY DEF IInv
  <1> QED BY <1>1, <1>2, <1>5, <1>6, <1>7, <1>8, <1>9, MovesKeep DEF CollectOK, CountOK

LEMMA LoseKeeps ==
  ASSUME IInv, Lose
  PROVE  IInv'
  <1>1. /\ lost' = TRUE /\ coming' = <<>>
        /\ UNCHANGED <<sizes, net, buf, payload, total_num, head, seqno, created, added, pc>>
    BY DEF Lose, reader
  <1>2. /\ TypeOK /\ net \in Seq(ByteSet) /\ buf \in Seq(ByteSet) /\ Len(buf) <= BufSize
    BY Types DEF IInv
  <1>3. coming' \in Seq(ByteSet) /\ Len(coming') = 0
    BY <1>1
  <1>4. ASSUME NEW start, Layout(start) PROVE Layout(start)'
    <2>1. PICK p, B, N, C : p = Here(start) /\ B = buf' /\ N = net' /\ C = coming'
      OBVIOUS
    <2>2. Here(start)' = p
      BY <1>1, <2>1 DEF Here, Current, data_num
    <2>3. Lies(start, C, p + Len(B) + Len(N))
      BY <1>3, <2>1 DEF Lies
    <2> QED BY <1>1, <1>4, <2>1, <2>2, <2>3, LayoutSame DEF Layout
  <1>5. /\ lost' \in BOOLEAN
        /\ pc \in {"caller", "wait", "loop", "head", "body", "full", "jump1", "failed"}
    BY <1>1, <1>2 DEF TypeOK, IInv, FailureCauses
  <1>6. CollectOK /\ CountOK
    BY DEF IInv
  <1> QED BY <1>1, <1>2, <1>3, <1>4, <1>5, <1>6, MovesKeep DEF CollectOK, CountOK

-----------------------------------------------------------------------------
(* The reader.                                                              *)
LEMMA EnterKeeps ==
  ASSUME IInv, Enter \/ Resume
  PROVE  IInv'
  <1>1. /\ UNCHANGED <<sizes, coming, net, lost, buf, payload, total_num, head, seqno, created, added>>
        /\ \/ pc \in {"caller", "wait"} /\ pc' = "loop"
           \/ pc = "jump1" /\ pc' = "full"
    BY DEF Enter, Resume, server, reader
  <1>2. /\ TypeOK /\ coming \in Seq(ByteSet) /\ net \in Seq(ByteSet) /\ buf \in Seq(ByteSet)
        /\ Len(buf) <= BufSize /\ lost \in BOOLEAN
    BY Types DEF IInv, TypeOK
  <1>3. \A start : Layout(start) => Layout(start)'
    BY <1>1, LayoutStays
  <1>4. CollectOK /\ CountOK
    BY DEF IInv
  <1> QED BY <1>1, <1>2, <1>3, <1>4, MovesKeep DEF CollectOK, CountOK

(* recv() behind what is left in the buffer.                                *)
LEMMA RefillKeeps ==
  ASSUME IInv, Refill
  PROVE  IInv'
  <1> DEFINE n == Shorter(BufSize - Len(buf), Len(net))
             next == IF total_num = 0 THEN "head" ELSE "body"
  <1>1. /\ pc = "loop"
        /\ UNCHANGED <<sizes, coming, lost, payload, total_num, head, seqno, created, added>>
        /\ \/ pc' = next /\ UNCHANGED <<net, buf>>
           \/ pc' = (IF lost THEN "failed" ELSE "wait") /\ UNCHANGED <<net, buf>>
           \/ pc' = next /\ buf' = buf \o Take(net, n) /\ net' = Skip(net, n)
    BY DEF Refill, Refilled
  <1>2. /\ TypeOK /\ PacketsWhole /\ coming \in Seq(ByteSet) /\ net \in Seq(ByteSet) /\ buf \in Seq(ByteSet)
        /\ Len(coming) \in Nat /\ Len(net) \in Nat /\ Len(buf) \in Nat /\ Len(buf) <= BufSize
        /\ BufSize \in Nat /\ lost \in BOOLEAN
    BY Types DEF IInv, TypeOK
  <1>3. n \in 0..Len(net) /\ n \in Nat /\ n <= BufSize - Len(buf)
    BY <1>2 DEF Shorter
  <1> HIDE DEF n
  <1>4. /\ pc' \in {"caller", "wait", "loop", "head", "body", "full", "jump1", "failed"}
        /\ pc' = "failed" => lost
        /\ pc' = "head" => total_num = 0
        /\ pc' = "body" => total_num # 0
        /\ pc' \notin {"caller", "full", "jump1"}
    BY <1>1
  <1>5. ~created
    BY <1>1 DEF IInv, CountOK
  <1>6. CASE UNCHANGED <<net, buf>>
    <2>1. \A start : Layout(start) => Layout(start)'
      BY <1>1, <1>6, LayoutStays
    <2> QED BY <1>1, <1>2, <1>4, <1>5, <1>6, <2>1, MovesKeep
  <1>7. CASE buf' = buf \o Take(net, n) /\ net' = Skip(net, n)
    <2>1. Take(net, n) \in Seq(ByteSet) /\ Len(Take(net, n)) = n
      BY <1>2, <1>3, TakeFacts
    <2>2. net' \in Seq(ByteSet) /\ Len(net') = Len(net) - n
      BY <1>2, <1>3, <1>7, SkipFacts
    <2>3. buf' \in Seq(ByteSet) /\ Len(buf') = Len(buf) + n
      BY <1>2, <1>7, <2>1, JoinFacts
    <2>4. Len(buf') <= BufSize
      BY <1>2, <1>3, <2>3
    <2>5. ASSUME NEW start, Layout(start) PROVE Layout(start)'
      <3>1. Starts(start)
        BY <2>5 DEF Layout
      <3>2. PICK p, q : p = Here(start) /\ q = p + Len(buf)
        OBVIOUS
      <3>3. p \in Nat /\ q \in Nat
        BY <1>2, <3>1, <3>2, HereType
      <3>4. Here(start)' = p
        BY <1>1, <3>2 DEF Here, Current, data_num
      <3>5. Lies(start, buf, p) /\ Lies(start, net, q) /\ Lies(start, coming, q + Len(net))
        BY <2>5, <3>2 DEF Layout
      <3>6. Lies(start, Take(net, n), q) /\ Lies(start, Skip(net, n), q + n)
        BY <1>2, <1>3, <3>3, <3>5, LiesCut
      <3>7. Lies(start, buf \o Take(net, n), p)
        BY <1>2, <2>1, <3>2, <3>3, <3>5, <3>6, LiesJoin
      <3>8. PICK B, N, C : B = buf' /\ N = net' /\ C = coming'
        OBVIOUS
      <3>9. p + Len(B) = q + n /\ p + Len(B) + Len(N) = q + Len(net)
        <4>1. Len(B) = Len(buf) + n /\ Len(N) = Len(net) - n
          BY <2>2, <2>3, <3>8
        <4>2. PICK x, y : x = Len(buf) /\ y = Len(net)
          OBVIOUS
        <4>3. x \in Nat /\ y \in Nat
          BY <1>2, <4>2
        <4>4. p + (x + n) = (p + x) + n /\ p + (x + n) + (y - n) = (p + x) + y
          BY <1>3, <3>3, <4>3
        <4> QED BY <3>2, <4>1, <4>2, <4>4
      <3>10. Lies(start, B, p) /\ Lies(start, N, p + Len(B)) /\ Lies(start, C, p + Len(B) + Len(N))
        BY <1>1, <1>7, <3>5, <3>6, <3>7, <3>8, <3>9
      <3>11. ~lost => p + Len(B) + Len(N) + Len(C) = start[Len(sizes) + 1]
        <4>1. ~lost => q + Len(net) + Len(coming) = start[Len(sizes) + 1]
          BY <2>5, <3>2 DEF Layout
        <4> QED BY <1>1, <3>8, <3>9, <4>1
      <3> QED BY <1>1, <3>1, <3>4, <3>8, <3>10, <3>11, LayoutSame
    <2> QED BY <1>1, <1>2, <1>4, <1>5, <2>2, <2>3, <2>4, <2>5, MovesKeep
  <1> QED BY <1>1, <1>6, <1>7

(* A packet that is complete is what the server sent.                       *)
LEMMA WholePacket ==
  ASSUME IInv, pc = "full"
  PROVE  /\ Collecting /\ payload = Payload(head) /\ head = Len(added) + 1 /\ head \in 1..Len(sizes)
         /\ data_num = total_num /\ total_num \in Nat \ {0}
         /\ seqno = Len(added) + (IF created THEN 1 ELSE 0)
  <1>1. Collecting /\ data_num = total_num /\ total_num # 0
    BY DEF IInv, CollectOK
  <1>2. TypeOK /\ payload \in Seq(ByteSet) /\ Len(added) \in Nat /\ Len(sizes) \in Nat /\ total_num \in Nat
    BY Types DEF IInv
  <1>3. head = Len(added) + 1 /\ head \in 1..Len(sizes)
    BY <1>1, <1>2 DEF Collecting, Current
  <1>4. Len(payload) = WireSize(head, sizes[head]) - Header
    BY <1>1 DEF Collecting, data_num
  <1>5. payload = [j \in 1..(WireSize(head, sizes[head]) - Header) |-> <<head, Header + j - 1, FALSE>>]
    <2>1. payload = [j \in 1..Len(payload) |-> payload[j]]
      BY <1>2
    <2>2. \A j \in 1..Len(payload) : payload[j] = <<head, Header + j - 1, FALSE>>
      BY <1>1 DEF Collecting, data_num
    <2> QED BY <1>4, <2>1, <2>2
  <1>6. payload = Payload(head)
    BY <1>5 DEF Payload
  <1>7. seqno = Len(added) + (IF created THEN 1 ELSE 0)
    BY DEF IInv, CountOK
  <1> QED BY <1>1, <1>2, <1>3, <1>6, <1>7

LEMMA FullPacketKeeps ==
  ASSUME IInv, FullPacket
  PROVE  IInv'
  <1>1. pc = "full" /\ seqno' = NextSeqno /\ UNCHANGED <<sizes, coming, net, lost, buf, head>>
    BY DEF FullPacket, server
  <1>2. /\ Collecting /\ payload = Payload(head) /\ head = Len(added) + 1 /\ head \in 1..Len(sizes)
        /\ data_num = total_num /\ total_num \in Nat \ {0}
        /\ seqno = Len(added) + (IF created THEN 1 ELSE 0)
    BY <1>1, WholePacket
  <1>3. /\ TypeOK /\ PacketsWhole /\ FailureCauses /\ payload \in Seq(ByteSet) /\ added \in Seq(Seq(ByteSet))
        /\ Len(added) \in Nat /\ Len(sizes) \in Nat /\ created \in BOOLEAN
    BY Types DEF IInv, TypeOK
  <1>4. ~created => MacConfirmed
    BY <1>2, <1>3 DEF MacConfirmed
  <1>5. seqno' = Len(added) + 1
    BY <1>1, <1>2, <1>3 DEF NextSeqno
  <1>6. PICK start : Layout(start)
    BY <1>1 DEF IInv, LayoutOK
  <1>7. CASE created' = TRUE /\ pc' = "jump1" /\ UNCHANGED <<payload, total_num, added>>
    <2>1. data_num' = data_num /\ encrypted' = encrypted /\ Current' = Current
      BY <1>7 DEF data_num, encrypted, Current
    <2>2. TypeOK'
      BY <1>1, <1>3, <1>5, <1>7, <2>1 DEF TypeOK
    <2>3. PacketsWhole' /\ FailureCauses'
      BY <1>1, <1>3, <1>7 DEF PacketsWhole, FailureCauses, Payload
    <2>4. CollectOK' /\ CountOK'
      BY <1>1, <1>2, <1>5, <1>7, <2>1 DEF CollectOK, CountOK, Collecting
    <2>5. Layout(start)'
      BY <1>1, <1>6, <1>7, LayoutStays
    <2> QED BY <2>2, <2>3, <2>4, <2>5 DEF IInv, LayoutOK
  <1>8. CASE /\ created' = FALSE /\ pc' = "caller" /\ added' = Append(added, payload)
             /\ total_num' = 0 /\ payload' = <<>>
    <2>1. /\ added' \in Seq(Seq(ByteSet)) /\ Len(added') = Len(added) + 1 /\ DOMAIN added' = 1..(Len(added) + 1)
          /\ added'[Len(added) + 1] = payload /\ \A k \in 1..Len(added) : added'[k] = added[k]
          /\ DOMAIN added = 1..Len(added)
      BY <1>3, <1>8
    <2>2. data_num' = 0
      BY <1>8 DEF data_num
    <2>3. TypeOK'
      <3>1. payload' \in Seq(ByteSet) /\ total_num' \in 0..MaxPayload /\ data_num' <= total_num'
        BY <1>8, <2>2, PacketReaderAssumption
      <3>2. seqno' \in Nat
        BY <1>3, <1>5
      <3> QED BY <1>1, <1>3, <1>8, <2>1, <3>1, <3>2 DEF TypeOK
    <2>4. PacketsWhole'
      <3>1. Len(added') <= Len(sizes)
        <4>1. head <= Len(sizes)
          BY <1>2, <1>3
        <4>2. Len(added') = head
          BY <1>2, <2>1
        <4> QED BY <4>1, <4>2
      <3>2. \A k \in DOMAIN added' : added'[k] = Payload(k)
        <4> TAKE k \in DOMAIN added'
        <4>1. k \in 1..Len(added) \/ k = Len(added) + 1
          BY <1>3, <2>1
        <4> QED BY <1>2, <1>3, <2>1, <4>1 DEF PacketsWhole
      <3> QED BY <1>1, <3>1, <3>2 DEF PacketsWhole, Payload
    <2>5. FailureCauses'
      BY <1>8 DEF FailureCauses
    <2>6. CollectOK' /\ CountOK'
      BY <1>3, <1>5, <1>8, <2>1 DEF CollectOK, CountOK
    <2>7. Layout(start)'
      <3>1. Starts(start)
        BY <1>6 DEF Layout
      <3>2. PICK p, B, N, C : p = Here(start) /\ B = buf' /\ N = net' /\ C = coming'
        OBVIOUS
      <3>3. start[head + 1] = start[head] + WireSize(head, sizes[head]) /\ start[head] \in Nat
        BY <1>2, <1>3, <3>1 DEF Starts
      <3>4. total_num = WireSize(head, sizes[head]) - Header
        BY <1>2 DEF Collecting
      <3>5. WireSize(head, sizes[head]) \in Nat /\ Header \in Nat
        <4>1. sizes[head] \in Sizes
          BY <1>2, <1>3, Types
        <4> QED BY <4>1, SizeFacts, PacketReaderAssumption
      <3>6. p = start[head] + (Header + total_num)
        BY <1>2, <3>2 DEF Here, Current
      <3>7. Here(start)' = start[head + 1] + 0
        <4>1. Current' = head + 1
          BY <1>2, <2>1 DEF Current
        <4> QED BY <1>8, <4>1 DEF Here
      <3>8. Here(start)' = p
        <4>1. PICK w, b : w = WireSize(head, sizes[head]) /\ b = start[head]
          OBVIOUS
        <4>2. w \in Nat /\ b \in Nat /\ start[head + 1] = b + w /\ p = b + (Header + (w - Header))
          BY <3>3, <3>4, <3>5, <3>6, <4>1
        <4>3. b + w + 0 = b + (Header + (w - Header))
          BY <3>5, <4>2
        <4> QED BY <3>7, <4>2, <4>3
      <3>9. /\ Lies(start, B, p) /\ Lies(start, N, p + Len(B)) /\ Lies(start, C, p + Len(B) + Len(N))
            /\ ~lost => p + Len(B) + Len(N) + Len(C) = start[Len(sizes) + 1]
        BY <1>1, <1>6, <3>2 DEF Layout
      <3> QED BY <1>1, <3>1, <3>2, <3>8, <3>9, LayoutSame
    <2> QED BY <2>3, <2>4, <2>5, <2>6, <2>7 DEF IInv, LayoutOK
  <1> QED BY <1>4, <1>7, <1>8 DEF FullPacket

-----------------------------------------------------------------------------
(* What is taken out of the buffer.                                         *)
LEMMA Consume ==
  ASSUME TypeOK, PacketsWhole, NEW start, Layout(start), NEW n \in 0..Len(buf), buf' = Skip(buf, n),
         UNCHANGED <<sizes, coming, net, lost>>, Here(start)' = Here(start) + n
  PROVE  Layout(start)' /\ buf' \in Seq(ByteSet) /\ Len(buf') <= BufSize
  <1>1. /\ buf \in Seq(ByteSet) /\ Len(buf) \in Nat /\ Len(net) \in Nat /\ Len(coming) \in Nat
        /\ Len(buf) <= BufSize /\ BufSize \in Nat
    BY Types
  <1>2. buf' \in Seq(ByteSet) /\ Len(buf') = Len(buf) - n
    BY <1>1, SkipFacts
  <1>3. Starts(start)
    BY DEF Layout
  <1>4. PICK p, q, B, N, C : p = Here(start) /\ q = p + n /\ B = buf' /\ N = net' /\ C = coming'
    OBVIOUS
  <1>5. p \in Nat /\ q \in Nat /\ n \in Nat
    BY <1>1, <1>3, <1>4, HereType
  <1>6. q + Len(B) = p + Len(buf)
    <2>1. PICK x : x = Len(buf)
      OBVIOUS
    <2>2. x \in Nat /\ Len(B) = x - n
      BY <1>1, <1>2, <1>4, <2>1
    <2>3. (p + n) + (x - n) = p + x
      BY <1>5, <2>2
    <2> QED BY <1>4, <2>1, <2>2, <2>3
  <1>7. /\ Lies(start, buf, p) /\ Lies(start, net, p + Len(buf)) /\ Lies(start, coming, p + Len(buf) + Len(net))
        /\ ~lost => p + Len(buf) + Len(net) + Len(coming) = start[Len(sizes) + 1]
    BY <1>4 DEF Layout
  <1>8. Lies(start, B, q)
    BY <1>1, <1>4, <1>5, <1>7, LiesCut
  <1>9. /\ Lies(start, N, q + Len(B)) /\ Lies(start, C, q + Len(B) + Len(N))
        /\ ~lost' => q + Len(B) + Len(N) + Len(C) = start[Len(sizes) + 1]
    BY <1>4, <1>6, <1>7
  <1>10. Here(start)' = q
    BY <1>4
  <1>11. Layout(start)'
    BY <1>3, <1>4, <1>8, <1>9, <1>10, LayoutSame
  <1>12. Len(buf') <= BufSize
    BY <1>1, <1>2
  <1> QED BY <1>2, <1>11, <1>12

(* What is in the buffer of the current packet.                             *)
LEMMA Buffered ==
  ASSUME TypeOK, NEW start, Layout(start), NEW h \in 1..Len(sizes), NEW o \in Nat,
         Here(start) = start[h] + o, NEW n \in 0..Len(buf), o + n <= WireSize(h, sizes[h])
  PROVE  \A j \in 1..n : buf[j] = IF Sealed(h) /\ o + j - 1 < sizes[h]
                                  THEN <<h, o + j - 1, TRUE>> ELSE <<h, o + j - 1, FALSE>>
  <1> TAKE j \in 1..n
  <1>1. Starts(start) /\ Lies(start, buf, Here(start))
    BY DEF Layout
  <1>2. Len(sizes) \in Nat /\ Len(buf) \in Nat /\ sizes[h] \in Sizes
    BY Types
  <1>3. PICK w, b : w = WireSize(h, sizes[h]) /\ b = start[h]
    OBVIOUS
  <1>4. w \in Nat
    BY <1>2, <1>3, SizeFacts
  <1>5. b \in Nat /\ start[h + 1] = b + w
    BY <1>1, <1>2, <1>3 DEF Starts
  <1>6. PICK x : x = b + o + j - 1
    OBVIOUS
  <1>7. j \in 1..Len(buf)
    BY <1>2
  <1>8. At(start, buf[j], x)
    BY <1>1, <1>3, <1>6, <1>7 DEF Lies
  <1>9. x \in Nat /\ b <= x /\ x < b + w /\ x - b = o + j - 1
    <2>1. j \in Nat /\ j >= 1 /\ j <= n /\ n \in Nat
      BY <1>2
    <2>2. o + n <= w
      BY <1>3
    <2>3. b <= b + o + j - 1 /\ b + o + j - 1 < b + w /\ (b + o + j - 1) - b = o + j - 1 /\ b + o + j - 1 \in Nat
      BY <1>4, <1>5, <2>1, <2>2
    <2> QED BY <1>6, <2>3
  <1>10. start[h] <= x /\ x < start[h + 1] /\ x - start[h] = o + j - 1
    BY <1>3, <1>5, <1>9
  <1>11. buf[j] = IF Sealed(h) /\ x - start[h] < sizes[h]
                  THEN <<h, x - start[h], TRUE>> ELSE <<h, x - start[h], FALSE>>
    BY <1>1, <1>8, <1>9, <1>10, ByteAt
  <1> QED BY <1>10, <1>11

LEMMA DecryptFacts ==
  ASSUME NEW T, NEW s \in Seq(T), \A j \in 1..Len(s) : Clear(s[j]) \in ByteSet
  PROVE  /\ Decrypt(s) \in Seq(ByteSet) /\ Len(Decrypt(s)) = Len(s)
         /\ \A j \in 1..Len(s) : Decrypt(s)[j] = Clear(s[j])
  <1>1. PICK d : d = Decrypt(s)
    OBVIOUS
  <1>2. d = [j \in 1..Len(s) |-> Clear(s[j])] /\ Len(s) \in Nat
    BY <1>1 DEF Decrypt
  <1>3. d \in [1..Len(s) -> ByteSet]
    BY <1>2
  <1>4. d \in Seq(ByteSet) /\ Len(d) = Len(s)
    BY <1>2, <1>3
  <1>5. \A j \in 1..Len(s) : d[j] = Clear(s[j])
    BY <1>2
  <1> QED BY <1>1, <1>4, <1>5

(* The first block is that of the current packet, which says its size.      *)
LEMMA ReadHeadKeeps ==
  ASSUME IInv, ReadHead
  PROVE  IInv'
  <1>1. pc = "head" /\ UNCHANGED <<sizes, coming, net, lost, seqno, created, added>>
    BY DEF ReadHead, server
  <1>2. /\ TypeOK /\ PacketsWhole /\ FailureCauses /\ total_num = 0 /\ payload = <<>>
        /\ ~created /\ seqno = Len(added) + 0
    BY <1>1 DEF IInv, CollectOK, CountOK
  <1>3. /\ Header \in Nat \ {0} /\ Block \in Nat \ {0} /\ Header <= Block /\ Mac \in Nat \ {0}
        /\ Len(buf) \in Nat /\ Len(buf) <= BufSize /\ Len(sizes) \in Nat /\ Len(added) \in Nat
        /\ coming \in Seq(ByteSet) /\ net \in Seq(ByteSet) /\ buf \in Seq(ByteSet) /\ lost \in BOOLEAN
        /\ NumPackets \in Nat /\ Len(sizes) <= NumPackets /\ NumPlain \in Nat /\ MaxPayload \in Nat
    BY <1>2, Types DEF TypeOK
  <1>4. PICK bs : bs = blocksize
    OBVIOUS
  <1>5. /\ bs \in Nat \ {0} /\ Header <= bs
        /\ encrypted => bs = Block
        /\ ~encrypted => bs = Header
    BY <1>3, <1>4 DEF blocksize
  <1>6. CASE Len(buf) < bs
    <2>1. pc' = "wait" /\ UNCHANGED <<buf, payload, total_num, head>>
      BY <1>4, <1>6 DEF ReadHead
    <2>2. \A start : Layout(start) => Layout(start)'
      BY <1>1, <2>1, LayoutStays
    <2> QED BY <1>1, <1>2, <1>3, <2>1, <2>2, MovesKeep
  <1>7. CASE ~(Len(buf) < bs)
    <2>1. PICK start : Layout(start)
      BY <1>1 DEF IInv, LayoutOK
    <2>2. Starts(start) /\ Lies(start, buf, Here(start))
      BY <2>1 DEF Layout
    <2>3. PICK h : h = Current
      OBVIOUS
    <2>4. h \in 1..(Len(sizes) + 1) /\ start[h] \in Nat /\ Here(start) = start[h] + 0 /\ h = Len(added) + 1
      BY <1>2, <2>2, <2>3, HereType DEF Here, Current
    <2>5. Here(start) = start[h]
      BY <2>4
    <2>6. h \in 1..Len(sizes)
      <3> SUFFICES ASSUME h = Len(sizes) + 1 PROVE FALSE
        BY <1>3, <2>4
      <3>1. 1 \in 1..Len(buf)
        BY <1>3, <1>5, <1>7
      <3>2. At(start, buf[1], start[h] + 1 - 1)
        BY <2>2, <2>5, <3>1 DEF Lies
      <3>3. PICK k \in 1..Len(sizes) : start[h] + 1 - 1 < start[k + 1]
        BY <3>2 DEF At
      <3>4. k + 1 \in 1..(Len(sizes) + 1) /\ k + 1 <= h
        BY <1>3
      <3>5. start[k + 1] <= start[h] /\ start[k + 1] \in Nat
        BY <2>2, <2>4, <3>4 DEF Starts
      <3> QED BY <2>4, <3>3, <3>5
    <2>7. PICK size, w : size = sizes[h] /\ w = WireSize(h, size)
      OBVIOUS
    <2>8. size \in Sizes
      BY <1>2, <2>6, <2>7, Types
    <2>9. encrypted <=> Sealed(h)
      BY <1>3, <2>4 DEF encrypted, Sealed
    <2>10. /\ size \in Nat /\ size >= Block /\ size > Header /\ w \in Nat /\ w >= size
           /\ encrypted => w = size + Mac
           /\ ~encrypted => w = size
      BY <2>7, <2>8, <2>9, SizeFacts
    <2>11. bs <= size /\ bs <= w /\ bs \in 0..Len(buf)
      BY <1>3, <1>5, <1>7, <2>10
    <2>0. PICK o \in Nat : o = 0
      OBVIOUS
    <2>12. \A j \in 1..bs : buf[j] = IF Sealed(h) /\ o + j - 1 < sizes[h]
                                     THEN <<h, o + j - 1, TRUE>> ELSE <<h, o + j - 1, FALSE>>
      <3>1. o + bs <= WireSize(h, sizes[h])
        BY <1>5, <2>0, <2>7, <2>11
      <3>2. Here(start) = start[h] + o
        BY <2>0, <2>4
      <3> QED BY <1>2, <2>1, <2>6, <2>11, <3>1, <3>2, Buffered
    <2>13. \A j \in 1..bs : buf[j] = IF encrypted THEN <<h, j - 1, TRUE>> ELSE <<h, j - 1, FALSE>>
      <3> TAKE j \in 1..bs
      <3>1. o + j - 1 = j - 1 /\ j - 1 < size
        BY <1>5, <2>0, <2>10, <2>11
      <3> QED BY <2>7, <2>9, <2>12, <3>1
    <2>14. h \in 1..NumPackets
      BY <1>3, <2>6
    <2>15. \A j \in 1..bs : /\ j - 1 \in Nat /\ <<h, j - 1, TRUE>> \in ByteSet /\ <<h, j - 1, FALSE>> \in ByteSet
                            /\ <<h, j - 1, TRUE>> # Junk /\ <<h, j - 1, FALSE>> # Junk
                            /\ Clear(<<h, j - 1, TRUE>>) = <<h, j - 1, FALSE>>
      <3> TAKE j \in 1..bs
      <3>1. j - 1 \in Nat
        BY <1>5
      <3> QED BY <2>14, <3>1, Genuine
    <2>16. FirstPacket = h
      <3>1. 1 \in 1..bs /\ 1 - 1 = 0
        BY <1>5
      <3>2. /\ buf[1] = IF encrypted THEN <<h, 0, TRUE>> ELSE <<h, 0, FALSE>>
            /\ <<h, 0, TRUE>> # Junk /\ <<h, 0, FALSE>> # Junk
        BY <2>13, <2>15, <3>1
      <3>3. PICK b, y, z : b = buf[1] /\ y = <<h, 0, TRUE>> /\ z = <<h, 0, FALSE>>
        OBVIOUS
      <3>4. y[2] = 0 /\ y[1] = h /\ z[2] = 0 /\ z[1] = h
        BY <3>3
      <3>5. (b = y \/ b = z) /\ y # Junk /\ z # Junk
        BY <3>2, <3>3
      <3>6. b # Junk /\ b[2] = 0 /\ b[1] = h
        BY <3>4, <3>5
      <3> QED BY <3>3, <3>6 DEF FirstPacket
    <2>17. PICK t : t = w - Header
      OBVIOUS
    <2>18. t \in Nat \ {0} /\ Total(sizes[FirstPacket]) = t /\ t = WireSize(h, sizes[h]) - Header
      <3>1. Total(size) = t
        BY <1>3, <2>10, <2>17 DEF Total
      <3>2. t \in Nat \ {0}
        BY <1>3, <2>10, <2>17
      <3>3. sizes[FirstPacket] = size
        BY <2>7, <2>16
      <3>4. t = WireSize(h, sizes[h]) - Header
        BY <2>7, <2>17
      <3> QED BY <3>1, <3>2, <3>3, <3>4
    <2> DEFINE tk == Take(buf, bs)
               first == IF encrypted THEN Decrypt(tk) ELSE tk
    <2>19. /\ buf' = Skip(buf, bs) /\ head' = h
           /\ \/ t > MaxPayload /\ pc' = "failed" /\ UNCHANGED <<payload, total_num>>
              \/ ~(t > MaxPayload) /\ total_num' = t /\ payload' = Skip(first, Header) /\ pc' = "body"
      <3>1. h # 0
        BY <2>14
      <3> QED BY <1>4, <1>7, <2>16, <2>18, <3>1 DEF ReadHead
    <2>20. first \in Seq(ByteSet) /\ Len(first) = bs /\ \A j \in 1..bs : first[j] = <<h, j - 1, FALSE>>
      <3>1. tk \in Seq(ByteSet) /\ Len(tk) = bs /\ \A j \in 1..bs : tk[j] = buf[j]
        BY <1>3, <2>11, TakeFacts
      <3> HIDE DEF tk
      <3>2. CASE encrypted
        <4>1. \A j \in 1..bs : Clear(tk[j]) = <<h, j - 1, FALSE>> /\ Clear(tk[j]) \in ByteSet
          BY <2>13, <2>15, <3>1, <3>2
        <4>2. /\ Decrypt(tk) \in Seq(ByteSet) /\ Len(Decrypt(tk)) = bs
              /\ \A j \in 1..bs : Decrypt(tk)[j] = Clear(tk[j])
          BY <3>1, <4>1, DecryptFacts
        <4> QED BY <3>2, <4>1, <4>2
      <3>3. CASE ~encrypted
        BY <2>13, <3>1, <3>3
      <3> QED BY <3>2, <3>3
    <2> HIDE DEF tk, first
    <2>21. TypeOK' => PacketsWhole'
      BY <1>1, <1>2 DEF PacketsWhole, Payload
    <2>22. CASE t > MaxPayload /\ pc' = "failed" /\ UNCHANGED <<payload, total_num>>
      <3>1. buf' \in Seq(ByteSet) /\ Len(buf') <= BufSize
        <4>1. buf' \in Seq(ByteSet) /\ Len(buf') = Len(buf) - bs
          BY <1>3, <2>11, <2>19, SkipFacts
        <4>2. BufSize \in Nat
          BY <1>2, Types
        <4> QED BY <1>3, <1>5, <4>1, <4>2
      <3>2. data_num' = data_num /\ head' \in 0..NumPackets
        BY <2>14, <2>19, <2>22 DEF data_num
      <3>3. TypeOK'
        BY <1>1, <1>2, <2>22, <3>1, <3>2 DEF TypeOK
      <3>4. FailureCauses'
        <4>1. h \in DOMAIN sizes
          BY <1>2, <2>6, Types
        <4>2. WireSize(h, sizes[h]) - Header > MaxPayload
          BY <2>18, <2>22
        <4> QED BY <1>1, <2>22, <4>1, <4>2 DEF FailureCauses
      <3>5. CollectOK' /\ CountOK' /\ LayoutOK'
        BY <1>1, <1>2, <2>22 DEF CollectOK, CountOK, LayoutOK
      <3> QED BY <2>21, <3>3, <3>4, <3>5 DEF IInv
    <2>23. CASE ~(t > MaxPayload) /\ total_num' = t /\ payload' = Skip(first, Header) /\ pc' = "body"
      <3>1. Header \in 0..Len(first)
        BY <1>3, <1>5, <2>20
      <3>2. /\ payload' \in Seq(ByteSet) /\ Len(payload') = bs - Header
            /\ \A j \in 1..(bs - Header) : payload'[j] = first[Header + j]
        BY <2>20, <2>23, <3>1, SkipFacts
      <3>3. \A j \in 1..(bs - Header) : payload'[j] = <<h, Header + j - 1, FALSE>>
        <4> TAKE j \in 1..(bs - Header)
        <4>1. Header + j \in 1..bs
          BY <1>3, <1>5
        <4>2. payload'[j] = first[Header + j]
          BY <3>2
        <4>3. first[Header + j] = <<h, Header + j - 1, FALSE>>
          <5>1. PICK i : i = Header + j
            OBVIOUS
          <5>2. first[i] = <<h, i - 1, FALSE>>
            BY <2>20, <4>1, <5>1
          <5>3. i - 1 = Header + j - 1
            BY <1>3, <1>5, <5>1
          <5> QED BY <5>1, <5>2, <5>3
        <4> QED BY <4>2, <4>3
      <3>4. data_num' = bs - Header /\ Current' = Current /\ encrypted' = encrypted
        BY <1>1, <3>2 DEF data_num, Current, encrypted
      <3>5. Here(start)' = Here(start) + bs
        <4>1. Here(start)' = start[h] + (Header + (bs - Header))
          BY <2>3, <2>18, <2>23, <3>4 DEF Here
        <4>2. Header + (bs - Header) = bs
          BY <1>3, <1>5
        <4> QED BY <2>5, <4>1, <4>2
      <3>6. Layout(start)' /\ buf' \in Seq(ByteSet) /\ Len(buf') <= BufSize
        BY <1>1, <1>2, <2>1, <2>11, <2>19, <3>5, Consume
      <3>7. data_num' <= total_num' /\ total_num' \in 0..MaxPayload /\ head' \in 0..NumPackets
        <4>1. bs - Header <= t
          BY <1>3, <1>5, <2>10, <2>11, <2>17
        <4>2. t \in 0..MaxPayload
          BY <1>3, <2>18, <2>23
        <4> QED BY <2>14, <2>19, <2>23, <3>4, <4>1, <4>2
      <3>8. TypeOK'
        BY <1>1, <1>2, <2>23, <3>2, <3>6, <3>7 DEF TypeOK
      <3>9. Collecting'
        <4>1. head' = Current' /\ head' <= Len(sizes')
          BY <1>1, <1>3, <2>3, <2>6, <2>19, <3>4
        <4>2. total_num' = WireSize(head', sizes'[head']) - Header
          BY <1>1, <2>18, <2>19, <2>23
        <4>3. \A j \in 1..data_num' : payload'[j] = <<head', Header + j - 1, FALSE>>
          BY <2>19, <3>3, <3>4
        <4>4. encrypted' => (Header + data_num') % Block = 0
          <5> SUFFICES ASSUME encrypted PROVE (Header + data_num') % Block = 0
            BY <3>4
          <5>1. Header + data_num' = Block * 1
            BY <1>3, <1>5, <3>4
          <5> QED BY <1>3, <5>1, Multiple
        <4> QED BY <4>1, <4>2, <4>3, <4>4 DEF Collecting, WireSize, Sealed
      <3>10. CollectOK' /\ CountOK'
        BY <1>1, <1>2, <2>18, <2>23, <3>9 DEF CollectOK, CountOK
      <3>11. FailureCauses' /\ LayoutOK'
        BY <2>23, <3>6 DEF FailureCauses, LayoutOK
      <3> QED BY <2>21, <3>8, <3>10, <3>11 DEF IInv
    <2> QED BY <2>19, <2>22, <2>23
  <1> QED BY <1>6, <1>7

(* How much is decrypted (e) and how much copied (c) of a packet of s bytes *)
(* in blocks of B and a MAC of M, when H + d bytes have been collected and  *)
(* n more are there.                                                        *)
Cutting(H, s, M, B, d, n, T, x, e, c) ==
    /\ H \in Nat /\ s \in Nat /\ M \in Nat /\ B \in Nat \ {0} /\ d \in Nat /\ n \in Nat
    /\ T \in Nat /\ T = s + M - H /\ n <= T - d /\ s % B = 0
    /\ d <= T - M => (H + d) % B = 0
    /\ x = IF d + n > T - M THEN (T - M) - d ELSE n - (n % B)
    /\ e = IF x > 0 THEN x ELSE 0
    /\ c = IF d + n > T - M THEN n - (IF x > 0 THEN x ELSE 0) ELSE 0

(* Whole blocks are decrypted, and neither part goes over the MAC's start.  *)
LEMMA Amounts ==
  ASSUME NEW H, NEW s, NEW M, NEW B, NEW d, NEW n, NEW T, NEW x, NEW e, NEW c,
         Cutting(H, s, M, B, d, n, T, x, e, c)
  PROVE  /\ e \in Nat /\ c \in Nat /\ e + c <= n /\ e % B = 0
         /\ \A j \in 1..e : H + d + j - 1 < s
         /\ \A j \in 1..c : ~(H + d + (e + j) - 1 < s)
         /\ d + e + c <= T - M => (H + (d + e + c)) % B = 0
  <1>0. /\ H \in Nat /\ s \in Nat /\ M \in Nat /\ B \in Nat \ {0} /\ d \in Nat /\ n \in Nat
        /\ T \in Nat /\ T = s + M - H /\ n <= T - d /\ s % B = 0
        /\ d <= T - M => (H + d) % B = 0
        /\ x = IF d + n > T - M THEN (T - M) - d ELSE n - (n % B)
        /\ e = IF x > 0 THEN x ELSE 0
        /\ c = IF d + n > T - M THEN n - (IF x > 0 THEN x ELSE 0) ELSE 0
    BY DEF Cutting
  <1> USE <1>0
  <1>1. T - M = s - H /\ T - M \in Int
    OBVIOUS
  <1>2. (B * 0) % B = 0 /\ B * 0 = 0
    BY Multiple
  <1>3. CASE d + n > T - M
    <2>1. x = (s - H) - d /\ c = n - e /\ x \in Int
      BY <1>1, <1>3
    <2>2. CASE x > 0
      <3>1. e = x /\ e \in Nat /\ H + d + e = s /\ d <= T - M
        BY <1>1, <2>1, <2>2
      <3>2. e < n
        BY <1>1, <1>3, <2>1, <3>1
      <3>3. c \in Nat /\ e + c = n
        BY <2>1, <3>1, <3>2
      <3>4. e % B = 0
        <4>1. (s - (H + d)) % B = 0
          <5>1. PICK y : y = H + d
            OBVIOUS
          <5>2. y \in Int /\ s \in Int /\ y % B = 0
            BY <3>1, <5>1
          <5> QED BY <5>1, <5>2, Sums
        <4>2. e = s - (H + d)
          BY <3>1
        <4> QED BY <4>1, <4>2
      <3>5. \A j \in 1..e : H + d + j - 1 < s
        BY <3>1
      <3>6. \A j \in 1..c : ~(H + d + (e + j) - 1 < s)
        BY <3>1, <3>3
      <3>7. ~(d + e + c <= T - M)
        BY <1>1, <1>3, <3>1, <3>3
      <3> QED BY <3>1, <3>3, <3>4, <3>5, <3>6, <3>7
    <2>3. CASE ~(x > 0)
      <3>1. e = 0 /\ c = n /\ H + d >= s
        BY <2>1, <2>3
      <3>2. e % B = 0
        BY <1>2, <3>1
      <3>3. \A j \in 1..c : ~(H + d + (e + j) - 1 < s)
        BY <3>1
      <3>4. ~(d + e + c <= T - M)
        BY <1>1, <1>3, <3>1
      <3> QED BY <3>1, <3>2, <3>3, <3>4
    <2> QED BY <2>2, <2>3
  <1>4. CASE ~(d + n > T - M)
    <2>1. PICK y : y = n - (n % B)
      OBVIOUS
    <2>2. y % B = 0 /\ y \in Nat /\ y <= n
      BY <2>1, Whole
    <2>3. e = y /\ c = 0
      BY <1>4, <2>1, <2>2
    <2>4. d + n <= s - H /\ d <= T - M
      BY <1>1, <1>4
    <2>5. \A j \in 1..e : H + d + j - 1 < s
      BY <2>2, <2>3, <2>4
    <2>6. (H + (d + e + c)) % B = 0
      <3>1. PICK z : z = H + d
        OBVIOUS
      <3>2. z \in Int /\ z % B = 0 /\ y \in Int
        BY <2>2, <2>4, <3>1
      <3>3. (z + y) % B = 0
        BY <2>2, <3>2, Sums
      <3>4. H + (d + e + c) = z + y
        BY <2>2, <2>3, <3>1
      <3> QED BY <3>3, <3>4
    <2> QED BY <2>2, <2>3, <2>5, <2>6
  <1> QED BY <1>3, <1>4

(* What ReadBody decrypts and what it copies.                               *)
DecAmount == IF encrypted /\ NumDecrypt(NumBytes) > 0 THEN NumDecrypt(NumBytes) ELSE 0
CopyAmount == IF encrypted THEN NumCopy(NumBytes) ELSE NumBytes

(* They are parts of the current packet: what is decrypted was encrypted,   *)
(* and what is copied was not.                                              *)
LEMMA Portions ==
  ASSUME IInv, pc = "body"
  PROVE  /\ DecAmount \in Nat /\ CopyAmount \in Nat /\ DecAmount % Block = 0
         /\ DecAmount + CopyAmount <= Len(buf)
         /\ data_num + DecAmount + CopyAmount <= total_num
         /\ \A j \in 1..DecAmount : Sealed(head) /\ Header + data_num + j - 1 < sizes[head]
         /\ \A j \in 1..CopyAmount :
               ~(Sealed(head) /\ Header + data_num + (DecAmount + j) - 1 < sizes[head])
         /\ encrypted /\ data_num + DecAmount + CopyAmount <= total_num - Mac
               => (Header + (data_num + DecAmount + CopyAmount)) % Block = 0
  <1>1. TypeOK /\ Collecting /\ total_num # 0
    BY DEF IInv, CollectOK
  <1>2. /\ Header \in Nat \ {0} /\ Block \in Nat \ {0} /\ Mac \in Nat \ {0} /\ NumPlain \in Nat
        /\ Len(buf) \in Nat /\ Len(sizes) \in Nat /\ Len(added) \in Nat
        /\ data_num \in Nat /\ total_num \in Nat /\ data_num <= total_num
    BY <1>1, Types
  <1>3. head = Len(added) + 1 /\ head \in 1..Len(sizes)
    BY <1>1, <1>2 DEF Collecting, Current
  <1>4. encrypted <=> Sealed(head)
    BY <1>2, <1>3 DEF encrypted, Sealed
  <1>5. PICK n, d, T, s : n = NumBytes /\ d = data_num /\ T = total_num /\ s = sizes[head]
    OBVIOUS
  <1>6. s \in Sizes
    BY <1>1, <1>3, <1>5, Types
  <1>7. s \in Nat /\ s % Block = 0 /\ (Sealed(head) => WireSize(head, s) = s + Mac)
    BY <1>6, SizeFacts
  <1>8. n \in Nat /\ n <= Len(buf) /\ n <= T - d /\ d \in Nat /\ T \in Nat /\ d <= T
    BY <1>2, <1>5 DEF NumBytes, Shorter
  <1>9. CASE encrypted
    <2>1. T = s + Mac - Header
      BY <1>1, <1>2, <1>4, <1>5, <1>7, <1>9 DEF Collecting
    <2>2. d <= T - Mac => (Header + d) % Block = 0
      BY <1>1, <1>5, <1>9 DEF Collecting
    <2>3. PICK x, e, c : x = NumDecrypt(n) /\ e = DecAmount /\ c = CopyAmount
      OBVIOUS
    <2>4. /\ x = IF d + n > T - Mac THEN (T - Mac) - d ELSE n - (n % Block)
          /\ e = IF x > 0 THEN x ELSE 0
          /\ c = IF d + n > T - Mac THEN n - (IF x > 0 THEN x ELSE 0) ELSE 0
      BY <1>5, <1>9, <2>3 DEF NumDecrypt, NumCopy, DecAmount, CopyAmount
    <2>5. /\ e \in Nat /\ c \in Nat /\ e + c <= n /\ e % Block = 0
          /\ \A j \in 1..e : Header + d + j - 1 < s
          /\ \A j \in 1..c : ~(Header + d + (e + j) - 1 < s)
          /\ d + e + c <= T - Mac => (Header + (d + e + c)) % Block = 0
      <3>1. /\ Header \in Nat /\ s \in Nat /\ Mac \in Nat /\ Block \in Nat \ {0} /\ d \in Nat /\ n \in Nat
            /\ T \in Nat /\ n <= T - d /\ s % Block = 0
        BY <1>2, <1>7, <1>8
      <3>2. Cutting(Header, s, Mac, Block, d, n, T, x, e, c)
        BY <2>1, <2>2, <2>4, <3>1 DEF Cutting
      <3> QED BY <3>2, Amounts
    <2>6. e + c <= Len(buf) /\ d + e + c <= T
      BY <1>2, <1>8, <2>5
    <2> QED BY <1>4, <1>5, <1>9, <2>3, <2>5, <2>6
  <1>10. CASE ~encrypted
    <2>1. DecAmount = 0 /\ CopyAmount = n
      BY <1>5, <1>10 DEF DecAmount, CopyAmount
    <2>2. 0 % Block = 0
      <3>1. (Block * 0) % Block = 0 /\ Block * 0 = 0
        BY <1>2, Multiple
      <3> QED BY <3>1
    <2>3. 0 + n <= Len(buf) /\ d + 0 + n <= T
      BY <1>2, <1>8
    <2>4. \A j \in 1..0 : FALSE
      OBVIOUS
    <2> QED BY <1>4, <1>5, <1>8, <1>10, <2>1, <2>2, <2>3, <2>4
  <1> QED BY <1>9, <1>10

LEMMA ReadBodyKeeps ==
  ASSUME IInv, ReadBody
  PROVE  IInv'
  <1>1. pc = "body" /\ UNCHANGED <<sizes, coming, net, lost, total_num, head, seqno, created, added>>
    BY DEF ReadBody, server
  <1>2. /\ TypeOK /\ PacketsWhole /\ Collecting /\ total_num # 0 /\ ~created /\ seqno = Len(added) + 0
    BY <1>1 DEF IInv, CollectOK, CountOK
  <1>3. PICK e, c, d, h, o : e = DecAmount /\ c = CopyAmount /\ d = data_num /\ h = head /\ o = Header + d
    OBVIOUS
  <1>4. /\ Header \in Nat \ {0} /\ Len(buf) \in Nat /\ Len(sizes) \in Nat /\ Len(added) \in Nat
        /\ d \in Nat /\ total_num \in Nat /\ NumPackets \in Nat /\ Len(sizes) <= NumPackets
        /\ buf \in Seq(ByteSet) /\ payload \in Seq(ByteSet) /\ d = Len(payload) /\ o \in Nat
    <2>1. /\ Header \in Nat \ {0} /\ Len(buf) \in Nat /\ Len(sizes) \in Nat /\ Len(added) \in Nat
          /\ total_num \in Nat /\ NumPackets \in Nat /\ Len(sizes) <= NumPackets
          /\ buf \in Seq(ByteSet) /\ payload \in Seq(ByteSet) /\ data_num \in Nat
      BY <1>2, Types
    <2>2. d = Len(payload)
      BY <1>3 DEF data_num
    <2>3. d \in Nat /\ o \in Nat
      BY <1>3, <2>1
    <2> QED BY <2>1, <2>2, <2>3
  <1>5. /\ e \in Nat /\ c \in Nat /\ e % Block = 0 /\ e + c <= Len(buf) /\ d + e + c <= total_num
        /\ \A j \in 1..e : Sealed(h) /\ o + j - 1 < sizes[h]
        /\ \A j \in 1..c : ~(Sealed(h) /\ o + (e + j) - 1 < sizes[h])
        /\ encrypted /\ d + e + c <= total_num - Mac => (Header + (d + e + c)) % Block = 0
    BY <1>1, <1>3, Portions
  <1>6. /\ h = Current /\ h \in 1..Len(sizes) /\ h \in 1..NumPackets
        /\ total_num = WireSize(h, sizes[h]) - Header
        /\ \A j \in 1..d : payload[j] = <<h, Header + j - 1, FALSE>>
    <2>1. head = Current /\ head <= Len(sizes) /\ total_num = WireSize(head, sizes[head]) - Header
      BY <1>2 DEF Collecting
    <2>2. \A j \in 1..data_num : payload[j] = <<head, Header + j - 1, FALSE>>
      BY <1>2 DEF Collecting
    <2>3. h \in 1..Len(sizes) /\ h \in 1..NumPackets
      BY <1>3, <1>4, <2>1 DEF Current
    <2> QED BY <1>3, <2>1, <2>2, <2>3
  <1> DEFINE tk == Take(buf, e)
             rest == Skip(buf, e)
             D == Decrypt(tk)
             K == Take(rest, c)
  <1>7. /\ payload' = (payload \o D) \o K /\ buf' = Skip(buf, e + c)
        /\ pc' = IF d + e + c = total_num THEN "full" ELSE "loop"
    BY <1>3, <1>5 DEF ReadBody, DecAmount, CopyAmount
  <1>8. PICK start : Layout(start)
    BY <1>1 DEF IInv, LayoutOK
  <1>9. Here(start) = start[h] + o
    BY <1>2, <1>3, <1>6, <1>8 DEF Here
  <1>10. e + c \in 0..Len(buf) /\ o + (e + c) <= WireSize(h, sizes[h])
    <2>1. PICK w : w = WireSize(h, sizes[h])
      OBVIOUS
    <2>2. w \in Nat
      <3>1. sizes[h] \in Sizes
        BY <1>2, <1>6, Types
      <3> QED BY <2>1, <3>1, SizeFacts
    <2>3. d + e + c <= w - Header
      BY <1>5, <1>6, <2>1
    <2>4. Header + d + (e + c) <= w
      BY <1>4, <1>5, <2>2, <2>3
    <2> QED BY <1>3, <1>4, <1>5, <2>1, <2>4
  <1>11. \A j \in 1..(e + c) : buf[j] = IF Sealed(h) /\ o + j - 1 < sizes[h]
                                        THEN <<h, o + j - 1, TRUE>> ELSE <<h, o + j - 1, FALSE>>
    <2>1. PICK n : n = e + c
      OBVIOUS
    <2>2. n \in 0..Len(buf) /\ o + n <= WireSize(h, sizes[h])
      BY <1>10, <2>1
    <2>3. \A j \in 1..n : buf[j] = IF Sealed(h) /\ o + j - 1 < sizes[h]
                                   THEN <<h, o + j - 1, TRUE>> ELSE <<h, o + j - 1, FALSE>>
      <3>1. TypeOK /\ o \in Nat /\ h \in 1..Len(sizes)
        BY <1>2, <1>4, <1>6
      <3> QED BY <1>8, <1>9, <2>2, <3>1, Buffered
    <2> QED BY <2>1, <2>3
  <1>12. \A i \in Nat : <<h, i, FALSE>> \in ByteSet /\ Clear(<<h, i, TRUE>>) = <<h, i, FALSE>>
    BY <1>6, Genuine
  <1>13. D \in Seq(ByteSet) /\ Len(D) = e /\ \A j \in 1..e : D[j] = <<h, o + j - 1, FALSE>>
    <2>1. tk \in Seq(ByteSet) /\ Len(tk) = e /\ \A j \in 1..e : tk[j] = buf[j]
      <3>1. e \in 0..Len(buf)
        BY <1>4, <1>5
      <3> QED BY <1>4, <3>1, TakeFacts
    <2> HIDE DEF tk
    <2>2. \A j \in 1..e : Clear(tk[j]) = <<h, o + j - 1, FALSE>> /\ Clear(tk[j]) \in ByteSet
      <3> TAKE j \in 1..e
      <3>1. j \in 1..(e + c) /\ o + j - 1 \in Nat
        BY <1>4, <1>5
      <3>2. buf[j] = <<h, o + j - 1, TRUE>>
        BY <1>5, <1>11, <3>1
      <3> QED BY <1>12, <2>1, <3>1, <3>2
    <2>3. D \in Seq(ByteSet) /\ Len(D) = e /\ \A j \in 1..e : D[j] = Clear(tk[j])
      BY <2>1, <2>2, DecryptFacts
    <2> QED BY <2>2, <2>3
  <1>14. K \in Seq(ByteSet) /\ Len(K) = c /\ \A j \in 1..c : K[j] = <<h, o + (e + j) - 1, FALSE>>
    <2>1. e \in 0..Len(buf)
      BY <1>4, <1>5
    <2>2. /\ rest \in Seq(ByteSet) /\ Len(rest) = Len(buf) - e
          /\ \A j \in 1..(Len(buf) - e) : rest[j] = buf[e + j]
      BY <1>4, <2>1, SkipFacts
    <2> HIDE DEF rest
    <2>3. c \in 0..Len(rest)
      BY <1>4, <1>5, <2>2
    <2>4. K \in Seq(ByteSet) /\ Len(K) = c /\ \A j \in 1..c : K[j] = rest[j]
      BY <2>2, <2>3, TakeFacts
    <2> HIDE DEF K
    <2>5. ASSUME NEW j \in 1..c PROVE K[j] = <<h, o + (e + j) - 1, FALSE>>
      <3>1. PICK i : i = e + j
        OBVIOUS
      <3>2. i \in 1..(e + c) /\ j \in 1..(Len(buf) - e)
        BY <1>4, <1>5, <3>1
      <3>3. K[j] = buf[i]
        BY <2>2, <2>4, <3>1, <3>2
      <3>4. ~(Sealed(h) /\ o + i - 1 < sizes[h])
        BY <1>5, <3>1
      <3>5. buf[i] = <<h, o + i - 1, FALSE>>
        BY <1>11, <3>2, <3>4
      <3> QED BY <3>1, <3>3, <3>5
    <2> QED BY <2>4, <2>5
  <1> HIDE DEF tk, rest, D, K
  <1>15. PICK P : P = payload \o D
    OBVIOUS
  <1>16. /\ P \in Seq(ByteSet) /\ Len(P) = d + e
         /\ \A j \in 1..d : P[j] = payload[j]
         /\ \A j \in 1..e : P[d + j] = D[j]
    <2>1. /\ payload \o D \in Seq(ByteSet) /\ Len(payload \o D) = Len(payload) + Len(D)
          /\ \A j \in 1..Len(payload) : (payload \o D)[j] = payload[j]
          /\ \A j \in 1..Len(D) : (payload \o D)[Len(payload) + j] = D[j]
      BY <1>4, <1>13, JoinFacts
    <2> QED BY <1>4, <1>13, <1>15, <2>1
  <1>17. PICK Q : Q = P \o K
    OBVIOUS
  <1>18. /\ Q \in Seq(ByteSet) /\ Len(Q) = d + e + c
         /\ \A j \in 1..(d + e) : Q[j] = P[j]
         /\ \A j \in 1..c : Q[d + e + j] = K[j]
    <2>1. /\ P \o K \in Seq(ByteSet) /\ Len(P \o K) = Len(P) + Len(K)
          /\ \A j \in 1..Len(P) : (P \o K)[j] = P[j]
          /\ \A j \in 1..Len(K) : (P \o K)[Len(P) + j] = K[j]
      <3>1. P \in Seq(ByteSet) /\ K \in Seq(ByteSet)
        BY <1>14, <1>16
      <3> QED BY <3>1, JoinFacts
    <2> QED BY <1>14, <1>16, <1>17, <2>1
  <1>19. payload' = Q
    BY <1>7, <1>15, <1>17
  <1>20. ASSUME NEW j \in 1..(d + e + c) PROVE Q[j] = <<h, Header + j - 1, FALSE>>
    <2>1. CASE j \in 1..d
      <3>1. j \in 1..(d + e)
        BY <1>4, <1>5, <2>1
      <3> QED BY <1>6, <1>16, <1>18, <2>1, <3>1
    <2>2. CASE j \in (d + 1)..(d + e)
      <3>1. PICK i : i = j - d
        OBVIOUS
      <3>2. i \in 1..e /\ j = d + i /\ j \in 1..(d + e)
        BY <1>4, <1>5, <2>2, <3>1
      <3>3. Q[j] = P[d + i] /\ P[d + i] = D[i] /\ D[i] = <<h, o + i - 1, FALSE>>
        BY <1>13, <1>16, <1>18, <3>2
      <3>4. o + i - 1 = Header + j - 1
        BY <1>3, <1>4, <1>5, <3>2
      <3> QED BY <3>3, <3>4
    <2>3. CASE j \in (d + e + 1)..(d + e + c)
      <3>1. PICK i : i = j - (d + e)
        OBVIOUS
      <3>2. i \in 1..c /\ j = d + e + i
        BY <1>4, <1>5, <2>3, <3>1
      <3>3. Q[j] = K[i] /\ K[i] = <<h, o + (e + i) - 1, FALSE>>
        BY <1>14, <1>18, <3>2
      <3>4. o + (e + i) - 1 = Header + j - 1
        BY <1>3, <1>4, <1>5, <3>2
      <3> QED BY <3>3, <3>4
    <2>4. j \in 1..d \/ j \in (d + 1)..(d + e) \/ j \in (d + e + 1)..(d + e + c)
      BY <1>4, <1>5
    <2> QED BY <2>1, <2>2, <2>3, <2>4
  <1>21. data_num' = d + e + c /\ Current' = Current /\ encrypted' = encrypted
    BY <1>1, <1>18, <1>19 DEF data_num, Current, encrypted
  <1>22. Here(start)' = Here(start) + (e + c)
    <2>1. Here(start)' = start[h] + (Header + (d + e + c))
      BY <1>1, <1>2, <1>6, <1>21 DEF Here
    <2>2. start[h] \in Nat
      BY <1>2, <1>6, <1>8, HereType DEF Layout
    <2>3. start[h] + (Header + (d + e + c)) = (start[h] + (Header + d)) + (e + c)
      <3>1. PICK b : b = start[h]
        OBVIOUS
      <3>2. b \in Nat
        BY <2>2, <3>1
      <3>3. b + (Header + (d + e + c)) = (b + (Header + d)) + (e + c)
        BY <1>4, <1>5, <3>2
      <3> QED BY <3>1, <3>3
    <2> QED BY <1>3, <1>9, <2>1, <2>3
  <1>23. Layout(start)' /\ buf' \in Seq(ByteSet) /\ Len(buf') <= BufSize
    BY <1>1, <1>2, <1>7, <1>8, <1>10, <1>22, Consume
  <1>24. TypeOK'
    <2>1. payload' \in Seq(ByteSet) /\ data_num' <= total_num'
      BY <1>1, <1>5, <1>18, <1>19, <1>21
    <2> QED BY <1>1, <1>2, <1>7, <1>23, <2>1 DEF TypeOK
  <1>25. PacketsWhole' /\ FailureCauses' /\ LayoutOK'
    BY <1>1, <1>2, <1>7, <1>23 DEF PacketsWhole, Payload, FailureCauses, LayoutOK
  <1>26. Collecting'
    <2>1. head' = Current' /\ head' <= Len(sizes') /\ total_num' = WireSize(head', sizes'[head']) - Header
      BY <1>1, <1>3, <1>4, <1>6, <1>21
    <2>2. \A j \in 1..data_num' : payload'[j] = <<head', Header + j - 1, FALSE>>
      BY <1>1, <1>3, <1>19, <1>20, <1>21
    <2>3. encrypted' /\ data_num' <= total_num' - Mac => (Header + data_num') % Block = 0
      BY <1>1, <1>5, <1>21
    <2> QED BY <2>1, <2>2, <2>3 DEF Collecting, WireSize, Sealed
  <1>27. CollectOK' /\ CountOK'
    BY <1>1, <1>2, <1>7, <1>21, <1>26 DEF CollectOK, CountOK
  <1> QED BY <1>24, <1>25, <1>27 DEF IInv

-----------------------------------------------------------------------------
LEMMA InitIInv ==
  ASSUME Init
  PROVE  IInv
  <1>1. /\ sizes = <<>> /\ coming = <<>> /\ net = <<>> /\ lost = FALSE
        /\ buf = <<>> /\ payload = <<>> /\ total_num = 0 /\ head = 0
        /\ seqno = 0 /\ created = FALSE /\ added = <<>> /\ pc = "caller"
    BY DEF Init
  <1>2. TypeOK
    <2>1. Len(<<>>) = 0 /\ \A T : <<>> \in Seq(T)
      OBVIOUS
    <2>2. 0 <= NumPackets /\ 0 \in 0..NumPackets /\ 0 <= BufSize /\ 0 \in 0..MaxPayload
      BY PacketReaderAssumption
    <2>3. sizes \in Seq(Sizes) /\ Len(sizes) <= NumPackets /\ Len(buf) <= BufSize /\ data_num <= total_num
      BY <1>1, <2>1, <2>2 DEF data_num
    <2>4. /\ coming \in Seq(ByteSet) /\ net \in Seq(ByteSet) /\ buf \in Seq(ByteSet) /\ payload \in Seq(ByteSet)
          /\ added \in Seq(Seq(ByteSet))
      BY <1>1, <2>1
    <2> QED BY <1>1, <2>2, <2>3, <2>4 DEF TypeOK
  <1>3. PacketsWhole /\ FailureCauses
    BY <1>1 DEF PacketsWhole, FailureCauses
  <1>4. CollectOK /\ CountOK
    BY <1>1 DEF CollectOK, CountOK
  <1>5. PICK start : start = [i \in 1..1 |-> 0]
    OBVIOUS
  <1>6. start \in [1..1 -> Nat] /\ start[1] = 0
    BY <1>5
  <1>7. Starts(start)
    BY <1>1, <1>6 DEF Starts
  <1>8. Here(start) = 0
    BY <1>1, <1>6 DEF Here, Current
  <1>9. Layout(start)
    BY <1>1, <1>6, <1>7, <1>8 DEF Layout, Lies
  <1> QED BY <1>2, <1>3, <1>4, <1>9 DEF IInv, LayoutOK

LEMMA StepIInv ==
  ASSUME IInv, [Next]_vars
  PROVE  IInv'
  <1>1. CASE \E size \in Sizes : Send(size)
    BY <1>1, SendKeeps
  <1>2. CASE \E n \in 1..Len(coming) : Arrive(n)
    BY <1>2, ArriveKeeps
  <1>3. CASE Lose
    BY <1>3, LoseKeeps
  <1>4. CASE Enter \/ Resume
    BY <1>4, EnterKeeps
  <1>5. CASE Refill
    BY <1>5, RefillKeeps
  <1>6. CASE ReadHead
    BY <1>6, ReadHeadKeeps
  <1>7. CASE ReadBody
    BY <1>7, ReadBodyKeeps
  <1>8. CASE FullPacket
    BY <1>8, FullPacketKeeps
  <1>9. CASE UNCHANGED vars
    <2>1. UNCHANGED <<sizes, coming, net, lost, buf, payload, total_num, head, seqno, created, added, pc>>
      BY <1>9 DEF vars, server, reader
    <2>2. \A start : Layout(start) => Layout(start)'
      BY <2>1, LayoutStays
    <2>3. data_num' = data_num /\ encrypted' = encrypted /\ Current' = Current
      BY <2>1 DEF data_num, encrypted, Current
    <2>4. TypeOK' /\ PacketsWhole' /\ FailureCauses' /\ CountOK'
      BY <2>1, <2>3 DEF IInv, TypeOK, PacketsWhole, Payload, FailureCauses, CountOK
    <2>5. CollectOK'
      BY <2>1, <2>3 DEF IInv, CollectOK, Collecting
    <2>6. LayoutOK'
      BY <2>1, <2>2 DEF IInv, LayoutOK
    <2> QED BY <2>4, <2>5, <2>6 DEF IInv
  <1> QED BY <1>1, <1>2, <1>3, <1>4, <1>5, <1>6, <1>7, <1>8, <1>9 DEF Next, Read

(* However recv() cuts the stream into pieces and whatever packets the      *)
(* server sends, _libssh2_transport_read keeps its place in it: what is     *)
(* buffered follows on what decrypt() and the copies collected.             *)
THEOREM Invariance == Spec => []IInv
  <1>1. Init => IInv
    BY InitIInv
  <1>2. IInv /\ [Next]_vars => IInv'
    BY StepIInv
  <1> QED BY <1>1, <1>2, PTL DEF Spec

(* p->buf never holds more than PACKETBUFSIZE bytes and p->payload never    *)
(* more than the total_num bytes that were allocated for it.                *)
THEOREM TypeCorrect == Spec => []TypeOK
  <1>1. IInv => TypeOK
    BY DEF IInv
  <1> QED BY <1>1, Invariance, PTL

(* fullpacket hands _libssh2_packet_add every packet once, whole, in clear  *)
(* and in the order sent.                                                   *)
THEOREM HandedOnWhole == Spec => []PacketsWhole
  <1>1. IInv => PacketsWhole
    BY DEF IInv
  <1> QED BY <1>1, Invariance, PTL

(* _libssh2_transport_read fails only when recv() reports the end of the    *)
(* connection or a packet is larger than LIBSSH2_PACKET_MAXPAYLOAD: never   *)
(* for a MAC that does not match, and decrypt() never meets a part of a     *)
(* block.                                                                   *)
THEOREM OnlyTheseFailures == Spec => []FailureCauses
  <1>1. IInv => FailureCauses
    BY DEF IInv
  <1> QED BY <1>1, Invariance, PTL

-----------------------------------------------------------------------------
(* A reader that waits has less than a block in its buffer, and less than   *)
(* the rest of the packet that it is collecting.                            *)
WaitOK ==
    /\ pc = "wait" => NeedsMore
    /\ pc \in {"loop", "wait"} /\ total_num # 0 => Len(buf) < total_num - data_num

LEMMA ClearType ==
  ASSUME NEW b \in ByteSet
  PROVE  Clear(b) \in ByteSet
  BY DEF Clear, ByteSet

(* A pass of the loop that does not complete the packet had less than all  *)
(* that is missing.                                                         *)
LEMMA BodyLeaves ==
  ASSUME IInv, pc = "body", data_num + DecAmount + CopyAmount # total_num
  PROVE  Len(buf) < total_num - data_num
  <1>1. TypeOK /\ Collecting
    BY DEF IInv, CollectOK
  <1>2. /\ Mac \in Nat \ {0} /\ Len(buf) \in Nat /\ data_num \in Nat /\ total_num \in Nat /\ data_num <= total_num
    BY <1>1, Types
  <1> SUFFICES ASSUME ~(Len(buf) < total_num - data_num) PROVE FALSE
    OBVIOUS
  <1>3. NumBytes = total_num - data_num
    BY <1>2 DEF NumBytes, Shorter
  <1>4. PICK d, T, n : d = data_num /\ T = total_num /\ n = NumBytes
    OBVIOUS
  <1>5. d \in Nat /\ T \in Nat /\ d <= T /\ n = T - d /\ Mac \in Nat \ {0}
    BY <1>2, <1>3, <1>4
  <1>6. CASE encrypted
    <2>1. PICK x : x = NumDecrypt(n)
      OBVIOUS
    <2>2. d + n > T - Mac
      BY <1>5
    <2>3. x = (T - Mac) - d
      BY <1>4, <2>1, <2>2 DEF NumDecrypt
    <2>4. /\ DecAmount = IF x > 0 THEN x ELSE 0
          /\ CopyAmount = n - (IF x > 0 THEN x ELSE 0)
      BY <1>4, <1>6, <2>1, <2>2 DEF DecAmount, CopyAmount, NumCopy
    <2>5. PICK e : e = IF x > 0 THEN x ELSE 0
      OBVIOUS
    <2>6. e \in Int /\ d + e + (n - e) = T
      BY <1>5, <2>3, <2>5
    <2> QED BY <1>4, <2>4, <2>5, <2>6
  <1>7. CASE ~encrypted
    <2>1. DecAmount = 0 /\ CopyAmount = n
      BY <1>4, <1>7 DEF DecAmount, CopyAmount
    <2>2. d + 0 + n = T
      BY <1>5
    <2> QED BY <1>4, <2>1, <2>2
  <1> QED BY <1>6, <1>7

LEMMA ReadBodyWaits ==
  ASSUME IInv, ReadBody
  PROVE  WaitOK'
  <1>1. pc = "body" /\ UNCHANGED <<total_num, added>>
    BY DEF ReadBody
  <1>2. PICK e, c, d : e = DecAmount /\ c = CopyAmount /\ d = data_num
    OBVIOUS
  <1>3. /\ e \in Nat /\ c \in Nat /\ e % Block = 0 /\ e + c <= Len(buf) /\ d + e + c <= total_num
    BY <1>1, <1>2, Portions
  <1>4. TypeOK
    BY DEF IInv
  <1>5. /\ buf \in Seq(ByteSet) /\ payload \in Seq(ByteSet) /\ Len(buf) \in Nat /\ total_num \in Nat
        /\ d \in Nat /\ d = Len(payload)
    BY <1>2, <1>4, Types DEF data_num
  <1> DEFINE D == Decrypt(Take(buf, e))
             K == Take(Skip(buf, e), c)
  <1>6. /\ payload' = (payload \o D) \o K /\ buf' = Skip(buf, e + c)
        /\ pc' = IF d + e + c = total_num THEN "full" ELSE "loop"
    BY <1>1, <1>2, <1>3 DEF ReadBody, DecAmount, CopyAmount
  <1>7. CASE d + e + c = total_num
    BY <1>6, <1>7 DEF WaitOK
  <1>8. CASE d + e + c # total_num
    <2>1. Len(buf) < total_num - d
      BY <1>1, <1>2, <1>8, BodyLeaves
    <2>2. D \in Seq(ByteSet) /\ Len(D) = e
      <3>1. e \in 0..Len(buf)
        BY <1>3, <1>5
      <3>2. PICK tk : tk = Take(buf, e)
        OBVIOUS
      <3>3. tk \in Seq(ByteSet) /\ Len(tk) = e
        BY <1>5, <3>1, <3>2, TakeFacts
      <3>4. \A j \in 1..Len(tk) : Clear(tk[j]) \in ByteSet
        BY <3>3, ClearType
      <3> QED BY <3>2, <3>3, <3>4, DecryptFacts
    <2>3. K \in Seq(ByteSet) /\ Len(K) = c
      <3>1. PICK rest : rest = Skip(buf, e)
        OBVIOUS
      <3>2. e \in 0..Len(buf)
        BY <1>3, <1>5
      <3>3. rest \in Seq(ByteSet) /\ Len(rest) = Len(buf) - e
        BY <1>5, <3>1, <3>2, SkipFacts
      <3>4. c \in 0..Len(rest)
        BY <1>3, <1>5, <3>3
      <3> QED BY <3>1, <3>3, <3>4, TakeFacts
    <2> HIDE DEF D, K
    <2>4. PICK P : P = payload \o D
      OBVIOUS
    <2>5. P \in Seq(ByteSet) /\ Len(P) = d + e
      BY <1>5, <2>2, <2>4, JoinFacts
    <2>6. Len(P \o K) = d + e + c
      BY <2>3, <2>5, JoinFacts
    <2>7. data_num' = d + e + c
      BY <1>6, <2>4, <2>6 DEF data_num
    <2>8. Len(buf') = Len(buf) - (e + c)
      <3>1. e + c \in 0..Len(buf)
        BY <1>3, <1>5
      <3> QED BY <1>5, <1>6, <3>1, SkipFacts
    <2>9. PICK l, T : l = Len(buf) /\ T = total_num
      OBVIOUS
    <2>10. l \in Nat /\ T \in Nat /\ l < T - d
      BY <1>5, <2>1, <2>9
    <2>11. l - (e + c) < T - (d + e + c)
      BY <1>3, <1>5, <2>10
    <2>12. Len(buf') < total_num' - data_num'
      BY <1>1, <2>7, <2>8, <2>9, <2>11
    <2> QED BY <1>6, <1>8, <2>12 DEF WaitOK
  <1> QED BY <1>7, <1>8

LEMMA StepWaits ==
  ASSUME IInv, WaitOK, [Next]_vars
  PROVE  WaitOK'
  <1>1. CASE (\E size \in Sizes : Send(size)) \/ (\E n \in 1..Len(coming) : Arrive(n)) \/ Lose \/ UNCHANGED vars
    <2>1. UNCHANGED <<buf, payload, total_num, added, pc>>
      BY <1>1 DEF Send, Arrive, Lose, vars, reader
    <2>2. UNCHANGED <<data_num, NeedsMore>>
      BY <2>1 DEF data_num, NeedsMore, blocksize, encrypted
    <2> QED BY <2>1, <2>2 DEF WaitOK
  <1>2. CASE Enter \/ Resume
    <2>1. UNCHANGED <<buf, payload, total_num, added>> /\ pc' # "wait" /\ (pc' = "loop" => pc \in {"caller", "wait"})
      BY <1>2 DEF Enter, Resume, reader
    <2>2. data_num' = data_num
      BY <2>1 DEF data_num
    <2>3. pc = "caller" => total_num = 0
      BY DEF IInv, CollectOK
    <2> QED BY <2>1, <2>2, <2>3 DEF WaitOK
  <1>3. CASE Refill
    <2>1. pc = "loop" /\ UNCHANGED <<payload, total_num, added>> /\ pc' # "loop"
          /\ (pc' = "wait" => NeedsMore /\ buf' = buf)
      BY <1>3 DEF Refill
    <2>2. data_num' = data_num /\ (buf' = buf => NeedsMore' = NeedsMore)
      BY <2>1 DEF data_num, NeedsMore, blocksize, encrypted
    <2> QED BY <2>1, <2>2 DEF WaitOK
  <1>4. CASE ReadHead
    <2>1. pc = "head" /\ added' = added /\ pc' # "loop"
          /\ (pc' = "wait" => Len(buf) < blocksize /\ buf' = buf /\ total_num' = total_num)
      BY <1>4 DEF ReadHead
    <2>2. total_num = 0
      BY <2>1 DEF IInv, CollectOK
    <2>3. blocksize' = blocksize
      BY <2>1 DEF blocksize, encrypted
    <2> QED BY <2>1, <2>2, <2>3 DEF WaitOK, NeedsMore
  <1>5. CASE ReadBody
    BY <1>5, ReadBodyWaits
  <1>6. CASE FullPacket
    BY <1>6 DEF FullPacket, WaitOK
  <1> QED BY <1>1, <1>2, <1>3, <1>4, <1>5, <1>6 DEF Next, Read

(* _libssh2_transport_read returns EAGAIN to wait for the socket only when  *)
(* its buffer lacks a part of the next packet: once the server's bytes have *)
(* all arrived, a reader that waits has handed on every packet, however     *)
(* recv() cut them.                                                         *)
THEOREM WaitsOnlyForMore == Spec => []NothingLeftBehind
  <1>1. Init => WaitOK
    BY DEF Init, WaitOK
  <1>2. IInv /\ WaitOK /\ [Next]_vars => WaitOK'
    BY StepWaits
  <1>3. IInv /\ WaitOK => NothingLeftBehind
    <2> SUFFICES ASSUME IInv, WaitOK, pc = "wait", ~lost, net = <<>>, coming = <<>>, Len(added) # Len(sizes)
                 PROVE  FALSE
      BY DEF NothingLeftBehind
    <2>1. TypeOK /\ PacketsWhole /\ Len(added) <= Len(sizes)
      BY DEF IInv, PacketsWhole
    <2>2. PICK start : Layout(start)
      BY DEF IInv, LayoutOK
    <2>3. /\ Len(added) \in Nat /\ Len(sizes) \in Nat /\ Len(buf) \in Nat /\ Header \in Nat /\ Block \in Nat
          /\ data_num \in Nat /\ total_num \in Nat /\ Header <= Block /\ Mac \in Nat
      BY <2>1, Types
    <2>4. PICK h, m : h = Current /\ m = Len(sizes) + 1
      OBVIOUS
    <2>5. h \in 1..Len(sizes) /\ h \in 1..m /\ h + 1 \in 1..m /\ m \in 1..m /\ h + 1 <= m
      BY <2>1, <2>3, <2>4 DEF Current
    <2>6. PICK a, b, z, w : a = start[h] /\ b = start[h + 1] /\ z = start[m] /\ w = WireSize(h, sizes[h])
      OBVIOUS
    <2>7. a \in Nat /\ b \in Nat /\ z \in Nat /\ b <= z /\ b = a + w
      BY <2>2, <2>4, <2>5, <2>6 DEF Layout, Starts
    <2>8. w \in Nat /\ w >= Block /\ w > Header
      <3>1. PICK s : s = sizes[h]
        OBVIOUS
      <3>2. s \in Sizes
        BY <2>1, <2>5, <3>1, Types
      <3>3. s \in Nat /\ s >= Block /\ WireSize(h, s) \in Nat /\ WireSize(h, s) >= s /\ WireSize(h, s) > Header
        BY <3>2, SizeFacts
      <3> QED BY <2>3, <2>6, <3>1, <3>3
    <2>9. Here(start) + Len(buf) = z
      <3>1. Here(start) + Len(buf) + 0 + 0 = start[Len(sizes) + 1]
        BY <2>2 DEF Layout
      <3>2. Here(start) \in Nat
        BY <2>1, <2>2, HereType DEF Layout
      <3> QED BY <2>3, <2>4, <2>6, <3>1, <3>2
    <2>10. CASE total_num = 0
      <3>1. Here(start) = a + 0
        BY <2>4, <2>6, <2>10 DEF Here
      <3>2. Len(buf) < blocksize /\ (blocksize = Block \/ blocksize = Header)
        BY DEF WaitOK, NeedsMore, blocksize
      <3>3. Len(buf) < Block
        BY <2>3, <3>2
      <3>4. a + Len(buf) = z
        BY <2>7, <2>9, <3>1
      <3> QED BY <2>3, <2>7, <2>8, <3>3, <3>4
    <2>11. CASE total_num # 0
      <3>1. Here(start) = a + (Header + data_num)
        BY <2>4, <2>6, <2>11 DEF Here
      <3>2. total_num = w - Header
        BY <2>4, <2>6, <2>11 DEF IInv, CollectOK, Collecting
      <3>3. Len(buf) < total_num - data_num
        BY <2>11 DEF WaitOK
      <3>4. PICK l, d, T : l = Len(buf) /\ d = data_num /\ T = total_num
        OBVIOUS
      <3>5. l \in Nat /\ d \in Nat /\ T \in Nat /\ T = w - Header /\ l < T - d /\ a + (Header + d) + l = z
        BY <2>3, <2>9, <3>1, <3>2, <3>3, <3>4
      <3> QED BY <2>3, <2>7, <2>8, <3>5
    <2> QED BY <2>10, <2>11
  <1> QED BY <1>1, <1>2, <1>3, Invariance, PTL DEF Spec

=============================================================================
