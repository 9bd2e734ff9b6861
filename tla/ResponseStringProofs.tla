------------------------ MODULE ResponseStringProofs ------------------------
(***************************************************************************)
(* Proofs for ResponseString: whatever the chunk size, the length of the   *)
(* output and its division into chunks, the collected string stays         *)
(* terminated inside its block and the str handed to Python is exact.      *)
(***************************************************************************)
EXTENDS ResponseString, TLAPS

(* The block b of sz bytes holds the C string t.                            *)
Holds(b, sz, t) ==
    /\ sz \in Nat
    /\ Len(t) < sz
    /\ b \in [0..(sz - 1) -> Bytes \cup {Junk}]
    /\ b[Len(t)] = Nul
    /\ \A x \in 0..(Len(t) - 1) : b[x] = t[x + 1]

(* The history relates to itself: without NUL bytes, text is the stream.    *)
Whole == (\A x \in DOMAIN stream : stream[x] # Nul) => text = stream

IInv ==
    /\ state \in {"reading", "done", "overrun"}
    /\ stream \in Seq(Bytes) /\ text \in Seq(Chars)
    /\ Len(stream) <= MaxBytes /\ Len(text) <= Len(stream)
    /\ Holds(block, size, text)
    /\ Whole
    /\ result \in Seq(Chars)
    /\ state = "done" => result = text

(* A block that holds t has strlen Len(t).                                  *)
LEMMA StrlenOfHeld ==
    ASSUME NEW b, NEW sz, NEW t \in Seq(Chars), Holds(b, sz, t)
    PROVE  /\ strlen(b, sz) = Len(t)
           /\ Terminated(b, sz)
  <1>1. \A x \in 0..(Len(t) - 1) : b[x] # Nul
    <2>1. TAKE x \in 0..(Len(t) - 1)
    <2>2. t[x + 1] \in Chars
      OBVIOUS
    <2>3. b[x] = t[x + 1]
      BY DEF Holds
    <2> QED
      BY <2>2, <2>3, ResponseStringAssumption
  <1>2. IsStrlen(b, Len(t)) /\ Len(t) \in 0..(sz - 1)
    BY <1>1 DEF IsStrlen, Holds
  <1>3. ASSUME NEW n \in 0..(sz - 1), IsStrlen(b, n)
        PROVE  n = Len(t)
    <2>1. CASE n < Len(t)
      BY <1>1, <1>3, <2>1 DEF IsStrlen
    <2>2. CASE n > Len(t)
      BY <1>2, <1>3, <2>2 DEF IsStrlen
    <2> QED
      BY <2>1, <2>2
  <1> QED
    BY <1>2, <1>3 DEF strlen, Terminated

(* size_t arithmetic does not wrap for what the bounds allow.               *)
LEMMA NoWrap ==
    ASSUME NEW n \in Nat, NEW m \in Nat, n + m <= MaxBytes + BufSize
    PROVE  NewSize(n, m) = n + m + 1
  <1>1. n + m + 1 \in 0..(SizeModulus - 1)
    BY ResponseStringAssumption
  <1>2. SizeModulus \in Nat /\ SizeModulus > 0
    BY ResponseStringAssumption
  <1> QED
    BY <1>1, <1>2 DEF NewSize

(* form_response_string appends the bytes of the chunk before its first NUL *)
(* to the string in the block, and keeps it terminated.                     *)
LEMMA Appends ==
    ASSUME IInv,
           NEW head \in Seq(Chars), NEW rest \in Seq(Bytes),
           rest = <<>> \/ (Len(rest) > 0 /\ rest[1] = Nul),
           Len(text) + Len(head \o rest) <= MaxBytes
    PROVE  LET chunk == head \o rest IN
           Holds(form_response_string(chunk),
                 NewSize(strlen(block, size), Len(chunk)), text \o head)
  <1> DEFINE chunk == head \o rest
             new == Len(text) + Len(chunk) + 1
             b == realloc(block, size, new)
             m == memcpy(b, new, Len(text), chunk)
             f == [m EXCEPT ![new - 1] = Nul]
             t2 == text \o head
  <1>t. /\ text \in Seq(Chars) /\ Len(text) \in Nat /\ size \in Nat
        /\ Holds(block, size, text)
    BY DEF IInv, Holds
  <1>c. /\ chunk \in Seq(Bytes) /\ Len(chunk) = Len(head) + Len(rest)
        /\ Len(chunk) \in Nat /\ Len(head) \in Nat /\ Len(rest) \in Nat
    BY DEF Bytes
  <1>b. BufSize \in Nat /\ MaxBytes \in Nat
    BY ResponseStringAssumption
  <1>1. strlen(block, size) = Len(text)
    BY <1>t, StrlenOfHeld
  <1>2. NewSize(Len(text), Len(chunk)) = new
    BY <1>t, <1>c, <1>b, NoWrap
  <1>n. new \in Nat /\ Len(text) < new
    BY <1>t, <1>c
  <1>3. Holds(b, new, text)
    <2>1. ASSUME NEW x \in 0..(new - 1)
          PROVE  b[x] = (IF x < size THEN block[x] ELSE Junk)
      BY <1>n DEF realloc
    <2>2. b \in [0..(new - 1) -> Bytes \cup {Junk}]
      BY <1>n, <1>t DEF realloc, Holds
    <2> HIDE DEF b, new
    <2>3. b[Len(text)] = Nul
      <3>1. Len(text) \in 0..(new - 1) /\ Len(text) < size
        BY <1>n, <1>t DEF Holds
      <3> QED
        BY <2>1, <3>1, <1>t DEF Holds
    <2>4. ASSUME NEW x \in 0..(Len(text) - 1)
          PROVE  b[x] = text[x + 1]
      <3>1. x \in 0..(new - 1) /\ x < size
        BY <1>n, <1>t DEF Holds
      <3> QED
        BY <2>1, <3>1, <1>t DEF Holds
    <2> QED
      BY <2>2, <2>3, <2>4, <1>n DEF Holds
  <1>4. strlen(b, new) = Len(text)
    BY <1>3, <1>t, StrlenOfHeld
  <1>5. form_response_string(chunk) = f
    BY <1>1, <1>2, <1>4 DEF form_response_string
  <1>6. ASSUME NEW x \in 0..(new - 1)
        PROVE  m[x] = IF Len(text) <= x /\ x < Len(text) + Len(chunk)
                      THEN chunk[x - Len(text) + 1] ELSE b[x]
    BY DEF memcpy
  <1>7. m \in [0..(new - 1) -> Bytes \cup {Junk}]
    <2>1. ASSUME NEW x \in 0..(new - 1),
                 Len(text) <= x, x < Len(text) + Len(chunk)
          PROVE  chunk[x - Len(text) + 1] \in Bytes
      <3>1. x - Len(text) + 1 \in 1..Len(chunk)
        BY <2>1, <1>t, <1>c, <1>n
      <3> HIDE DEF chunk
      <3> QED
        BY <3>1, <1>c
    <2>2. ASSUME NEW x \in 0..(new - 1)
          PROVE  b[x] \in Bytes \cup {Junk}
      BY <1>3, <2>2 DEF Holds
    <2> HIDE DEF chunk, b, new
    <2> QED
      BY <2>1, <2>2 DEF memcpy
  <1>8. /\ f \in [0..(new - 1) -> Bytes \cup {Junk}]
        /\ f[new - 1] = Nul
        /\ \A x \in 0..(new - 2) : f[x] = m[x]
    <2>1. Nul \in Bytes \cup {Junk} /\ new - 1 \in 0..(new - 1)
      BY <1>n, <1>t DEF Bytes
    <2> HIDE DEF m, new
    <2> QED
      BY <2>1, <1>7, <1>n
  <1>9. /\ t2 \in Seq(Chars) /\ Len(t2) = Len(text) + Len(head)
        /\ Len(t2) < new
    BY <1>t, <1>c
  <1>10. f[Len(t2)] = Nul
    <2>1. CASE rest = <<>>
      <3>1. Len(t2) = new - 1
        BY <2>1, <1>9, <1>c
      <3> QED
        BY <3>1, <1>8
    <2>2. CASE Len(rest) > 0 /\ rest[1] = Nul
      <3>1. /\ Len(t2) \in 0..(new - 2)
            /\ Len(text) <= Len(t2) /\ Len(t2) < Len(text) + Len(chunk)
        BY <2>2, <1>9, <1>c, <1>t
      <3>2. chunk[Len(t2) - Len(text) + 1] = rest[1]
        BY <2>2, <1>9, <1>c, <1>t
      <3>3. m[Len(t2)] = Nul
        BY <3>1, <3>2, <2>2, <1>6, <1>n
      <3> QED
        BY <3>1, <3>3, <1>8
    <2> QED
      BY <2>1, <2>2
  <1>11. ASSUME NEW x \in 0..(Len(t2) - 1)
         PROVE  f[x] = t2[x + 1]
    <2>1. x \in 0..(new - 2) /\ x \in 0..(new - 1)
      BY <1>9, <1>n, <1>c, <1>t
    <2>2. CASE x < Len(text)
      <3>1. m[x] = b[x]
        <4>1. ~(Len(text) <= x)
          BY <2>1, <2>2, <1>t
        <4> HIDE DEF m, b, new, chunk
        <4> QED
          BY <4>1, <2>1, <1>6
      <3>2. b[x] = text[x + 1]
        BY <2>1, <2>2, <1>3, <1>t DEF Holds
      <3>3. t2[x + 1] = text[x + 1]
        BY <2>1, <2>2, <1>t
      <3> QED
        BY <3>1, <3>2, <3>3, <2>1, <1>8
    <2>3. CASE x >= Len(text)
      <3>1. x < Len(text) + Len(chunk) /\ x - Len(text) + 1 \in 1..Len(head)
        BY <2>1, <2>3, <1>9, <1>t, <1>c
      <3>2. m[x] = chunk[x - Len(text) + 1]
        BY <2>1, <2>3, <3>1, <1>6
      <3>3. chunk[x - Len(text) + 1] = head[x - Len(text) + 1]
        BY <3>1, <1>c
      <3>4. t2[x + 1] = head[x - Len(text) + 1]
        BY <3>1, <2>1, <2>3, <1>t
      <3> QED
        BY <3>2, <3>3, <3>4, <2>1, <1>8
    <2> QED
      BY <2>2, <2>3, <2>1, <1>t
  <1>12. Holds(f, new, t2)
    <2> HIDE DEF f, new, t2
    <2> QED
      BY <1>8, <1>9, <1>10, <1>11, <1>n DEF Holds
  <1> QED
    BY <1>1, <1>2, <1>5, <1>12

(* Init establishes the invariant: malloc and memset of lines 226-227.      *)
LEMMA InitInv == Init => IInv
  <1> SUFFICES ASSUME Init PROVE IInv
    OBVIOUS
  <1>1. block \in [0..(size - 1) -> Bytes \cup {Junk}] /\ size \in Nat
    BY ResponseStringAssumption DEF Init, Bytes
  <1>2. Holds(block, size, text)
    BY <1>1, ResponseStringAssumption DEF Init, Holds
  <1> QED
    BY <1>2, ResponseStringAssumption DEF Init, IInv, Whole

(* The heads and rests a chunk is made of.                                  *)
LEMMA ChunkParts ==
    ASSUME NEW head \in Heads, NEW rest \in Rests
    PROVE  /\ head \in Seq(Chars) /\ rest \in Seq(Bytes)
           /\ rest = <<>> \/ (Len(rest) > 0 /\ rest[1] = Nul)
  <1>1. head \in Seq(Chars)
    BY DEF Heads
  <1>2. CASE rest = <<>>
    BY <1>1, <1>2
  <1>3. CASE rest # <<>>
    <2>1. PICK r \in UNION {[1..n -> Bytes] : n \in 0..(BufSize - 1)} :
             rest = <<Nul>> \o r
      BY <1>3 DEF Rests
    <2>2. r \in Seq(Bytes) /\ <<Nul>> \in Seq(Bytes)
      BY DEF Bytes
    <2> QED
      BY <1>1, <2>1, <2>2
  <1> QED
    BY <1>2, <1>3

(* A chunk keeps the invariant.                                             *)
LEMMA ReadChunkInv == IInv /\ ReadChunk => IInv'
  <1> SUFFICES ASSUME IInv, ReadChunk PROVE IInv'
    OBVIOUS
  <1>1. PICK head \in Heads, rest \in Rests :
           LET chunk == head \o rest IN
           /\ chunk # <<>> /\ Len(chunk) <= BufSize
           /\ Len(stream) + Len(chunk) <= MaxBytes
           /\ block' = form_response_string(chunk)
           /\ size' = NewSize(strlen(block, size), Len(chunk))
           /\ stream' = stream \o chunk
           /\ text' = text \o head
    BY DEF ReadChunk
  <1> DEFINE chunk == head \o rest
  <1>2. /\ head \in Seq(Chars) /\ rest \in Seq(Bytes)
        /\ rest = <<>> \/ (Len(rest) > 0 /\ rest[1] = Nul)
    BY ChunkParts
  <1>3. /\ chunk \in Seq(Bytes) /\ Len(chunk) = Len(head) + Len(rest)
        /\ Len(chunk) \in Nat /\ Len(head) \in Nat /\ Len(rest) \in Nat
    BY <1>2 DEF Bytes
  <1>4. /\ text \in Seq(Chars) /\ stream \in Seq(Bytes)
        /\ Len(text) <= Len(stream) /\ MaxBytes \in Nat
    BY ResponseStringAssumption DEF IInv
  <1>5. Len(text) + Len(chunk) <= MaxBytes
    BY <1>1, <1>3, <1>4
  <1>6. Holds(block', size', text')
    BY <1>1, <1>2, <1>5, Appends
  <1>7. /\ stream' \in Seq(Bytes) /\ text' \in Seq(Chars)
        /\ Len(stream') <= MaxBytes /\ Len(text') <= Len(stream')
    BY <1>1, <1>2, <1>3, <1>4
  <1>8. Whole'
    <2> SUFFICES ASSUME \A x \in DOMAIN stream' : stream'[x] # Nul
                 PROVE  text' = stream'
      BY DEF Whole
    <2>1. \A x \in DOMAIN stream : stream[x] # Nul
      <3> TAKE x \in DOMAIN stream
      <3>1. x \in DOMAIN stream' /\ stream'[x] = stream[x]
        BY <1>1, <1>3, <1>4
      <3> QED
        BY <3>1
    <2>2. text = stream
      BY <2>1 DEF IInv, Whole
    <2>3. rest = <<>>
      <3> SUFFICES ASSUME Len(rest) > 0, rest[1] = Nul PROVE FALSE
        BY <1>2
      <3> DEFINE x == Len(stream) + Len(head) + 1
      <3>1. x \in DOMAIN stream' /\ stream'[x] = chunk[Len(head) + 1]
        BY <1>1, <1>3, <1>4
      <3>2. chunk[Len(head) + 1] = rest[1]
        BY <1>2, <1>3
      <3> QED
        BY <3>1, <3>2
    <2>4. chunk = head
      BY <2>3, <1>2
    <2> QED
      BY <1>1, <2>2, <2>4
  <1> QED
    BY <1>6, <1>7, <1>8 DEF IInv, ReadChunk

(* The last, empty chunk keeps it, and the str is the collected text.       *)
LEMMA ReadEndInv == IInv /\ ReadEnd => IInv'
  <1> SUFFICES ASSUME IInv, ReadEnd PROVE IInv'
    OBVIOUS
  <1>1. text \in Seq(Chars) /\ Len(text) <= MaxBytes
    BY ResponseStringAssumption DEF IInv
  <1>2. text' = text /\ stream' = stream
    BY DEF ReadEnd
  <1>3. Holds(block', size', text')
    <2>1. /\ <<>> \in Seq(Chars) /\ <<>> \in Seq(Bytes)
          /\ <<>> \o <<>> = <<>> /\ Len(<<>>) = 0 /\ text \o <<>> = text
      BY <1>1
    <2>2. /\ block' = form_response_string(<<>> \o <<>>)
          /\ size' = NewSize(strlen(block, size), Len(<<>> \o <<>>))
      BY <2>1 DEF ReadEnd
    <2>3. Len(text) + Len(<<>> \o <<>>) <= MaxBytes
      BY <1>1, <2>1
    <2>4. Holds(block', size', text \o <<>>)
      BY <2>1, <2>2, <2>3, Appends
    <2> QED
      BY <2>4, <2>1, <1>2
  <1>4. strlen(block', size') = Len(text)
    BY <1>1, <1>2, <1>3, StrlenOfHeld
  <1>5. result' = text
    <2>1. result' = [x \in 1..Len(text) |-> block'[x - 1]]
      BY <1>4 DEF ReadEnd, CString
    <2>2. \A x \in 1..Len(text) : block'[x - 1] = text[x]
      BY <1>1, <1>2, <1>3 DEF Holds
    <2>3. text = [x \in 1..Len(text) |-> text[x]]
      BY <1>1
    <2> QED
      BY <2>1, <2>2, <2>3
  <1> QED
    BY <1>1, <1>2, <1>3, <1>5 DEF IInv, Whole, ReadEnd

(* Every step keeps the invariant.                                          *)
LEMMA StepInv == IInv /\ [Next]_vars => IInv'
  <1> SUFFICES ASSUME IInv, [Next]_vars PROVE IInv'
    OBVIOUS
  <1>1. CASE ReadChunk
    BY <1>1, ReadChunkInv
  <1>2. CASE ReadEnd
    BY <1>2, ReadEndInv
  <1>3. CASE ReadError
    BY <1>3 DEF ReadError, IInv, Holds, Whole
  <1>4. CASE UNCHANGED vars
    BY <1>4 DEF vars, IInv, Holds, Whole
  <1> QED
    BY <1>1, <1>2, <1>3, <1>4 DEF Next

(* The inductive invariant holds in every reachable state.                  *)
THEOREM Invariance == Spec => []IInv
  BY InitInv, StepInv, PTL DEF Spec

(* The block always has the size the code computed for it.                  *)
THEOREM TypeCorrect == Spec => []TypeOK
  <1>1. IInv => TypeOK
    BY DEF IInv, Holds, TypeOK
  <1> QED
    BY Invariance, <1>1, PTL

(* Every strlen of the read loop stops inside the block, at the end of what *)
(* was collected.                                                           *)
THEOREM StringStaysInBlock == Spec => []StaysInBlock
  <1>1. IInv => StaysInBlock
    <2> SUFFICES ASSUME IInv PROVE StaysInBlock
      OBVIOUS
    <2>1. text \in Seq(Chars) /\ Holds(block, size, text)
      BY DEF IInv
    <2> QED
      BY <2>1, StrlenOfHeld DEF StaysInBlock, Holds
  <1> QED
    BY Invariance, <1>1, PTL

(* The str handed to Python is what was collected; of an output without NUL *)
(* bytes, all of it.                                                        *)
THEOREM ResultsExact == Spec => []ResultExact
  <1>1. IInv => ResultExact
    BY DEF IInv, ResultExact, Whole
  <1> QED
    BY Invariance, <1>1, PTL

(* No read changes what earlier reads collected, and none comes after the   *)
(* string was handed to Python.                                             *)
THEOREM StringOnlyGrows == Spec => OnlyGrows
  <1> DEFINE Grows == /\ state = "reading"
                      /\ \A x \in 1..strlen(block, size) :
                            /\ x <= strlen(block', size')
                            /\ block'[x - 1] = block[x - 1]
  <1>1. IInv /\ [Next]_vars => [Grows]_vars
    <2> SUFFICES ASSUME IInv, Next PROVE Grows
      OBVIOUS
    <2>1. IInv'
      BY StepInv
    <2>2. text \in Seq(Chars) /\ Holds(block, size, text)
      BY DEF IInv
    <2>3. text' \in Seq(Chars) /\ Holds(block', size', text')
      BY <2>1 DEF IInv
    <2>4. \A x \in 1..Len(text) : x <= Len(text') /\ text'[x] = text[x]
      <3>1. CASE ReadChunk
        <4>1. PICK head \in Heads : text' = text \o head
          BY <3>1 DEF ReadChunk
        <4>2. head \in Seq(Chars)
          BY DEF Heads
        <4> QED
          BY <4>1, <4>2, <2>2
      <3>2. CASE ReadEnd \/ ReadError
        BY <3>2, <2>2 DEF ReadEnd, ReadError
      <3> QED
        BY <3>1, <3>2 DEF Next
    <2>5. strlen(block, size) = Len(text) /\ strlen(block', size') = Len(text')
      BY <2>2, <2>3, StrlenOfHeld
    <2>6. ASSUME NEW x \in 1..Len(text)
          PROVE  block'[x - 1] = block[x - 1]
      <3>1. x - 1 \in 0..(Len(text) - 1) /\ x - 1 \in 0..(Len(text') - 1)
        BY <2>2, <2>3, <2>4
      <3>a. (x - 1) + 1 = x
        OBVIOUS
      <3>b. /\ \A y \in 0..(Len(text) - 1) : block[y] = text[y + 1]
            /\ \A y \in 0..(Len(text') - 1) : block'[y] = text'[y + 1]
        BY <2>2, <2>3 DEF Holds
      <3>2. block[x - 1] = text[x] /\ block'[x - 1] = text'[x]
        BY <3>1, <3>a, <3>b
      <3> QED
        BY <3>2, <2>4
    <2> QED
      BY <2>4, <2>5, <2>6 DEF Next, ReadChunk, ReadEnd, ReadError
  <1> QED
    BY Invariance, <1>1, PTL DEF Spec, OnlyGrows

=============================================================================
