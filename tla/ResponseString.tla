--------------------------- MODULE ResponseString ---------------------------
(***************************************************************************)
(* form_response_string and the read loops that call it (wrapper.c, lines  *)
(* 32-40, 221-242 and 244-261): the output of a command is collected in a  *)
(* C string on the heap, one chunk of at most 1024 bytes at a time, and    *)
(* the string is handed to PyString_FromString.                            *)
(*                                                                         *)
(* The heap block is a function from offsets to bytes; what realloc adds   *)
(* is junk.  size_t arithmetic is modulo SizeModulus, since the chunk size *)
(* is a signed long that libssh2 makes negative to report an error.        *)
(***************************************************************************)
EXTENDS Integers, Sequences

CONSTANTS
    Chars,        \* the bytes that are not NUL
    Nul,          \* the NUL byte
    Junk,         \* the content of memory nobody wrote
    BufSize,      \* response_buffer, 1024
    MaxBytes,     \* bound on the bytes a command prints
    SizeModulus   \* values of a size_t, 2^64

ASSUME ResponseStringAssumption ==
    /\ Nul \notin Chars /\ Junk \notin Chars /\ Nul # Junk
    /\ BufSize \in Nat \ {0} /\ MaxBytes \in Nat
    /\ SizeModulus \in Nat /\ SizeModulus > 2 * (MaxBytes + BufSize + 2)

VARIABLES
    block,    \* the bytes of response_string_stdout (or _stderr)
    size,     \* how many there are
    state,    \* "reading", "done", or "overrun" after a write out of bounds
    result,   \* the str built from the string at the end
    stream,   \* history: every byte libssh2 returned
    text      \* history: of every chunk the bytes before its first NUL

vars == <<block, size, state, result, stream, text>>

Bytes == Chars \cup {Nul}

-----------------------------------------------------------------------------
(* The C library.                                                           *)

IsStrlen(b, n) == b[n] = Nul /\ \A m \in 0..(n - 1) : b[m] # Nul

strlen(b, sz) == CHOOSE n \in 0..(sz - 1) : IsStrlen(b, n)

Terminated(b, sz) == \E n \in 0..(sz - 1) : IsStrlen(b, n)

realloc(b, sz, new) ==
    [x \in 0..(new - 1) |-> IF x < sz THEN b[x] ELSE Junk]

memcpy(b, sz, at, chunk) ==
    [x \in 0..(sz - 1) |->
        IF at <= x /\ x < at + Len(chunk) THEN chunk[x - at + 1] ELSE b[x]]

-----------------------------------------------------------------------------
Init ==
    /\ block = [x \in 0..BufSize |-> Nul]
    /\ size = BufSize + 1
    /\ state = "reading"
    /\ result = <<>>
    /\ stream = <<>>
    /\ text = <<>>

(* Mutant: no room for the terminator.                                      *)
NewSize_NoTerminator(n, chunkSize) ==
    IF chunkSize = 0 THEN n + 1 ELSE (n + chunkSize) % SizeModulus

(* response_size + response_chunk_size + 1.                                 *)
NewSize(n, chunkSize) == (n + chunkSize + 1) % SizeModulus

(* Mutants: the terminator is not written; the chunk goes to the start.     *)
form_response_string_Unterminated(chunk) ==
    LET new == NewSize(strlen(block, size), Len(chunk))
        b == realloc(block, size, new)
    IN  memcpy(b, new, strlen(b, new), chunk)

form_response_string_Overwrite(chunk) ==
    LET new == NewSize(strlen(block, size), Len(chunk))
    IN  [memcpy(realloc(block, size, new), new, 0, chunk)
           EXCEPT ![new - 1] = Nul]

(* The block after form_response_string on a chunk of that many bytes.      *)
form_response_string(chunk) ==
    LET new == NewSize(strlen(block, size), Len(chunk))
        b == realloc(block, size, new)
    IN  [memcpy(b, new, strlen(b, new), chunk) EXCEPT ![new - 1] = Nul]

(* The bytes of a chunk are those before its first NUL, and the rest.       *)
Heads == UNION {[1..n -> Chars] : n \in 0..BufSize}
Rests == {<<>>} \cup {<<Nul>> \o r :
             r \in UNION {[1..n -> Bytes] : n \in 0..(BufSize - 1)}}

(* A read that returns bytes.                                               *)
ReadChunk ==
    /\ state = "reading"
    /\ \E head \in Heads, rest \in Rests :
          LET chunk == head \o rest IN
          /\ chunk # <<>> /\ Len(chunk) <= BufSize
          /\ Len(stream) + Len(chunk) <= MaxBytes
          /\ block' = form_response_string(chunk)
          /\ size' = NewSize(strlen(block, size), Len(chunk))
          /\ stream' = stream \o chunk
          /\ text' = text \o head
    /\ UNCHANGED <<state, result>>

(* The C string of a block, as PyString_FromString reads it.                *)
CString(b, sz) == [x \in 1..strlen(b, sz) |-> b[x - 1]]

(* A read that returns 0: one more call with an empty chunk, then the str.  *)
ReadEnd ==
    /\ state = "reading"
    /\ block' = form_response_string(<<>>)
    /\ size' = NewSize(strlen(block, size), 0)
    /\ result' = CString(block', size')
    /\ state' = "done"
    /\ UNCHANGED <<stream, text>>

(* A read that fails with -e: the copy takes -e for a size_t, and goes past *)
(* the block unless the allocator gave out that much (at most half of what  *)
(* a size_t counts), which the arithmetic below rules out for every e.      *)
Fits(chunkSize, new) ==
    chunkSize % SizeModulus <= new /\ new <= SizeModulus \div 2

(* Lines 229-234 with a negative size.  Past an overrun the contents of      *)
(* memory are undefined: the model stops there and leaves them as they were. *)
ReadError ==
    /\ state = "reading"
    /\ \E e \in 1..BufSize :
          state' = IF Fits(-e, NewSize(strlen(block, size), -e))
                   THEN "reading" ELSE "overrun"
    /\ UNCHANGED <<block, size, result, stream, text>>

Next == ReadChunk \/ ReadEnd \/ ReadError

Spec == Init /\ [][Next]_vars

-----------------------------------------------------------------------------
(* The block is as large as size says, and holds bytes.                     *)
TypeOK ==
    /\ size \in Nat /\ size > 0
    /\ block \in [0..(size - 1) -> Bytes \cup {Junk}]
    /\ state \in {"reading", "done", "overrun"}
    /\ result \in Seq(Chars)
    /\ stream \in Seq(Bytes) /\ text \in Seq(Chars)

(* Every strlen of the loop stops inside the block, at the end of what was  *)
(* collected, before any byte nobody wrote.                                 *)
StaysInBlock ==
    /\ Terminated(block, size)
    /\ strlen(block, size) = Len(text)
    /\ \A x \in 0..(Len(text) - 1) : block[x] = text[x + 1]

(* However the output is cut into chunks, an output without NUL bytes is    *)
(* returned whole; in general each chunk counts up to its first NUL.        *)
ResultExact ==
    state = "done" =>
        /\ result = text
        /\ (\A x \in DOMAIN stream : stream[x] # Nul) => result = stream

(* The string collected so far is a prefix of the string after any later   *)
(* read, and once it was handed to Python nothing is read.                  *)
OnlyGrows ==
    [][/\ state = "reading"
       /\ \A x \in 1..strlen(block, size) :
             /\ x <= strlen(block', size')
             /\ block'[x - 1] = block[x - 1]]_vars

=============================================================================
