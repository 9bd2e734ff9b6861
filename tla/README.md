# RemoteSSHManager in TLA+

RemoteSSHManager is a C extension for Python 2.7 with one operation that
matters: `execute_ssh_instructions(host, user, password, key_path, commands)`
connects to a host, logs in, runs each command of a list on a channel of its
own and returns a tuple with, per command, its stdout, stderr, exit code and
exit signal. The extension's own code is `src/wrapper.c`; it is linked with the
libssh2 1.8.0 and OpenSSL 1.1.0c kept under `src/libraries/`.

The code is short, and most of what can go wrong is between the lines: the
interpreter lock is released and taken back six times per command, error paths
forget it, the command list belongs to a Python program that may change it,
libssh2 reports errors in places where nobody looks, and nothing ever times
out. This project models that, checks it with TLC on small instances, and proves
the central properties with TLAPS for every value of the constants.

## The parts of the system

| Part | State | Operations | What is hard | What makes it correct |
|---|---|---|---|---|
| `execute_ssh_instructions` (wrapper.c 77-298) | locals of each call; the interpreter lock, the thread states' pending exceptions, the shared list; open sockets | parse, resolve, connect, handshake, login, count, and per command: open, fetch, exec, read twice, close, store | several threads; error paths without the lock; a list changed between two segments; an 8-bit index; descriptors never closed | a returned tuple tells what happened; commands run in order, once; no exception in the wrong thread; calls return |
| `form_response_string` and the read loops (32-40, 221-261) | a heap block that is reallocated per chunk | append a chunk | chunk boundaries, NUL bytes, negative sizes | the C string stays inside its block and is the output |
| session setup and login (127-181; libssh2 `session.c`, `kex.c`, `comp.c`, `userauth.c`) | compression preference, method list, login state | preference, handshake, list, password, key | NULL results, None arguments, late and split replies, a lost connection | commands start only when logged in; one credential is used at most |
| channels (189-291; libssh2 `channel.c`, `packet.c`, `transport.c`) | receive window, buffered bytes, EOF, close, status, channel numbers | open, window adjust, read, packet_add, close, free | flow control, late packets, order of EOF, status and close | output complete, exit code the command's own, no deadlock |
| packets of the session (libssh2 `transport.c`, `packet.c`) | read buffer, the packet being collected, sequence number, the half sent packet, the brigade | read, decrypt, check, packet_add, send | bytes arrive in any pieces; a send may stop half way and another call goes on | packets whole, once and in order; no wait for bytes that are there |
| key exchange (`kex.c`) | the exchange's position, agreed methods, keys, session id | kexinit, agree, exchange, new keys | the server repeats it during a command | both ends change keys at the same packet; nothing overtakes the exchange; it ends |
| Python objects of a result (wrapper.c 183-297) | reference counts, slots, heap blocks | make, set, store, return, forget | stolen references, `None` without one, error returns, entries replaced by a wrapped index | as many references as owners; what the program holds is alive and whole |
| `get_build_information`, the method table, `DEBUG_OUTPUT` | none | | | not modelled |
| build (`Makefile`, `setup.py`) | files | targets | order of targets | not modelled |
| OpenSSL, rest of libssh2 | | | | not modelled: third party, used as black boxes |

The parts interact by calls: a call runs the setup, then for each command the
channel part, whose read loops use `form_response_string`. Threads share the
interpreter lock, the list, `gethostbyname`'s buffer and the table of
descriptors. Each libssh2 session belongs to one call. Below the channels and the
login, the session's packets are read and sent, and the server may start a key
exchange between any two of them, so that a read of a channel may end up in
`kex.c` and come back with EAGAIN.

## Modules

| Module | Models | Extends |
|---|---|---|
| `ExecuteSsh` | the call, its threads, the interpreter lock; libssh2 calls are steps that succeed or fail | |
| `ExecuteSshProofs` | theorems about it | `ExecuteSsh` |
| `ExecuteSshPromise` | theorems: it implements `SshCalls`, sends what the list says, is well behaved | `ExecuteSshProofs` |
| `ResponseString` | `form_response_string` and a read loop, byte by byte | |
| `ResponseStringProofs` | theorems about it | `ResponseString` |
| `SessionSetup` | setup and login with libssh2's requests and replies | |
| `SessionSetupProofs` | theorems about it | `SessionSetup` |
| `SshCalls` | what a call promises a Python program; `ExecuteSsh` implements it | |
| `PythonRefs` | reference counts and heap blocks of a call's result | |
| `PythonRefsProofs` | theorems about it | `PythonRefs` |
| `PacketReader` | `_libssh2_transport_read`, byte by byte | |
| `PacketReaderProofs` | theorems about it | `PacketReader` |
| `KeyExchange` | first and repeated key exchanges, half sent packets, packet_add's answers | |
| `KeyExchangeProofs` | theorems about it | `KeyExchange` |
| `SshChannel` | the command loop with libssh2's channels and the server | |
| `SshChannelProofs` | theorems about it | `SshChannel` |
| `MCExecuteSsh`, `MCResponseString`, `MCSessionSetup`, `MCSshChannel`, `MCPacketReader`, `MCKeyExchange`, `MCPythonRefs` | the instances TLC checks | the module named |

`ExecuteSsh` is the whole call with libssh2 as steps; `SessionSetup` opens up
its steps `Handshake` and `Authenticate`, `SshChannel` those from `OpenChannel`
to `FreeChannel`, and `ResponseString` the two `Read` steps. `PythonRefs` looks at
the segments with the lock once more, for the objects they make. `PacketReader`
is what `SshChannel` and `SessionSetup` take for granted, that packets arrive
whole and in order, and `KeyExchange` what happens to them when keys change.
`SshCalls` is the one above `ExecuteSsh`: threads, lock and network are gone.

### ExecuteSsh

`call[t]` holds the locals of thread t's latest call, with `pc` naming the next
segment. `gil` is the lock's holder and also `_PyThreadState_Current`. A step
with the lock is two actions, `Acquire` (`PyEval_RestoreThread`) and the
segment, which ends with `PyEval_SaveThread`; the steps between run without the
lock and interleave freely. An error path after line 97 is `Fail`: the exception
goes to the thread state that holds the lock (`exc[gil]`), or the process dies
if nobody holds it, and the thread returns to the interpreter without the lock
(`pc = "rogue"`), which aborts the process at the next tick (`Mixup`). NULL
dereferences are `Crash`. A dangling `char*` (line 210 to 212) is `Garbage`,
which may crash or run something else. `EditList` is what other Python code may
do to the list between two segments.

Data is abstract: the output, exit code and signal of a command are represented
by the command itself, so that an entry with another command's output would be
seen. `runs` and `sent` are history: how often (0, 1, several times) and with
which command the server confirmed that it started index j. When
`libssh2_channel_exec` fails the call does not know: the server may have started
the command and the confirmation been lost, so for the last index of a failed
call `runs` is a lower bound. `SharedHostent` says whether `gethostbyname` has one
buffer for the process (glibc) or one per thread (Darwin, the platform the
Makefile builds for). `hostent` is the last lookup in each buffer, with the calls
that were between their own lookup and line 114 when it was made (`over`,
history); `peer` is the lookup whose address a call connected to.

### ResponseString

`block` is a function from offsets to bytes, `size` the size `realloc` was
called with; new bytes are junk. `strlen`, `realloc` and `memcpy` do what C says
they do, and sizes are modulo `SizeModulus`, since a negative chunk size becomes
a `size_t`. `stream` and `text` are history. The bytes a read returns are
`head \o rest`, `rest` empty or starting with the first NUL.

### SessionSetup

`wire` is the one request or reply under way: libssh2 sends a request and waits
for its reply before it sends the next. A reply may come in two pieces; the
reply codes of the login are awaited by `_libssh2_packet_requirev`, which looks
at the clock when it is woken past its limit by a piece of the reply or by a
packet that is not the reply (`TimedOut`), while the service reply is awaited by `_libssh2_packet_require`, which does not.
`MethodPref`, `CompMethods` and `Agreed` are the negotiation of the compression.

### SshChannel

`ch` is the client's `LIBSSH2_CHANNEL`; bytes are counted per stream. `Refilled`
is the window after the two adjustments that a read makes before it looks for
data, `PacketAdded` what `_libssh2_packet_add` does to the channel, `Receive` one
`_libssh2_transport_read`. The server writes within the window it was granted,
sends EOF, exit status and CLOSE in the orders servers use (`StatusFirst` fixes
one), answers CLOSE with CLOSE, and may send unrelated packets. Packets are
delivered in order, as TCP does; `Lose` cuts both queues.

### SshCalls

A call is asked for, counted, runs its commands one by one, and answers, is
refused, or is abandoned; the process may die. `ExecuteSsh` implements it under the
mapping `Promise`: a call is "counted" once it is past line 184, the commands run
are `sent` up to the number of indices with a run, the answer is the entries'
first slots, and a thread without the lock that went back to the interpreter is
"abandoned". `Limit` is `IndexModulus`: a list that long is run over and over
(`Rerun`) and never answered. The steps that have no counterpart, the network,
the lock and the edits of the list, are stutters. So everything `KeepsPromise`
says of calls holds of `ExecuteSsh`: the count is taken once, commands run once and
in order, and the only answer is the whole one.

### PythonRefs

Objects are named by where they are made. `refs` is `ob_refcnt`, `content` the
slots of tuples, `local` the references of C variables, `lost` those forgotten by
an error return, `held` the program's. `PyTuple_SetItem` does all that CPython's
does: it takes over the reference, fails for a tuple that is shared and for an
index out of range, and gives up the slot's earlier item, which with a wrapped
index is the entry of an earlier turn. Freeing a result frees its entries and
items (`Doomed`, `Decref`). The program may keep a reference to any part of a
result and drop any it has between two segments. Calls are in sequence: the
counts change only with the lock, and calls share no object but `None`.

### PacketReader

A byte is named by its packet and offset and whether it is encrypted, so that a
byte decrypted twice, skipped or taken for another packet's is seen. The numbers
are small (`Header` 2 for 5 bytes, `Block` 3, `Mac` 4, `BufSize` 10) and keep what the
code depends on: the header fits in a block, packets are whole blocks, the MAC
is no multiple of a block and the buffer holds several packets, but not all. The
padding is part of the payload, and decompression is left out (no session is
compressed, see below). `packet_add` is a step that takes the packet or answers
EAGAIN while its reply is half sent; then `fullpacket` is entered again (`jump1`).

### KeyExchange

`pos` is the position in `_libssh2_kex_exchange` and the method's `exchange_keys`,
`half` the packet of which `outbuf` holds a part. A packet's `seal` is the cipher
that is set, the exchange its keys come from and the session id; a packet is
opened only with the seal it was closed with. Any call of the API is redirected
into an exchange that is under way, so the exchange's steps do not depend on
which call it is. Guessed packets (`burn_optimistic_kexinit`) are left out: the
client speaks first in all four methods that libssh2 has. Sequence numbers are
part of `PacketReader`. The server follows RFC 4253 and closes the connection when
the client does not.

## What TLC checks

Bounds are in the `.cfg` files; these are the runs that pass.

| Run | Instance | States | Properties |
|---|---|---|---|
| `Faulty` | 2 threads, 2 calls, 1 descriptor, lists of up to 2 elements, non-strings included, popped and overwritten by others, an index of 2 values, every step may fail | 2297692 | `TypeOK`, `RepeatsOnlyPastModulus`, `RunsArePrefix`, `OneChannel`, `ForeignExceptions`, `KeepsPromise` |
| `WellBehaved` | 2 concurrent calls, a growing list of up to 2 commands, an index of 3 values, one `gethostbyname` buffer, no failure, fairness, deadlock checked | 169934 | `ResultIntegrity`, `OwnUnlessOvertaken`, `SentAsListed`, `WellBehaved`, `CallsReturn` |
| `ChannelLoss` | 2 commands, channel numbers 0 and 1, noise, loss at any point | 1218256 | `TypeOK`, `OutputComplete`, `ExitCodeOwn` |
| `ChannelProgress` | 1 command, window 4, stdout of up to 4 and stderr of up to 3 bytes, status first, fairness | 7586 | `WindowAccounting`, `WindowSuffices`, `ExitCodeOwn`, `NeverStuck`, `CommandsFinish` |
| `Response` | chunks of up to 3 bytes, outputs of up to 5, 2 characters and NUL | 2748 | `StaysInBlock`, `ResultExact`, `OnlyGrows` |
| `Setup` | all 128 kinds of servers, all arguments, loss and lateness, fairness | 55416 | `TypeOK`, `LoggedIn`, `OneCredential`, `CrashCauses`, `SetupEnds` |
| `Reader` | 3 packets of 3 sizes, the first in clear, pieces of any size, loss, fairness | 190297 | `TypeOK`, `PacketsWhole`, `FailureCauses`, `NothingLeftBehind`, `AllRead` |
| `Rekey` | 3 exchanges, 6 kinds of servers that may change their offers, 3 packets under way in each direction, fairness | 77132 | `SealsMatch`, `OnlyKexPackets`, `OnlyAnswersInTheWay`, `NoMutualWait`, `ExchangeEnds` |
| `Refs` | 2 calls, lists of up to 3, 4 turns with an index of 3 values, 2 references taken by the program, 3 references to `None` elsewhere | 66006 | `CountsMatchOwners`, `NoneShortage`, `HeldIsWhole` |

Why the bounds are enough. Two threads give every pair of interleavings of
segments, and a property of one call involves one other thread at most; the
proofs cover any number. Two commands reach the second round of the loop, a
wrapped index (`IndexModulus = 2` in `Faulty`, where 256 stands in the code)
and a second channel that late packets of the first may meet. `WellBehaved` has room
for the index (`IndexModulus` 3, lists of 2), so that calls return tuples of two
entries, which could be mixed up, and a second call may come during the first or
find in the buffer what it left there. Lists that are popped from and overwritten
are in `Faulty`; `ResultIntegrity` is proved for them as well. `MaxCalls` above
`MaxFds` reaches a failed `socket()`. A window of 4, a buffer of 1 and packets of
up to 2 bytes cross the three-quarter mark that triggers a refill, and the two
streams together fill the window before anything is read. Outputs of 5 bytes over chunks of 3 give chunks
that are empty, partly NUL, full, and several in a row, and exceed the initial
block. In `Reader` a packet of 3, 6 or 9 bytes and its MAC of 4 in a buffer of 10
put the end of a read at every offset of header, block and MAC, and the third
packet is the first whose start may share the buffer with the end of another
sealed one; the largest size exceeds `MaxPayload`, once the MAC is added. In
`Rekey` the third exchange is the first to start from keys that are
not the first ones. In `Refs` four turns over three slots replace one entry, and
three references to `None` are used up by two calls. Only `WellBehaved` checks for deadlock: elsewhere calls are used up, a
process dies or a login ends, and the system may stop.

Properties, by the question they answer:

- *Does a returned tuple tell the truth?* `ResultIntegrity` (for each
  index below the measured length one command was run, once, and the entry is that
  command's output; which command it was is left open, since another thread may
  overwrite the list before line 210), `SentAsListed` (it is element j of the list,
  if the list only grows), `OutputComplete`,
  `ExitCodeOwn`, `ResultExact`, `StaysInBlock`, `OnlyGrows`.
- *What did a call that failed do?* `RunsArePrefix`, `OneChannel`,
  `ForeignExceptions`, `CrashCauses`.
- *Boundaries:* `RepeatsOnlyPastModulus`, `WindowAccounting`, `WindowSuffices`.
- *Identity:* `OwnUnlessOvertaken` (whose address a call connects to), `LoggedIn`, `OneCredential`.
- *Progress:* `CallsReturn`, `CommandsFinish`, `SetupEnds`, `WellBehaved`,
  `AllRead`, `ExchangeEnds`.
- *Is anyone stuck?* `NeverStuck`, `NothingLeftBehind`, `NoMutualWait`: what the
  progress properties rest on, as invariants. In a state where the client waits,
  what it waits for is under way, or the other end can take the step that sends
  it. No fairness is needed to say so, and so these are proved.
- *All of a call at once:* `KeepsPromise`.
- *The session below:* `PacketsWhole`, `FailureCauses`, `SealsMatch`,
  `OnlyKexPackets`, `OnlyAnswersInTheWay`.
- *Memory:* `CountsMatchOwners`, `NoneShortage`, `HeldIsWhole`.

`ExitCodeOwn` allows the initial 0 for a command that failed: with a server that
sends the status after the EOF, or after a failed close, the caller cannot tell
the two apart.

`SealsMatch` holds as long as the agreed methods stay the same.
`kex_agree_methods` sets `session->local.crypt` and `remote.crypt` at once, while
`crypt_abstract` and the packets of the exchange still belong to the old keys
until NEWKEYS: a server that offers other ciphers in a later exchange is answered
with garbled packets. `OnlyAnswersInTheWay` says where `LIBSSH2_ERROR_BAD_USE` comes
from: an answer that packet_add has half sent when a read returns its data is
finished only by another read; if the next call sends (a window adjustment, the
CLOSE of line 266), that packet is refused, the close fails, and the command is
reported with exit code 0. `NoneShortage` says what line 281 costs: each result
that is freed takes one reference to `None` per command that had no signal, as
does each entry replaced in a list of 256 commands or more, until the
interpreter aborts.

Fairness. `ExecuteSsh` assumes that libssh2 calls and segments are finished, that
the interpreter releases its lock every so many ticks, and that a thread that
keeps asking for the lock gets it (strong fairness, since the lock is free again
and again without being free continuously). `SshChannel` and `SessionSetup` assume
that a blocked call goes on when it can and that the server answers, writes and
ends; that is an assumption about the environment, since line 136 of wrapper.c
disables the timeout, and no client code would help against a silent server.
`PacketReader` assumes that bytes under way arrive, that the caller calls again
when the socket is ready, and that a reply is sent in the end; `KeyExchange` the
same of half sent packets (strong fairness, since a send may stop half way any
number of times) and that the server reads. The blocking mode of line 131 is what
justifies this: `BLOCK_ADJUST` waits for the socket and calls again.
Losing the connection, noise and delay are never fair.

### Where the code and its documentation disagree

Each of these runs is expected to find a violation.

| Run | Shows |
|---|---|
| `FailureReport` | "Failed to connect to host" is set without the lock: it lands in another thread or crashes the process (wrapper.c 120 and every error path after line 97) |
| `CloseWait` | `libssh2_channel_close` returns 0 after any packet, not after the server's CLOSE (channel.c 2347); wrapper.c 268 then reports exit code 0 |
| `ReadWindow` | a read waits without a receive window when unread stderr fills it (channel.c 1915); with no timeout, for ever |

Two disagreements are in the models without a run of their own. A failed read
has a negative size ("Actual number of bytes read or negative on failure",
libssh2_channel_read_ex.3), which lines 231-232 use as a length: `ReadError` in
`ResponseString` leaves the block for every error code. The zlib preference of line
142 ("Setting SSH compression to speed up big data transfers") is stripped, since
the session flag is not set and `_libssh2_comp_methods` offers only "none":
`MethodPref` and `Kex` in `SessionSetup`; no session is compressed.

Two more facts about the login show up as causes in `CrashCauses`: a reply that
arrives in pieces, or behind other packets, is given up 60 seconds after the
request although line 136 disables the timeout (packet.c 1243), and a user whom the server lets in without
a credential makes `libssh2_userauth_list` return NULL, which line 157 passes to
`strstr`.

## What is proved

Every safety invariant that a passing run checks, the one action property
`OnlyGrows` and the refinement `KeepsPromise` are theorems of the module's
`Spec`. All of it holds for every value of the constants that
satisfies the named assumptions below. In each module one inductive invariant
`IInv` is shown to hold initially and to be kept by every action, and the
properties follow from it; TLC checked each `IInv` before it was proved. The
type invariants of `ResponseString`, `KeyExchange` and `PythonRefs` are proved and no
run repeats them. The
three invariants about waiting need a second one on top of it (`EndOK`, `WaitOK`):
`IInv` says which packets *may* be under way, these say which *must* be.

What is assumed of the constants:

- the model values that stand for "nothing", "not a string", "junk" and so on are
  different from what they are used next to, and the numbers are numbers
  (`ExecuteSshAssumption`, `RefsAssumption`, `NamesAssumption`,
  `KeyExchangeAssumption`, `NoneIsNoPacket`, `SessionSetupAssumption`);
- `ResponseStringAssumption`: the size type is wide enough for the outputs
  considered;
- `SshChannelAssumption`: a session runs at most as many commands as there are
  channel numbers (2^32 in libssh2; only a list so long that the loop's 8-bit
  index wraps and it is run over and over gets there). Without it a late packet
  of a channel may meet a later one with its number;
- `PacketReaderAssumption`: packets are whole blocks and longer than their
  header, as RFC 4253 asks, a header fits in a block and a block in the buffer;
- `WellBehaved` and `SentAsListed` state their own conditions on the constants (no
  faults, descriptors enough, a list that is only appended to).

The modules:

- `ExecuteSshProofs`: `TypeCorrect`, `ResultsAreExact`, `NoRepeats`,
  `PrefixOnly`, `ChannelDiscipline`, `HostsOwnUnlessOvertaken`,
  `ForeignExceptionsTraced`.
  `ResultIntegrity` speaks of calls that returned; it is not inductive, because
  what makes it true is the state of the loop. `IInv` says, for the locals of a
  call (`CallOK`): before index i everything ran exactly once and its entry is
  stored, at i the command has run if `pc` is past `exec`, after i nothing ran,
  all of this while the index has not wrapped; what the slots of the reply hold
  at each `pc`; how many channels are open at each `pc`. `SharedOK`, `HostOK` and
  `ErrorsOK` tie the lock, the lookup buffers and the pending exceptions to the
  calls' positions: who holds the lock is at a point where the code holds it.
  `HostOK` says of a call that is about to connect that its buffer holds its own
  lookup, or one that was made over its head, for either kind of buffer.
  One lemma per kind of change of the locals (`SetupStepOK`, `CountOK`,
  `LoopStepOK`, `ExecOK`, `StoreOK`, `ReturnOK`, `FailOK`), one per kind of step
  (`StepInv`, `SegmentInv`, `FailInv`, `CrashInv`), and one per group of actions.
- `ResponseStringProofs`: `TypeCorrect`, `StringStaysInBlock`, `ResultsExact`,
  `StringOnlyGrows`. The invariant (`Holds`) says that the block starts with
  the collected text, followed by a NUL inside the block; the lemmas say that
  `strlen` is then the length of the text (`StrlenOfHeld`), that sizes do not wrap
  (`NoWrap`), and that `form_response_string` appends (`Appends`).
- `SessionSetupProofs`: `TypeCorrect`, `CommandsAreLoggedIn`,
  `CredentialsSpared`, `CrashesExplained`, `RepliesAreOwn`. The invariant ties `pc` to what is on
  the wire: which request or reply can be under way at each wait (`Paired`), that
  a success on the wire means that the server granted what was asked (`Honest`),
  which credential is in use at which point (`Credentials`), and why the list may
  be NULL (`ListCauses`).
- `ExecuteSshPromise`: `PromiseKept`, `SendsTheList`, `TameIsWell`. `StepEffect`
  says once what an action does to the locals of its call: it walks on, breaks
  off, measures the list, sends a command, stores an entry, returns or starts
  anew. `LoopInv` adds to `IInv` what happens to an index that wraps (`WrapOK`),
  which the promise's `Rerun` needs. For the refinement, `Unseen`, `SendSeen` and
  `ReturnSeen` map each effect to a step of `SshCalls` or to a stutter; the number
  of indices with a run, which the mapping counts, is shown to be the index
  (`RunCount`). `ListedInv` ties what was sent to the list at the time and survives
  appends. `FdInv` counts the descriptors: while there are as many as calls, one
  is left for every call that has yet to open its socket, so that without faults
  no error path is taken.
- `PythonRefsProofs`: `TypeCorrect`, `NoLeakNoDangling`, `NoneCostsOneEach`,
  `ProgramSeesWhole`. The argument is a balance: `PyTuple_SetItem` and
  `Py_DECREF` change the difference between an object's references and the slots
  that hold it by exactly the reference they take over (`SetItemLaw`, `DecrefLaw`),
  also when an item's tuple is freed with it. `IInv` has the balance (`Balanced`),
  what kind of object may be in which slot (`Kinds`), that objects of later turns
  do not exist yet (`Fresh`), what the call at work has built so far (`Current`),
  and that what the program can reach is complete (`Whole`).
- `KeyExchangeProofs`: `TypeCorrect`, `SealsAlwaysMatch`,
  `NothingElseInAnExchange`, `OnlyAnswersRefuse`, `WaitedForComes`,
  `NobodyWaitsInVain`. The invariant says for each pair
  of positions of client and server which packets may be under way in either
  direction and in which order (`Outbound`, `Inbound`, `Pending`), and with which
  keys each is sealed (`OutSeal`, `InSeal`): those before a NEWKEYS with the old
  ones, those after it with the new ones. `WaitOK` adds what must be under way: the
  server's KEXINIT until the client has it (`KexinitComes`, `NextComes`), the group
  once the server took the request, and the client's KEXINIT to a server whose
  offer it has just turned down (`RefusalComes`). With it every pair of positions
  in which the client reads leaves the server something to take.
- `SshChannelProofs`: `TypeCorrect`, `NothingIsLost`, `StatusIsOwn`,
  `RefillsSuffice`, `WindowsAgree`, `EndsArrive`, `NobodyIsStuck`. `Ledger` is the book-keeping of a channel: what the process
  wrote is what was read, what is buffered and what is under way, and the
  client's window is the server's, what is under way in both directions and what
  is buffered (after a loss, at least that). The invariant asks for running totals
  along the queue (`Tally`), and a packet that is appended or taken off extends or
  shortens them. `WindowAccounting` sums the queue with a recursive function
  instead; `BytesAre` shows that the two agree. That is an induction over the
  queue, carried out as the least counterexample of a set of positions
  (`LeastOf`), since the library's induction rule cannot be used here.
  `EndOK` says that an EOF or CLOSE which one end sent and the other has not seen
  is still under way. `NobodyIsStuck` follows: a read of stdout that waits with
  nothing under way has refilled the window, the books say that the server has
  all of it but the unread stderr, and `StderrFits` says that this is less. The
  condition is needed: without it `ReadWindow` shows the deadlock. `StatusOK` says where the exit
  status is when the server sends it first, `QueuesOK` that every packet under way
  belongs to a channel that was opened, which with distinct numbers keeps those
  of an earlier channel from the current one. The proof attempt found that
  `PacketAdded` was once written with overlapping CASE arms, of which TLC takes
  the first and TLA+ any; it now has one meaning.
- `PacketReaderProofs`: `TypeCorrect`, `HandedOnWhole`, `OnlyTheseFailures`,
  `WaitsOnlyForMore`. Every byte has a place in the stream the server sent. `Layout` asks for the places where
  packets start, and says that `buf`, `net` and `coming` follow one another in the
  stream from the place up to which the reader has collected; `Collecting` that
  what it collected is in clear and ends at a block of the packet or in its MAC.
  `Amounts` is the arithmetic of lines 489-561: what is decrypted is whole blocks,
  and the cut between decrypted and copied bytes is where the MAC starts. `WaitOK`
  says what a reader that waits lacks: fewer bytes are left in the buffer than a
  block, or than the packet it is collecting still needs, so with nothing under
  way the stream ends where the last packet does.

Only model-checked: liveness (`CallsReturn`, `CommandsFinish`, `SetupEnds`,
`AllRead`, `ExchangeEnds`), which needs fairness and ENABLED. For the channel, the
reader, the key exchange and the login (`RepliesAreOwn`) the proofs have the safe half of it: no state is
reached from which the other end could not go on. That the steps are then taken,
and that there are finitely many of them, is what TLC checks.

## Not modelled

`get_build_information` and the method table (no state), logging, the build (five
rules of a Makefile), memory exhaustion. libssh2 calls made from another
extension of the same process are outside.

Of the repository's 380000 lines of C, wrapper.c has 314; the rest is vendored.
OpenSSL (nine tenths of it) is arithmetic on numbers, tables, ASN.1 and a TLS
stack that libssh2 does not use: pure functions whose correctness is about values
no small instance represents, and code that is never called. Of libssh2, SFTP,
SCP, agent, known hosts, keyboard-interactive, forwarding and X11 are never
called by wrapper.c either. What wrapper.c does reach, `session.c`, `userauth.c`
(the two logins and the method list), `channel.c` (open, exec, read, close,
free), `packet.c`, `transport.c`, `kex.c` and `comp.c`, is modelled where it has
control of its own; the arithmetic and hashes of the key exchange, host key
signatures and the cipher and MAC implementations are black boxes. A map that
covered a third of the vendored lines would have to model code this program does
not run.

In libssh2, also left out: the answer to a channel request, which is built on the
stack and whose retry may pass another address (packet.c 839), `packet_add`'s
messages for forwarded connections, and the compression of packets.

Where a model is coarser than the code:

- `Fail` (`ExecuteSsh`): a thread that went back without the lock runs on until
  CPython's next check; the model goes to that check (`Mixup`). What the thread
  does to Python objects until then is undefined and not modelled.
- `ReadError` (`ResponseString`): after the overrun memory is undefined; the model
  stops there.
- `ExpandWindow` and `SendClose` (`SshChannel`) fail once the connection is lost; a
  real send may still succeed locally, and the next read fails instead.
- `Send` (`SessionSetup`) starts the clock anew for the signed request, where the
  code counts from the probe; `Elapse` may come at any time, so nothing is lost.
- Failures that end as others do: of the key's sign callback (userauth.c 1248) and
  of the other negotiations (kex.c 2351-2440) in `SessionSetup`, both an exception; of
  `packet_add` and `decrypt` (transport.c 142, 246) in `PacketReader` and of the host
  key and its signature (kex.c 928, 1067) in `KeyExchange`, both the end of the
  session.
- `KexAgree` (`KeyExchange`) has one list of methods, which stands for the cipher:
  an agreement that fails at the MAC after the cipher is set is not represented.
- `KexSend`: the refusal of an exchange's packet does not fail the redirected call;
  `OnlyAnswersInTheWay` shows that there is no such refusal.

## Plan

Done: the components above, their runs, and for each of them a proof of all its
safety invariants; the promise and its refinement, checked and proved; and for the
parts that wait for one another, that none waits in vain. Left, in
order of what they would say:

1. that `SessionSetup` implements the step `Authenticate` of `ExecuteSsh`, and
   `ResponseString` the two `Read` steps, as refinements like `KeepsPromise`;
2. action properties of the channel: a window never shrinks but for data, an exit
   status once known is never replaced;
3. the answer to a channel request (packet.c 839), whose retry may pass another
   address, in `KeyExchange`.
