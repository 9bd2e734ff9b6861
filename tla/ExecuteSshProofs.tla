-------------------------- MODULE ExecuteSshProofs --------------------------
(***************************************************************************)
(* Proofs about ExecuteSsh for any number of threads, any lists, any       *)
(* modulus of the loop index and any set of faults.  The argument is per   *)
(* call: CallOK says what the locals of one call look like at each line,   *)
(* and every step keeps it.                                                *)
(***************************************************************************)
EXTENDS ExecuteSsh, TLAPS

(* The lines where the current index has been sent to the server, those     *)
(* after stdout, stderr and the exit status went to the reply, and those    *)
(* where the session has a channel.                                         *)
Sent == {"stdout", "setout", "stderr", "seterr", "close", "setexit", "free",
         "store"}
HasStdout == {"stderr", "seterr", "close", "setexit", "free", "store"}
HasStderr == {"close", "setexit", "free", "store"}
HasExit == {"free", "store"}
HasChannel == (Sent \ {"store"}) \cup {"fetch", "exec"}
InLoop == Sent \cup {"begin", "open", "fetch", "exec"}

(* The entry for index j describes the command sent for it.                 *)
EntryOK(entry, cmd) ==
    /\ cmd # Unset
    /\ entry[0] = cmd /\ entry[1] = cmd
    /\ entry[2] \in {cmd, Default} /\ entry[3] = entry[2]

PositionOK(c) ==
    /\ c.i <= c.count
    /\ c.pc \in InLoop => c.i < c.count
    /\ c.pc = "return" \/ c.outcome = "tuple" => c.i = c.count
    /\ c.pc \notin InLoop \cup {"return", "python", "rogue"} =>
          c.i = 0 /\ c.count = 0
    /\ c.outcome = "pending" <=> c.pc # "python"
    /\ c.channels <= 1
    /\ c.pc # "rogue" => c.channels = IF c.pc \in HasChannel THEN 1 ELSE 0

(* Which indices were sent, and what the finished entries hold.             *)
RunsOK(c) ==
    /\ \A j \in Index : c.runs[j] > 0 => c.sent[j] # Unset
    /\ \A j, k \in Index : j < k /\ c.runs[k] > 0 => c.runs[j] > 0
    /\ \A j \in Index : j < c.i => c.runs[j] > 0
    /\ c.pc \in Sent => c.runs[c.i] > 0
    /\ c.count < IndexModulus =>
          \A j \in Index :
             c.runs[j] = IF j < c.i \/ (j = c.i /\ c.pc \in Sent)
                         THEN 1 ELSE 0

ReplyOK(c) ==
    /\ c.pc \in HasStdout => c.reply[0] = c.sent[c.i]
    /\ c.pc \in HasStderr => c.reply[1] = c.sent[c.i]
    /\ c.pc \in HasExit => /\ c.reply[2] \in {c.sent[c.i], Default}
                           /\ c.reply[3] = c.reply[2]
    /\ c.count < IndexModulus =>
          \A j \in Index : j < c.i => EntryOK(c.response[j], c.sent[j])

CallOK(c) == c \in CallRecords /\ PositionOK(c) /\ RunsOK(c) /\ ReplyOK(c)

CallsOK == \A t \in Threads : CallOK(call[t])

(* The shared part: the shapes, and the lock is only held at its points.    *)
SharedOK ==
    /\ gil \in Threads \cup {NoThread}
    /\ status \in {"up", "crashed"}
    /\ exc \in [Threads -> Threads \cup {NoThread}]
    /\ commands \in Seq(Elements) /\ Len(commands) <= MaxLen
    /\ initialized \in 0..MaxCalls
    /\ sockets \in 0..MaxFds
    /\ hostent \in [Threads \cup {NoThread} -> Lookups]
    /\ gil # NoThread => call[gil].pc \in GilPoints \cup {"python"}

(* The lookup is t's own, or was made while t waited to use the buffer.      *)
Reached(t, lookup) ==
    \/ lookup.by \in {t, NoThread}
    \/ SharedHostent /\ t \in lookup.over

HostOK ==
    \A t \in Threads : /\ call[t].pc = "connect" => Reached(t, hostent[Slot(t)])
                       /\ Reached(t, call[t].peer)

ErrorsOK ==
    \A t, u \in Threads : exc[u] = t /\ u # t => call[t].pc = "rogue"

IInv ==
    /\ call \in [Threads -> CallRecords]
    /\ CallsOK
    /\ SharedOK
    /\ HostOK
    /\ ErrorsOK

-----------------------------------------------------------------------------
(* The steps of one call, on its locals.                                    *)

USE DEF Sent, HasStdout, HasStderr, HasExit, HasChannel, InLoop

(* A call starts with fresh locals.                                         *)
LEMMA NewCallOK ==
    ASSUME NEW p \in PcValues, NEW o \in {"none", "pending", "raised"},
           NEW a \in {"list", "other", "invalid"},
           p \in {"python", "resolve"}, o = "pending" <=> p = "resolve"
    PROVE  CallOK(NewCall(p, o, a))
<1> DEFINE c == NewCall(p, o, a)
<1>1. c \in CallRecords
  BY ExecuteSshAssumption
  DEF NewCall, CallRecords, Pointers, Replies, NoReply, Slots, Index, Lookups,
      NoLookup
<1>2. PositionOK(c)
  BY DEF PositionOK, NewCall
<1>3. RunsOK(c)
  BY DEF RunsOK, NewCall, Index
<1>4. ReplyOK(c)
  BY DEF ReplyOK, NewCall, Index
<1> QED BY <1>1, <1>2, <1>3, <1>4 DEF CallOK

(* What CallOK depends on, apart from the position and the reply.           *)
SameCore(c, d) ==
    /\ d.outcome = c.outcome /\ d.count = c.count /\ d.i = c.i
    /\ d.response = c.response /\ d.runs = c.runs /\ d.sent = c.sent

(* The steps before the loop.                                               *)
BeforeLoop == {"resolve", "connect", "handshake", "userauth", "count"}

(* Lines 100-181: a step before the loop keeps the locals consistent.       *)
LEMMA SetupStepOK ==
    ASSUME NEW c, CallOK(c), NEW d \in CallRecords, SameCore(c, d),
           d.channels = c.channels, c.pc \in BeforeLoop, d.pc \in BeforeLoop
    PROVE  CallOK(d)
<1>1. PositionOK(d)
  BY DEF CallOK, SameCore, BeforeLoop, PositionOK
<1>2. RunsOK(d)
  BY DEF CallOK, SameCore, BeforeLoop, RunsOK
<1>3. ReplyOK(d)
  BY DEF CallOK, SameCore, BeforeLoop, ReplyOK
<1> QED BY <1>1, <1>2, <1>3 DEF CallOK

(* Line 184: the list is measured and the loop is entered or skipped.       *)
LEMMA CountOK ==
    ASSUME NEW c, CallOK(c), c.pc = "count",
           NEW d \in CallRecords,
           d.outcome = c.outcome, d.i = c.i, d.response = c.response,
           d.runs = c.runs, d.sent = c.sent, d.channels = c.channels,
           d.pc = LoopTest(0, d.count)
    PROVE  CallOK(d)
<1>0. c.i = 0 /\ c.count = 0 /\ d.count \in Nat
  BY DEF CallOK, PositionOK, CallRecords
<1>1. PositionOK(d)
  BY <1>0 DEF CallOK, PositionOK, LoopTest
<1>2. RunsOK(d)
  BY <1>0, ExecuteSshAssumption DEF CallOK, RunsOK, LoopTest, Index
<1>3. ReplyOK(d)
  BY <1>0 DEF CallOK, ReplyOK, LoopTest, Index
<1> QED BY <1>1, <1>2, <1>3 DEF CallOK

(* A step inside the loop that leaves runs, sent and response alone: the    *)
(* position moves within the lines before, or after, the command is sent.   *)
LEMMA LoopStepOK ==
    ASSUME NEW c, CallOK(c), NEW d \in CallRecords, SameCore(c, d),
           c.pc \in InLoop, d.pc \in InLoop, c.pc \in Sent <=> d.pc \in Sent,
           d.channels = IF d.pc \in HasChannel THEN 1 ELSE 0,
           d.pc \in HasStdout => d.reply[0] = d.sent[d.i],
           d.pc \in HasStderr => d.reply[1] = d.sent[d.i],
           d.pc \in HasExit => /\ d.reply[2] \in {d.sent[d.i], Default}
                               /\ d.reply[3] = d.reply[2]
    PROVE  CallOK(d)
<1>1. PositionOK(d)
  BY DEF CallOK, SameCore, PositionOK
<1>2. RunsOK(d)
  BY DEF CallOK, SameCore, RunsOK
<1>3. ReplyOK(d)
  BY DEF CallOK, SameCore, ReplyOK
<1> QED BY <1>1, <1>2, <1>3 DEF CallOK

(* Line 212: the server runs the command of the current index.              *)
LEMMA ExecOK ==
    ASSUME NEW c, CallOK(c), c.pc = "exec", c.command # Unset,
           NEW d \in CallRecords,
           d.outcome = c.outcome, d.count = c.count, d.i = c.i,
           d.response = c.response, d.channels = c.channels, d.pc = "stdout",
           d.runs = [c.runs EXCEPT ![c.i] = IF c.runs[c.i] = 0 THEN 1 ELSE 2],
           d.sent = [c.sent EXCEPT ![c.i] = c.command]
    PROVE  CallOK(d)
<1>0. /\ c.i \in Index /\ c.i \in Nat /\ c.i < c.count /\ c.count \in Nat
      /\ c.runs \in [Index -> 0..2] /\ c.sent \in [Index -> Pointers]
  BY ExecuteSshAssumption DEF CallOK, PositionOK, CallRecords, Index
<1>1. PositionOK(d)
  BY DEF CallOK, PositionOK
<1>2. RunsOK(d)
  <2>1. d.runs[c.i] \in {1, 2} /\ d.sent[c.i] = c.command
    BY <1>0
  <2>2. \A j \in Index : j # c.i =>
            d.runs[j] = c.runs[j] /\ d.sent[j] = c.sent[j]
    BY <1>0
  <2>3. c.count < IndexModulus => c.runs[c.i] = 0
    BY <1>0 DEF CallOK, RunsOK
  <2>4. \A j \in Index : j \in Nat /\ c.runs[j] \in Nat
    BY <1>0, ExecuteSshAssumption DEF Index
  <2>5. \A j, k \in Index : j < k /\ d.runs[k] > 0 => d.runs[j] > 0
    BY <1>0, <2>1, <2>2, <2>4 DEF CallOK, RunsOK
  <2>6. c.count < IndexModulus => d.runs[c.i] = 1
    BY <1>0, <2>3
  <2>7. c.count < IndexModulus =>
          \A j \in Index : d.runs[j] = IF j < c.i \/ j = c.i THEN 1 ELSE 0
    BY <1>0, <2>2, <2>4, <2>6 DEF CallOK, RunsOK
  <2> QED BY <1>0, <2>1, <2>2, <2>4, <2>5, <2>7 DEF CallOK, RunsOK
<1>3. ReplyOK(d)
  BY <1>0 DEF CallOK, ReplyOK, Index
<1> QED BY <1>1, <1>2, <1>3 DEF CallOK

(* Lines 289 and 189: the entry is stored and the index incremented.        *)
LEMMA StoreOK ==
    ASSUME NEW c, CallOK(c), c.pc = "store",
           NEW d \in CallRecords,
           d.outcome = c.outcome, d.count = c.count, d.i = Increment(c.i),
           d.response = [c.response EXCEPT ![c.i] = c.reply],
           d.channels = c.channels, d.runs = c.runs, d.sent = c.sent,
           d.pc = LoopTest(Increment(c.i), c.count)
    PROVE  CallOK(d)
<1>0. /\ c.i \in Index /\ c.i < c.count /\ c.count \in Nat
      /\ c.i < IndexModulus
      /\ c.response \in [Index -> Replies]
      /\ c.runs[c.i] > 0
      /\ EntryOK(c.reply, c.sent[c.i])
  BY ExecuteSshAssumption
  DEF CallOK, PositionOK, RunsOK, ReplyOK, CallRecords, Index, EntryOK
<1>1. PositionOK(d)
  BY <1>0, ExecuteSshAssumption DEF CallOK, PositionOK, LoopTest, Increment,
     Index
<1>2. RunsOK(d)
  BY <1>0, ExecuteSshAssumption DEF CallOK, RunsOK, Index, Increment, LoopTest
<1>3. ReplyOK(d)
  BY <1>0, ExecuteSshAssumption
  DEF CallOK, ReplyOK, Index, Increment, LoopTest
<1> QED BY <1>1, <1>2, <1>3 DEF CallOK

(* Line 297.                                                                *)
LEMMA ReturnOK ==
    ASSUME NEW c, CallOK(c), c.pc = "return",
           NEW d \in CallRecords,
           d.outcome \in {"tuple", "raised"}, d.count = c.count, d.i = c.i,
           d.response = c.response, d.runs = c.runs, d.sent = c.sent,
           d.channels = c.channels, d.pc = "python"
    PROVE  CallOK(d)
<1>1. PositionOK(d)
  BY DEF CallOK, PositionOK
<1>2. RunsOK(d)
  BY DEF CallOK, RunsOK
<1>3. ReplyOK(d)
  BY DEF CallOK, ReplyOK
<1> QED BY <1>1, <1>2, <1>3 DEF CallOK

(* An error path: the call keeps its locals and its thread goes back.       *)
LEMMA FailOK ==
    ASSUME NEW c, CallOK(c), c.pc \in BeforeLoop \cup {"open", "exec"},
           NEW d \in CallRecords, SameCore(c, d), d.channels = c.channels,
           d.pc = "rogue"
    PROVE  CallOK(d)
<1>1. PositionOK(d)
  BY DEF CallOK, SameCore, BeforeLoop, PositionOK
<1>2. RunsOK(d)
  BY DEF CallOK, SameCore, BeforeLoop, RunsOK
<1>3. ReplyOK(d)
  BY DEF CallOK, SameCore, BeforeLoop, ReplyOK
<1> QED BY <1>1, <1>2, <1>3 DEF CallOK

-----------------------------------------------------------------------------
(* The invariant as a whole.                                                *)

(* No call is under way at the start, so the invariant holds.               *)
LEMMA InitOK == Init => IInv
<1> SUFFICES ASSUME Init PROVE IInv
  OBVIOUS
<1>1. CallOK(NewCall("python", "none", "list"))
  BY NewCallOK DEF PcValues
<1>2. call \in [Threads -> CallRecords] /\ CallsOK
  BY <1>1 DEF Init, CallsOK, CallOK
<1>3. commands \in Seq(Elements) /\ Len(commands) <= MaxLen
  <2>1. PICK n \in 0..MaxLen : commands \in [1..n -> Elements]
    BY DEF Init
  <2> QED BY <2>1
<1>4. SharedOK
  BY <1>3, ExecuteSshAssumption DEF Init, SharedOK, Lookups, NoLookup
<1>5. HostOK /\ ErrorsOK
  BY ExecuteSshAssumption
  DEF Init, HostOK, ErrorsOK, NewCall, NoLookup, Reached
<1> QED BY <1>2, <1>4, <1>5 DEF IInv

(* A crash changes nothing but the status.                                  *)
LEMMA CrashInv ==
    ASSUME IInv, Crash
    PROVE  IInv'
BY DEF IInv, Crash, CallsOK, SharedOK, HostOK, ErrorsOK

(* A step outside the lock that takes t's locals to d.                      *)
LEMMA StepInv ==
    ASSUME IInv, NEW t \in Threads, NEW d, CallOK(d),
           UNCHANGED shared, call' = [call EXCEPT ![t] = d],
           gil = t => d.pc \in GilPoints \cup {"python"},
           call[t].pc # "rogue",
           d.pc # "connect",
           \/ d.peer = call[t].peer
           \/ call[t].pc = "connect" /\ d.peer = hostent[Slot(t)]
    PROVE  IInv'
<1>1. d \in CallRecords
  BY DEF CallOK
<1>2. call' \in [Threads -> CallRecords] /\ CallsOK'
  BY <1>1 DEF IInv, CallsOK
<1>3. SharedOK'
  BY DEF IInv, SharedOK, shared
<1>4. HostOK'
  BY DEF IInv, HostOK, shared
<1>5. ErrorsOK'
  BY DEF IInv, ErrorsOK, shared
<1> QED BY <1>2, <1>3, <1>4, <1>5 DEF IInv

(* A segment that takes t's locals to d and may raise in t's own state.     *)
LEMMA SegmentInv ==
    ASSUME IInv, NEW t \in Threads, NEW p, NEW d, CallOK(d), p # "rogue",
           Segment(t, p, d), d.pc # "connect", d.peer = call[t].peer,
           exc' \in {exc, [exc EXCEPT ![t] = t]}
    PROVE  IInv'
<1>1. d \in CallRecords
  BY DEF CallOK
<1>2. call' \in [Threads -> CallRecords] /\ CallsOK'
  BY <1>1 DEF IInv, CallsOK, Segment
<1>3. SharedOK'
  BY DEF IInv, SharedOK, Segment
<1>4. HostOK'
  BY DEF IInv, HostOK, Segment
<1>5. ErrorsOK'
  BY DEF IInv, ErrorsOK, SharedOK, Segment
<1> QED BY <1>2, <1>3, <1>4, <1>5 DEF IInv

(* An error path.  The thread does not hold the lock there.                 *)
LEMMA FailInv ==
    ASSUME IInv, NEW t \in Threads, Fail(t),
           call[t].pc \in (BeforeLoop \ {"count"}) \cup {"open", "exec"}
    PROVE  IInv'
<1>1. CASE gil = NoThread
  BY <1>1, CrashInv DEF Fail
<1>2. CASE gil # NoThread
  <2> DEFINE d == [call[t] EXCEPT !.pc = "rogue"]
  <2>1. /\ exc' = [exc EXCEPT ![gil] = t]
        /\ call' = [call EXCEPT ![t] = d]
        /\ UNCHANGED <<gil, status, commands, initialized, sockets, hostent>>
    BY <1>2 DEF Fail, Crash, IInv
  <2>2. CallOK(call[t]) /\ call[t] \in CallRecords
    BY DEF IInv, CallsOK, CallOK
  <2>3. /\ d \in CallRecords /\ d.pc = "rogue" /\ d.peer = call[t].peer
        /\ SameCore(call[t], d) /\ d.channels = call[t].channels
    BY <2>2 DEF CallRecords, PcValues, SameCore
  <2>4. CallOK(d)
    BY <2>2, <2>3, FailOK
  <2>5. gil \in Threads /\ gil # t
    BY <1>2 DEF IInv, SharedOK, GilPoints, BeforeLoop
  <2> HIDE DEF d
  <2>6. call' \in [Threads -> CallRecords] /\ CallsOK'
    BY <2>1, <2>3, <2>4 DEF IInv, CallsOK
  <2>7. SharedOK'
    BY <2>1, <2>5 DEF IInv, SharedOK
  <2>8. HostOK'
    BY <2>1, <2>3 DEF IInv, HostOK
  <2>9. ErrorsOK'
    BY <2>1, <2>3, <2>5 DEF IInv, ErrorsOK, SharedOK
  <2> QED BY <2>6, <2>7, <2>8, <2>9 DEF IInv
<1> QED BY <1>1, <1>2

-----------------------------------------------------------------------------
(* Every action keeps the invariant.                                        *)

(* What CPython does with the lock, the list and pending exceptions.        *)
LEMMA InterpreterInv ==
    ASSUME IInv, NEW t \in Threads, Interpreter(t)
    PROVE  IInv'
<1>1. CASE Acquire(t)
  BY <1>1 DEF Acquire, IInv, CallsOK, SharedOK, HostOK, ErrorsOK
<1>2. CASE Yield(t)
  BY <1>2 DEF Yield, IInv, CallsOK, SharedOK, HostOK, ErrorsOK
<1>3. CASE Surface(t)
  BY <1>3, ExecuteSshAssumption
  DEF Surface, IInv, CallsOK, SharedOK, HostOK, ErrorsOK
<1>4. CASE EditList(t)
  <2>1. PICK list \in Edits :
          /\ commands' = list
          /\ call' = [u \in Threads |->
                IF /\ call[u].pc = "exec" /\ call[u].command \in Commands
                   /\ call[u].command \notin Referenced(list)
                THEN [call[u] EXCEPT !.command = Garbage] ELSE call[u]]
    BY <1>4 DEF EditList
  <2>2. UNCHANGED <<gil, status, exc, initialized, sockets, hostent>>
    BY <1>4 DEF EditList
  <2>3. ASSUME NEW u \in Threads
        PROVE  /\ CallOK(call'[u])
               /\ call'[u].pc = call[u].pc /\ call'[u].peer = call[u].peer
    <3> DEFINE d == [call[u] EXCEPT !.command = Garbage]
    <3>1. call[u] \in CallRecords /\ CallOK(call[u])
      BY DEF IInv, CallsOK
    <3>2. /\ d \in CallRecords /\ SameCore(call[u], d)
          /\ d.pc = call[u].pc /\ d.peer = call[u].peer
          /\ d.channels = call[u].channels
      BY <3>1 DEF CallRecords, SameCore, Pointers
    <3>3. ASSUME call[u].pc = "exec" PROVE CallOK(d)
      <4>1. d.channels = 1
        BY <3>1, <3>2, <3>3 DEF CallOK, PositionOK
      <4> HIDE DEF d
      <4> QED BY <3>1, <3>2, <3>3, <4>1, LoopStepOK
    <3> QED BY <2>1, <3>1, <3>2, <3>3
  <2>4. call' \in [Threads -> CallRecords] /\ CallsOK'
    BY <2>1, <2>3 DEF CallsOK, CallOK
  <2>5. list \in Seq(Elements) /\ Len(list) <= MaxLen
    <3>1. commands \in Seq(Elements) /\ Len(commands) <= MaxLen
      BY DEF IInv, SharedOK
    <3>2. CASE Len(commands) < MaxLen /\ list \in
                 {Append(commands, e) : e \in Elements}
      BY <3>1, <3>2, ExecuteSshAssumption
    <3>3. CASE commands # <<>> /\ list = SubSeq(commands, 1, Len(commands) - 1)
      BY <3>1, <3>3, ExecuteSshAssumption
    <3>4. CASE \E k \in DOMAIN commands :
                 list \in {[commands EXCEPT ![k] = e] : e \in Elements}
      BY <3>1, <3>4
    <3> QED BY <2>1, <3>2, <3>3, <3>4 DEF Edits
  <2>6. SharedOK'
    BY <2>1, <2>2, <2>3, <2>5 DEF IInv, SharedOK
  <2>7. HostOK' /\ ErrorsOK'
    BY <2>2, <2>3 DEF IInv, HostOK, ErrorsOK
  <2> QED BY <2>4, <2>6, <2>7 DEF IInv
<1>5. CASE Mixup(t)
  BY <1>5, CrashInv DEF Mixup
<1> QED BY <1>1, <1>2, <1>3, <1>4, <1>5 DEF Interpreter

(* Lines 79-97: a call that starts, or is refused for its arguments.        *)
LEMMA CallInv ==
    ASSUME IInv, NEW t \in Threads, Call(t)
    PROVE  IInv'
<1>1. PICK a \in ArgKinds :
        IF a = "invalid"
        THEN /\ exc' = [exc EXCEPT ![t] = t]
             /\ call' = [call EXCEPT ![t] = NewCall("python", "raised", a)]
             /\ UNCHANGED gil
        ELSE /\ gil' = NoThread
             /\ call' = [call EXCEPT ![t] = NewCall("resolve", "pending", a)]
             /\ UNCHANGED exc
  BY DEF Call
<1>2. /\ initialized < MaxCalls /\ initialized' = initialized + 1
      /\ UNCHANGED <<status, commands, sockets, hostent>>
      /\ gil = t /\ call[t].pc = "python"
  BY DEF Call, InPython
<1>3. PICK d : /\ d \in {NewCall("python", "raised", a),
                         NewCall("resolve", "pending", a)}
               /\ call' = [call EXCEPT ![t] = d]
               /\ gil' # NoThread => d.pc = "python" /\ gil' = t
               /\ gil' \in {gil, NoThread}
               /\ exc' \in {exc, [exc EXCEPT ![t] = t]}
  BY <1>1, <1>2 DEF NewCall
<1>4. /\ CallOK(d) /\ d \in CallRecords
      /\ d.pc # "connect" /\ d.peer = NoLookup
  <2>1. a \in {"list", "other", "invalid"}
    BY <1>1, ExecuteSshAssumption
  <2>2. CallOK(d)
    BY <1>3, <2>1, NewCallOK DEF PcValues
  <2> QED BY <1>3, <2>2 DEF CallOK, NewCall
<1>5. call' \in [Threads -> CallRecords] /\ CallsOK'
  BY <1>3, <1>4 DEF IInv, CallsOK
<1>6. SharedOK'
  BY <1>2, <1>3, <1>4, ExecuteSshAssumption DEF IInv, SharedOK
<1>7. HostOK'
  BY <1>2, <1>3, <1>4 DEF IInv, HostOK, Reached, NoLookup
<1>8. ErrorsOK'
  <2> SUFFICES ASSUME NEW v \in Threads, NEW u \in Threads,
                      exc'[u] = v, u # v
               PROVE  call'[v].pc = "rogue"
    BY DEF ErrorsOK
  <2>1. exc[u] = v
    BY <1>3 DEF IInv, SharedOK
  <2>2. call[v].pc = "rogue" /\ v # t
    BY <1>2, <2>1 DEF IInv, ErrorsOK
  <2> QED BY <1>3, <2>2 DEF IInv
<1> QED BY <1>5, <1>6, <1>7, <1>8 DEF IInv

(* The steps without the lock: lines 100-181 and the libssh2 calls.         *)
LEMMA NetworkInv ==
    ASSUME IInv, NEW t \in Threads, Network(t)
    PROVE  IInv'
<1> DEFINE c == call[t]
<1>0. /\ c \in CallRecords /\ CallOK(c)
      /\ gil = t => c.pc \in GilPoints \cup {"python"}
      /\ hostent[Slot(t)] \in Lookups
  BY ExecuteSshAssumption DEF IInv, CallsOK, SharedOK, Slot
<1>1. CASE Resolve(t)
  <2>1. CASE CrashAt(t, "resolve", "resolve")
    BY <2>1, CrashInv DEF CrashAt
  <2>2. CASE ~CrashAt(t, "resolve", "resolve")
    <3>0. PICK f \in BOOLEAN : f = (sockets < MaxFds)
      <4>1. CASE sockets < MaxFds
        <5>1. TRUE = (sockets < MaxFds)
          BY <4>1
        <5> QED BY <5>1, Zenon
      <4>2. CASE ~(sockets < MaxFds)
        <5>1. FALSE = (sockets < MaxFds)
          BY <4>2
        <5> QED BY <5>1, Zenon
      <4> QED BY <4>1, <4>2
    <3> DEFINE d == [c EXCEPT !.pc = "connect", !.fd = f]
    <3>1. /\ c.pc = "resolve"
          /\ call' = [call EXCEPT ![t].pc = "connect",
                                  ![t].fd = sockets < MaxFds]
          /\ sockets' = IF sockets < MaxFds THEN sockets + 1 ELSE sockets
          /\ hostent' = [hostent EXCEPT ![Slot(t)] = Lookup(t)]
          /\ UNCHANGED <<gil, status, exc, commands, initialized>>
      BY <1>1, <2>2 DEF Resolve
    <3>2. call' = [call EXCEPT ![t] = d]
      BY <3>0, <3>1 DEF IInv, CallRecords
    <3>3. /\ d \in CallRecords /\ SameCore(c, d) /\ d.channels = c.channels
          /\ d.pc = "connect" /\ d.peer = c.peer
      BY <1>0 DEF CallRecords, PcValues, SameCore
    <3> HIDE DEF d
    <3>4. CallOK(d)
      BY <1>0, <3>1, <3>3, SetupStepOK DEF BeforeLoop
    <3>5. call' \in [Threads -> CallRecords] /\ CallsOK'
      BY <3>2, <3>3, <3>4 DEF IInv, CallsOK
    <3>l. /\ Lookup(t) \in Lookups /\ Lookup(t).by = t
          /\ \A u \in Threads : u # t /\ Slot(u) = Slot(t) /\ call[u].pc = "connect"
                => u \in Lookup(t).over
      BY DEF Lookup, Lookups
    <3>6. SharedOK'
      BY <1>0, <3>1, <3>2, <3>3, <3>l, ExecuteSshAssumption
      DEF IInv, SharedOK, GilPoints, Slot
    <3>7. HostOK'
      <4>1. ASSUME NEW u \in Threads, call'[u].pc = "connect"
            PROVE  Reached(u, hostent'[Slot(u)])
        <5>1. Slot(u) \in Threads \cup {NoThread}
          BY DEF Slot
        <5>2. CASE Slot(u) # Slot(t)
          <6>1. u # t /\ hostent'[Slot(u)] = hostent[Slot(u)]
            BY <3>1, <5>1, <5>2 DEF IInv, SharedOK
          <6>2. call[u].pc = "connect"
            BY <3>2, <4>1, <6>1 DEF IInv
          <6> QED BY <6>1, <6>2 DEF IInv, HostOK
        <5>3. CASE Slot(u) = Slot(t)
          <6>1. hostent'[Slot(u)] = Lookup(t)
            BY <3>1, <5>1, <5>3 DEF IInv, SharedOK
          <6>2. CASE u = t
            BY <3>l, <6>1, <6>2 DEF Reached
          <6>3. CASE u # t
            <7>1. SharedHostent
              BY <5>3, <6>3 DEF Slot
            <7>2. call[u].pc = "connect"
              BY <3>2, <4>1, <6>3 DEF IInv
            <7> QED BY <3>l, <5>3, <6>1, <6>3, <7>1, <7>2 DEF Reached
          <6> QED BY <6>2, <6>3
        <5> QED BY <5>2, <5>3
      <4>2. ASSUME NEW u \in Threads PROVE Reached(u, call'[u].peer)
        BY <3>2, <3>3 DEF IInv, HostOK
      <4>3. Slot(t)' = Slot(t) /\ \A u \in Threads : Slot(u)' = Slot(u)
        BY DEF Slot
      <4> QED BY <4>1, <4>2, <4>3 DEF HostOK, Reached, Slot
    <3>8. ErrorsOK'
      BY <3>1, <3>2, <3>3 DEF IInv, ErrorsOK
    <3> QED BY <3>5, <3>6, <3>7, <3>8 DEF IInv
  <2> QED BY <2>1, <2>2
<1>2. CASE Connect(t)
  <2>1. CASE Fail(t) /\ c.pc = "connect"
    BY <2>1, FailInv DEF BeforeLoop
  <2> DEFINE d == [c EXCEPT !.pc = "handshake", !.peer = hostent[Slot(t)]]
  <2>2. CASE Step(t, "connect", d)
    <3>1. /\ d \in CallRecords /\ SameCore(c, d) /\ d.channels = c.channels
          /\ d.pc = "handshake" /\ d.peer = hostent[Slot(t)]
      BY <1>0 DEF CallRecords, PcValues, SameCore
    <3> HIDE DEF d
    <3>2. CallOK(d)
      BY <1>0, <2>2, <3>1, SetupStepOK DEF BeforeLoop, Step
    <3> QED BY <1>0, <2>2, <3>1, <3>2, StepInv DEF Step, GilPoints
  <2> QED BY <1>2, <2>1, <2>2 DEF Connect, FailAt
<1>3. CASE Handshake(t)
  <2>1. CASE FailAt(t, "handshake", "handshake")
    BY <2>1, FailInv DEF FailAt, BeforeLoop
  <2> DEFINE d == [c EXCEPT !.pc = "userauth"]
  <2>2. CASE Step(t, "handshake", d)
    <3>1. /\ d \in CallRecords /\ SameCore(c, d) /\ d.channels = c.channels
          /\ d.pc = "userauth" /\ d.peer = c.peer
      BY <1>0 DEF CallRecords, PcValues, SameCore
    <3> HIDE DEF d
    <3>2. CallOK(d)
      BY <1>0, <2>2, <3>1, SetupStepOK DEF BeforeLoop, Step
    <3> QED BY <1>0, <2>2, <3>1, <3>2, StepInv DEF Step, GilPoints
  <2> QED BY <1>3, <2>1, <2>2 DEF Handshake
<1>4. CASE Authenticate(t)
  <2>1. CASE CrashAt(t, "userauth", "authlist")
    BY <2>1, CrashInv DEF CrashAt
  <2>2. CASE FailAt(t, "userauth", "auth")
    BY <2>2, FailInv DEF FailAt, BeforeLoop
  <2> DEFINE d == [c EXCEPT !.pc = "count"]
  <2>3. CASE Step(t, "userauth", d)
    <3>1. /\ d \in CallRecords /\ SameCore(c, d) /\ d.channels = c.channels
          /\ d.pc = "count" /\ d.peer = c.peer
      BY <1>0 DEF CallRecords, PcValues, GilPoints, SameCore
    <3> HIDE DEF d
    <3>2. CallOK(d)
      BY <1>0, <2>3, <3>1, SetupStepOK DEF BeforeLoop, Step
    <3> QED BY <1>0, <2>3, <3>1, <3>2, StepInv DEF Step, GilPoints
  <2> QED BY <1>4, <2>1, <2>2, <2>3 DEF Authenticate
<1>5. CASE OpenChannel(t)
  <2>1. CASE FailAt(t, "open", "open")
    BY <2>1, FailInv DEF FailAt
  <2>2. CASE Step(t, "open",
                  [c EXCEPT !.channels = c.channels + 1, !.pc = "fetch"])
    <3> DEFINE d == [c EXCEPT !.channels = 1, !.pc = "fetch"]
    <3>0. c.channels = 0 /\ c.channels + 1 = 1
      BY <1>0, <2>2 DEF CallOK, PositionOK, Step
    <3>s. Step(t, "open", d)
      BY <2>2, <3>0
    <3>1. /\ d \in CallRecords /\ SameCore(c, d) /\ d.channels = 1
          /\ d.pc = "fetch" /\ d.peer = c.peer
      <4>1. 1 \in Nat /\ "fetch" \in PcValues
        BY DEF PcValues, GilPoints
      <4> QED BY <1>0, <4>1 DEF CallRecords, SameCore
    <3> HIDE DEF d
    <3>2. CallOK(d)
      BY <1>0, <3>s, <3>1, LoopStepOK DEF Step
    <3> QED BY <1>0, <3>s, <3>1, <3>2, StepInv DEF Step, GilPoints
  <2> QED BY <1>5, <2>1, <2>2 DEF OpenChannel
<1>6. CASE Exec(t)
  <2>1. CASE Crash
    BY <2>1, CrashInv
  <2>2. CASE FailAt(t, "exec", "exec")
    BY <2>2, FailInv DEF FailAt
  <2> DEFINE v == IF c.runs[c.i] = 0 THEN 1 ELSE 2
             r == [c.runs EXCEPT ![c.i] = v]
             s == [c.sent EXCEPT ![c.i] = c.command]
             d == [c EXCEPT !.pc = "stdout", !.runs = r, !.sent = s]
  <2>3. CASE c.command # Unset /\ Step(t, "exec", d)
    <3>1. r \in [Index -> 0..2] /\ s \in [Index -> Pointers]
      <4>1. /\ c.runs \in [Index -> 0..2] /\ c.sent \in [Index -> Pointers]
            /\ c.command \in Pointers
        BY <1>0 DEF CallRecords
      <4>2. v \in 0..2
        OBVIOUS
      <4>r. r \in [Index -> 0..2]
        <5> HIDE DEF v
        <5> QED BY <4>1, <4>2
      <4>3. s \in [Index -> Pointers]
        BY <4>1
      <4> QED BY <4>r, <4>3
    <3>2. /\ d \in CallRecords /\ d.runs = r /\ d.sent = s
          /\ d.outcome = c.outcome /\ d.count = c.count /\ d.i = c.i
          /\ d.response = c.response /\ d.channels = c.channels
          /\ d.pc = "stdout" /\ d.peer = c.peer
      <4>1. "stdout" \in PcValues
        BY DEF PcValues
      <4> HIDE DEF r, s
      <4> QED BY <1>0, <3>1, <4>1 DEF CallRecords
    <3> HIDE DEF d
    <3>3. CallOK(d)
      BY <1>0, <2>3, <3>2, ExecOK DEF Step
    <3> QED BY <1>0, <2>3, <3>2, <3>3, StepInv DEF Step, GilPoints
  <2>4. \/ Crash \/ FailAt(t, "exec", "exec")
        \/ c.command # Unset /\ Step(t, "exec", d)
    BY <1>6 DEF Exec
  <2> QED BY <2>1, <2>2, <2>3, <2>4
<1>7. ASSUME NEW from \in {"stdout", "stderr"}, NEW to \in {"setout", "seterr"},
             from = "stdout" <=> to = "setout", Read(t, from, to)
      PROVE  IInv'
  <2>1. CASE CrashAt(t, from, "read")
    BY <2>1, CrashInv DEF CrashAt
  <2> DEFINE d == [c EXCEPT !.pc = to]
  <2>2. CASE Step(t, from, d)
    <3>1. /\ d \in CallRecords /\ SameCore(c, d) /\ d.channels = c.channels
          /\ d.pc = to /\ d.peer = c.peer /\ d.reply = c.reply
      <4>1. to \in PcValues
        BY DEF PcValues, GilPoints
      <4> QED BY <1>0, <4>1 DEF CallRecords, SameCore
    <3> HIDE DEF d
    <3>2. d.sent = c.sent /\ d.i = c.i /\ c.pc = from
      BY <2>2, <3>1 DEF SameCore, Step
    <3>3. /\ c.channels = 1
          /\ from = "stderr" => c.reply[0] = c.sent[c.i]
      BY <1>0, <3>2 DEF CallOK, PositionOK, ReplyOK
    <3>4. CallOK(d)
      BY <1>0, <1>7, <3>1, <3>2, <3>3, LoopStepOK
    <3> QED BY <1>0, <2>2, <3>1, <3>2, <3>4, StepInv DEF Step, GilPoints
  <2> QED BY <1>7, <2>1, <2>2 DEF Read
<1>8. CASE Close(t)
  <2>1. PICK known \in BOOLEAN :
          Step(t, "close", [c EXCEPT !.exited = known, !.pc = "setexit"])
    BY <1>8 DEF Close
  <2> DEFINE d == [c EXCEPT !.exited = known, !.pc = "setexit"]
  <2>2. /\ d \in CallRecords /\ SameCore(c, d) /\ d.channels = c.channels
        /\ d.pc = "setexit" /\ d.peer = c.peer /\ d.reply = c.reply
    <3>1. "setexit" \in PcValues
      BY DEF PcValues, GilPoints
    <3> QED BY <1>0, <3>1 DEF CallRecords, SameCore
  <2>3. Step(t, "close", d)
    BY <2>1
  <2> HIDE DEF d
  <2>4. d.sent = c.sent /\ d.i = c.i /\ c.pc = "close"
    BY <2>2, <2>3 DEF SameCore, Step
  <2>5. /\ c.channels = 1
        /\ c.reply[0] = c.sent[c.i] /\ c.reply[1] = c.sent[c.i]
    BY <1>0, <2>4 DEF CallOK, PositionOK, ReplyOK
  <2>6. CallOK(d)
    BY <1>0, <2>2, <2>4, <2>5, LoopStepOK
  <2> QED BY <1>0, <2>2, <2>3, <2>4, <2>6, StepInv DEF Step, GilPoints
<1>9. CASE FreeChannel(t)
  <2> DEFINE d == [c EXCEPT !.channels = 0, !.pc = "store"]
  <2>1. c.pc = "free"
    BY <1>9 DEF FreeChannel, Step
  <2>2. c.channels = 1 /\ c.channels - 1 = 0
    BY <1>0, <2>1 DEF CallOK, PositionOK
  <2>3. Step(t, "free", d)
    BY <1>9, <2>2 DEF FreeChannel
  <2>4. /\ d \in CallRecords /\ SameCore(c, d) /\ d.channels = 0
        /\ d.pc = "store" /\ d.peer = c.peer /\ d.reply = c.reply
    <3>1. 0 \in Nat /\ "store" \in PcValues
      BY DEF PcValues, GilPoints
    <3> QED BY <1>0, <3>1 DEF CallRecords, SameCore
  <2> HIDE DEF d
  <2>5. d.sent = c.sent /\ d.i = c.i
    BY <2>4 DEF SameCore
  <2>6. /\ c.reply[0] = c.sent[c.i] /\ c.reply[1] = c.sent[c.i]
        /\ c.reply[2] \in {c.sent[c.i], Default} /\ c.reply[3] = c.reply[2]
    BY <1>0, <2>1 DEF CallOK, ReplyOK
  <2>7. CallOK(d)
    BY <1>0, <2>1, <2>4, <2>5, <2>6, LoopStepOK
  <2> QED BY <1>0, <2>1, <2>3, <2>4, <2>7, StepInv DEF Step, GilPoints
<1> QED
  BY <1>1, <1>2, <1>3, <1>4, <1>5, <1>6, <1>7, <1>8, <1>9 DEF Network

(* The segments between PyEval_RestoreThread and PyEval_SaveThread.         *)
LEMMA LockedInv ==
    ASSUME IInv, NEW t \in Threads, Locked(t)
    PROVE  IInv'
<1> DEFINE c == call[t]
<1>0. c \in CallRecords /\ CallOK(c)
  BY DEF IInv, CallsOK
<1>1. CASE Count(t)
  <2>1. CASE c.arg = "list"
    <3> DEFINE n == Len(commands)
               p == LoopTest(0, n)
               d == [c EXCEPT !.count = n, !.pc = p]
    <3>1. n \in 0..MaxLen /\ p \in PcValues
      BY DEF IInv, SharedOK, LoopTest, PcValues, GilPoints
    <3>2. Segment(t, "count", d) /\ exc' = exc
      BY <1>1, <2>1 DEF Count
    <3> HIDE DEF n, p
    <3>3. /\ d \in CallRecords /\ d.outcome = c.outcome /\ d.i = c.i
          /\ d.response = c.response /\ d.runs = c.runs /\ d.sent = c.sent
          /\ d.channels = c.channels /\ d.peer = c.peer
          /\ d.count = n /\ d.pc = p
      BY <1>0, <3>1 DEF CallRecords
    <3> HIDE DEF d
    <3>4. d.pc = LoopTest(0, d.count)
      BY <3>3 DEF p
    <3>5. CallOK(d)
      BY <1>0, <3>2, <3>3, <3>4, CountOK DEF Segment
    <3>6. d.pc # "connect"
      BY <3>4 DEF LoopTest
    <3> QED BY <3>2, <3>3, <3>5, <3>6, SegmentInv
  <2>2. CASE c.arg # "list"
    <3> DEFINE d == [c EXCEPT !.pc = "return"]
    <3>1. Segment(t, "count", d) /\ exc' = [exc EXCEPT ![t] = t]
      BY <1>1, <2>2 DEF Count
    <3>2. /\ d \in CallRecords /\ d.outcome = c.outcome /\ d.i = c.i
          /\ d.response = c.response /\ d.runs = c.runs /\ d.sent = c.sent
          /\ d.channels = c.channels /\ d.peer = c.peer
          /\ d.count = c.count /\ d.pc = "return"
      BY <1>0 DEF CallRecords, PcValues, GilPoints
    <3> HIDE DEF d
    <3>3. c.pc = "count" /\ c.count = 0
      BY <1>0, <3>1 DEF CallOK, PositionOK, Segment
    <3>4. d.pc = LoopTest(0, d.count)
      BY <3>2, <3>3 DEF LoopTest
    <3>5. CallOK(d)
      BY <1>0, <3>2, <3>3, <3>4, CountOK
    <3> QED BY <3>1, <3>2, <3>5, SegmentInv
  <2> QED BY <2>1, <2>2
<1>2. CASE Begin(t)
  <2>1. CASE GetItemPastEnd(t, "begin")
    BY <2>1, CrashInv DEF GetItemPastEnd
  <2> DEFINE d == [c EXCEPT !.reply = NoReply, !.pc = "open"]
  <2>2. CASE GetItem(t, "begin", d)
    <3>1. Segment(t, "begin", d) /\ exc' \in {exc, [exc EXCEPT ![t] = t]}
      BY <2>2 DEF GetItem
    <3>2. /\ d \in CallRecords /\ SameCore(c, d) /\ d.channels = c.channels
          /\ d.pc = "open" /\ d.peer = c.peer
      <4>1. "open" \in PcValues /\ NoReply \in Replies
        BY DEF PcValues, NoReply, Replies, Pointers
      <4> QED BY <1>0, <4>1 DEF CallRecords, SameCore
    <3> HIDE DEF d
    <3>3. c.pc = "begin" /\ c.channels = 0
      BY <1>0, <3>1 DEF CallOK, PositionOK, Segment
    <3>4. CallOK(d)
      BY <1>0, <3>2, <3>3, LoopStepOK
    <3> QED BY <3>1, <3>2, <3>4, SegmentInv
  <2> QED BY <1>2, <2>1, <2>2 DEF Begin
<1>3. CASE Fetch(t)
  <2>1. CASE GetItemPastEnd(t, "fetch")
    BY <2>1, CrashInv DEF GetItemPastEnd
  <2> DEFINE x == Char(t)
             d == [c EXCEPT !.command = x, !.pc = "exec"]
  <2>2. CASE GetItem(t, "fetch", d)
    <3>1. Segment(t, "fetch", d) /\ exc' \in {exc, [exc EXCEPT ![t] = t]}
      BY <2>2 DEF GetItem
    <3>2. x \in Pointers
      <4>1. c.i < Len(commands) /\ c.i \in Nat
        BY <1>0, <2>2 DEF GetItem, CallRecords
      <4>2. Item(t) \in Elements
        BY <4>1 DEF IInv, SharedOK, Item
      <4> QED BY <4>2, ExecuteSshAssumption DEF Char, Pointers
    <3> HIDE DEF x
    <3>3. /\ d \in CallRecords /\ SameCore(c, d) /\ d.channels = c.channels
          /\ d.pc = "exec" /\ d.peer = c.peer
      <4>1. "exec" \in PcValues
        BY DEF PcValues
      <4> QED BY <1>0, <3>2, <4>1 DEF CallRecords, SameCore
    <3> HIDE DEF d
    <3>4. c.pc = "fetch" /\ c.channels = 1
      BY <1>0, <3>1 DEF CallOK, PositionOK, Segment
    <3>5. CallOK(d)
      BY <1>0, <3>3, <3>4, LoopStepOK
    <3> QED BY <3>1, <3>3, <3>5, SegmentInv
  <2> QED BY <1>3, <2>1, <2>2 DEF Fetch
<1>4. CASE SetSlot(t, 0, "setout", "stderr")
  <2> DEFINE r == [c.reply EXCEPT ![0] = Output(t)]
             d == [c EXCEPT !.reply = r, !.pc = "stderr"]
  <2>1. Segment(t, "setout", d) /\ exc' = exc
    BY <1>4 DEF SetSlot
  <2>2. /\ c.pc = "setout" /\ c.channels = 1 /\ c.i \in Index
        /\ c.reply \in Replies /\ c.sent \in [Index -> Pointers]
    BY <1>0, <2>1, ExecuteSshAssumption
    DEF CallOK, PositionOK, Segment, CallRecords, Index
  <2>3. r \in Replies /\ r[0] = c.sent[c.i]
    BY <2>2 DEF Replies, Slots, Output
  <2> HIDE DEF r
  <2>4. /\ d \in CallRecords /\ SameCore(c, d) /\ d.channels = c.channels
        /\ d.pc = "stderr" /\ d.peer = c.peer /\ d.reply = r
    <3>1. "stderr" \in PcValues
      BY DEF PcValues
    <3> QED BY <1>0, <2>3, <3>1 DEF CallRecords, SameCore
  <2> HIDE DEF d
  <2>5. d.sent = c.sent /\ d.i = c.i
    BY <2>4 DEF SameCore
  <2>6. CallOK(d)
    BY <1>0, <2>2, <2>3, <2>4, <2>5, LoopStepOK
  <2> QED BY <2>1, <2>4, <2>6, SegmentInv
<1>5. CASE SetSlot(t, 1, "seterr", "close")
  <2> DEFINE r == [c.reply EXCEPT ![1] = Output(t)]
             d == [c EXCEPT !.reply = r, !.pc = "close"]
  <2>1. Segment(t, "seterr", d) /\ exc' = exc
    BY <1>5 DEF SetSlot
  <2>2. /\ c.pc = "seterr" /\ c.channels = 1 /\ c.i \in Index
        /\ c.reply \in Replies /\ c.sent \in [Index -> Pointers]
    BY <1>0, <2>1, ExecuteSshAssumption
    DEF CallOK, PositionOK, Segment, CallRecords, Index
  <2>3. r \in Replies /\ r[0] = c.sent[c.i] /\ r[1] = c.sent[c.i]
    <3>1. c.reply[0] = c.sent[c.i]
      BY <1>0, <2>2 DEF CallOK, ReplyOK
    <3> QED BY <2>2, <3>1 DEF Replies, Slots, Output
  <2> HIDE DEF r
  <2>4. /\ d \in CallRecords /\ SameCore(c, d) /\ d.channels = c.channels
        /\ d.pc = "close" /\ d.peer = c.peer /\ d.reply = r
    <3>1. "close" \in PcValues
      BY DEF PcValues
    <3> QED BY <1>0, <2>3, <3>1 DEF CallRecords, SameCore
  <2> HIDE DEF d
  <2>5. d.sent = c.sent /\ d.i = c.i
    BY <2>4 DEF SameCore
  <2>6. CallOK(d)
    BY <1>0, <2>2, <2>3, <2>4, <2>5, LoopStepOK
  <2> QED BY <2>1, <2>4, <2>6, SegmentInv
<1>6. CASE SetExit(t)
  <2> DEFINE v == IF c.exited THEN Output(t) ELSE Default
             r == [c.reply EXCEPT ![2] = v, ![3] = v]
             d == [c EXCEPT !.reply = r, !.pc = "free"]
  <2>1. Segment(t, "setexit", d) /\ exc' = exc
    BY <1>6 DEF SetExit
  <2>2. /\ c.pc = "setexit" /\ c.channels = 1 /\ c.i \in Index
        /\ c.reply \in Replies /\ c.sent \in [Index -> Pointers]
    BY <1>0, <2>1, ExecuteSshAssumption
    DEF CallOK, PositionOK, Segment, CallRecords, Index
  <2>3. v \in {c.sent[c.i], Default} /\ v \in Pointers \cup {Default}
    BY <2>2 DEF Output
  <2> HIDE DEF v
  <2>4. /\ r \in Replies /\ r[0] = c.sent[c.i] /\ r[1] = c.sent[c.i]
        /\ r[2] \in {c.sent[c.i], Default} /\ r[3] = r[2]
    <3>1. c.reply[0] = c.sent[c.i] /\ c.reply[1] = c.sent[c.i]
      BY <1>0, <2>2 DEF CallOK, ReplyOK
    <3> QED BY <2>2, <2>3, <3>1 DEF Replies, Slots
  <2> HIDE DEF r
  <2>5. /\ d \in CallRecords /\ SameCore(c, d) /\ d.channels = c.channels
        /\ d.pc = "free" /\ d.peer = c.peer /\ d.reply = r
    <3>1. "free" \in PcValues
      BY DEF PcValues
    <3> QED BY <1>0, <2>4, <3>1 DEF CallRecords, SameCore
  <2> HIDE DEF d
  <2>6. d.sent = c.sent /\ d.i = c.i
    BY <2>5 DEF SameCore
  <2>7. CallOK(d)
    BY <1>0, <2>2, <2>4, <2>5, <2>6, LoopStepOK
  <2> QED BY <2>1, <2>5, <2>7, SegmentInv
<1>7. CASE Store(t)
  <2> DEFINE r == [c.response EXCEPT ![c.i] = c.reply]
             k == Increment(c.i)
             p == LoopTest(Increment(c.i), c.count)
             d == [c EXCEPT !.response = r, !.i = k, !.pc = p]
  <2>1. Segment(t, "store", d) /\ exc' = exc
    BY <1>7 DEF Store
  <2>2. /\ c.pc = "store" /\ c.i \in 0..(IndexModulus - 1)
        /\ c.reply \in Replies /\ c.response \in [Index -> Replies]
    BY <1>0, <2>1 DEF Segment, CallRecords
  <2>3. /\ k \in 0..(IndexModulus - 1) /\ p \in PcValues /\ p # "connect"
    BY <2>2, ExecuteSshAssumption
    DEF Increment, LoopTest, PcValues, GilPoints
  <2>4. r \in [Index -> Replies]
    BY <2>2
  <2> HIDE DEF r, k, p
  <2>5. /\ d \in CallRecords /\ d.outcome = c.outcome /\ d.count = c.count
        /\ d.i = k /\ d.response = r /\ d.channels = c.channels
        /\ d.runs = c.runs /\ d.sent = c.sent /\ d.pc = p /\ d.peer = c.peer
    BY <1>0, <2>3, <2>4 DEF CallRecords
  <2> HIDE DEF d
  <2>6. CallOK(d)
    BY <1>0, <2>2, <2>5, StoreOK DEF r, k, p
  <2> QED BY <2>1, <2>3, <2>5, <2>6, SegmentInv
<1>8. CASE Return(t)
  <2> DEFINE o == IF c.arg = "list" THEN "tuple" ELSE "raised"
             d == [c EXCEPT !.pc = "python", !.outcome = o]
  <2>1. Step(t, "return", d)
    BY <1>8 DEF Return
  <2>2. o \in {"tuple", "raised"}
    OBVIOUS
  <2> HIDE DEF o
  <2>3. /\ d \in CallRecords /\ d.outcome = o /\ d.count = c.count
        /\ d.i = c.i /\ d.response = c.response /\ d.runs = c.runs
        /\ d.sent = c.sent /\ d.channels = c.channels /\ d.pc = "python"
        /\ d.peer = c.peer
    <3>1. "python" \in PcValues
      BY DEF PcValues
    <3> QED BY <1>0, <2>2, <3>1 DEF CallRecords
  <2> HIDE DEF d
  <2>4. CallOK(d)
    BY <1>0, <2>1, <2>2, <2>3, ReturnOK DEF Step
  <2> QED BY <2>1, <2>3, <2>4, StepInv DEF Step
<1> QED
  BY <1>1, <1>2, <1>3, <1>4, <1>5, <1>6, <1>7, <1>8 DEF Locked

-----------------------------------------------------------------------------
(* IInv is an invariant: it holds at the start and every step keeps it.     *)
THEOREM Invariance == Spec => []IInv
<1>1. IInv /\ [Next]_vars => IInv'
  <2> SUFFICES ASSUME IInv, [Next]_vars PROVE IInv'
    OBVIOUS
  <2>1. CASE UNCHANGED vars
    BY <2>1 DEF vars, shared, IInv, CallsOK, SharedOK, HostOK, ErrorsOK
  <2>2. CASE Next
    <3>1. PICK t \in Threads :
            Interpreter(t) \/ Call(t) \/ Network(t) \/ Locked(t)
      BY <2>2 DEF Next
    <3> QED BY <3>1, InterpreterInv, CallInv, NetworkInv, LockedInv
  <2> QED BY <2>1, <2>2
<1> QED BY <1>1, InitOK, PTL DEF Spec

(* The types of TypeOK hold in every reachable state.                       *)
THEOREM TypeCorrect == Spec => []TypeOK
<1>1. IInv => TypeOK
  BY DEF IInv, SharedOK, TypeOK
<1> QED BY <1>1, Invariance, PTL

(* The tuple a call returns is exact (lines 184-297): for each index below  *)
(* the measured length one command was run, once, and the entry at that     *)
(* index holds that command's output.                                       *)
THEOREM ResultsAreExact == Spec => []ResultIntegrity
<1>1. IInv => ResultIntegrity
  <2> SUFFICES ASSUME IInv, NEW t \in Threads, call[t].outcome = "tuple",
                      NEW j \in Index
               PROVE  /\ call[t].runs[j] = IF j < call[t].count THEN 1 ELSE 0
                      /\ j < call[t].count =>
                            EntryOK(call[t].response[j], call[t].sent[j])
    BY DEF ResultIntegrity, EntryOK
  <2>1. /\ call[t] \in CallRecords
        /\ PositionOK(call[t]) /\ RunsOK(call[t]) /\ ReplyOK(call[t])
    BY DEF IInv, CallsOK, CallOK
  <2>2. /\ call[t].i = call[t].count /\ call[t].pc = "python"
        /\ call[t].count < IndexModulus
    BY <2>1, ExecuteSshAssumption DEF PositionOK, CallRecords
  <2> QED BY <2>1, <2>2 DEF RunsOK, ReplyOK
<1> QED BY <1>1, Invariance, PTL

(* No command runs twice unless the list has IndexModulus elements or more, *)
(* and a call given such a list never returns (line 189).                   *)
THEOREM NoRepeats == Spec => []RepeatsOnlyPastModulus
<1>1. IInv => RepeatsOnlyPastModulus
  <2> SUFFICES ASSUME IInv, NEW t \in Threads
               PROVE  /\ \A j \in Index : call[t].runs[j] = 2 =>
                            call[t].count >= IndexModulus
                      /\ call[t].count >= IndexModulus =>
                            call[t].pc # "return" /\ call[t].outcome # "tuple"
    BY DEF RepeatsOnlyPastModulus
  <2>1. /\ call[t].i \in 0..(IndexModulus - 1) /\ call[t].count \in Nat
        /\ PositionOK(call[t]) /\ RunsOK(call[t])
    BY DEF IInv, CallsOK, CallOK, CallRecords
  <2> QED BY <2>1, ExecuteSshAssumption DEF PositionOK, RunsOK
<1> QED BY <1>1, Invariance, PTL

(* Whatever becomes of a call, the indices it ran are the first ones.       *)
THEOREM PrefixOnly == Spec => []RunsArePrefix
<1>1. IInv => RunsArePrefix
  BY DEF IInv, CallsOK, CallOK, RunsOK, RunsArePrefix
<1> QED BY <1>1, Invariance, PTL

(* One channel at a time, and none left open by a success (line 286).       *)
THEOREM ChannelDiscipline == Spec => []OneChannel
<1>1. IInv => OneChannel
  BY DEF IInv, CallsOK, CallOK, PositionOK, OneChannel
<1> QED BY <1>1, Invariance, PTL

(* Whichever buffer gethostbyname has (lines 103-114), a call connects to   *)
(* another call's address only if it was overtaken with a shared buffer.    *)
THEOREM HostsOwnUnlessOvertaken == Spec => []OwnUnlessOvertaken
<1>1. IInv => OwnUnlessOvertaken
  BY DEF IInv, HostOK, Reached, OwnUnlessOvertaken
<1> QED BY <1>1, Invariance, PTL

(* The error paths after line 97: an exception in a thread that did not     *)
(* cause it is the trace of a call that failed without the lock.            *)
THEOREM ForeignExceptionsTraced == Spec => []ForeignExceptions
<1>1. IInv => ForeignExceptions
  BY ExecuteSshAssumption
  DEF IInv, CallsOK, CallOK, PositionOK, ErrorsOK, SharedOK, GilPoints,
      ForeignExceptions
<1> QED BY <1>1, Invariance, PTL

=============================================================================
