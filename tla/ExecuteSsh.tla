----------------------------- MODULE ExecuteSsh -----------------------------
(***************************************************************************)
(* execute_ssh_instructions of wrapper.c, called by the threads of one     *)
(* Python 2.7 process.  A call runs without the global interpreter lock    *)
(* except in the segments PyEval_RestoreThread ... PyEval_SaveThread: a    *)
(* thread enters one with Acquire and leaves it with the segment's action. *)
(* The command list is a Python object that the program's threads share,   *)
(* so the holder of the lock may change it while calls use it.  Here each  *)
(* libssh2 call is one step that succeeds or fails.                        *)
(***************************************************************************)
EXTENDS Naturals, FiniteSets, Sequences

CONSTANTS
    Threads,       \* the Python threads of the process
    NoThread,      \* nobody (the lock is free, no exception is pending)
    Commands,      \* the str objects that appear in command lists
    NonString,     \* an object that is not a str
    Elements,      \* what the program puts in command lists
    Unset,         \* NULL: an empty tuple slot, no command
    Garbage,       \* what a dangling char* points to
    Default,       \* exit code 0 and signal None, as initialised at line 263
    MaxLen,        \* bound on the length of the command list
    IndexModulus,  \* values of the loop index: 256, an unsigned char
    MaxFds,        \* file descriptors the process may open
    MaxCalls,      \* bound on the calls of one behaviour
    Pinned,        \* the commands the program also refers to elsewhere
    ArgKinds,      \* subset of {"list", "other", "invalid"}
    ListOps,       \* subset of {"append", "pop", "set"}
    Faults,        \* the steps the environment may fail
    SharedHostent  \* gethostbyname has one buffer for all threads

ASSUME ExecuteSshAssumption ==
    /\ NoThread \notin Threads
    /\ MaxLen \in Nat /\ MaxFds \in Nat /\ MaxCalls \in Nat
    /\ IndexModulus \in Nat \ {0}
    /\ {NonString, Unset, Garbage, Default} \cap Commands = {}
    /\ Elements \subseteq Commands \cup {NonString}
    /\ Unset \notin {NonString, Garbage, Default}
    /\ ArgKinds \subseteq {"list", "other", "invalid"}
    /\ SharedHostent \in BOOLEAN

VARIABLES
    gil,          \* holder of the interpreter lock = _PyThreadState_Current
    status,       \* "up", or "crashed" when the process died
    exc,          \* exc[t]: whose failure is pending in t's thread state
    commands,     \* the shared Python list
    initialized,  \* _libssh2_initialized
    sockets,      \* descriptors opened, none is ever closed
    hostent,      \* the last lookup in each gethostbyname buffer
    call          \* call[t]: the locals of t's latest call

shared == <<gil, status, exc, commands, initialized, sockets, hostent>>
vars == <<shared, call>>

Pointers == Commands \cup {Unset, Garbage}
Slots == 0..3
Index == 0..(MaxLen - 1)
Replies == [Slots -> Pointers \cup {Default}]
NoReply == [s \in Slots |-> Unset]

(* A lookup: whose it is and, as history, which calls were between lines    *)
(* 103 and 114 with the same buffer when it was made.                       *)
Lookups == [by : Threads \cup {NoThread}, over : SUBSET Threads]
NoLookup == [by |-> NoThread, over |-> {}]

(* The places where a call takes the lock back to touch Python objects.     *)
GilPoints == {"count", "begin", "fetch", "setout", "seterr", "setexit",
              "store", "return"}

(* Mutant: the loop starts at the second command.                           *)
NewCall_FromOne(pc, outcome, arg) ==
    [pc |-> pc, outcome |-> outcome, arg |-> arg, fd |-> FALSE,
     peer |-> NoLookup, count |-> 0, i |-> 1, command |-> Unset,
     channels |-> 0, exited |-> FALSE, reply |-> NoReply,
     response |-> [j \in Index |-> NoReply],
     runs |-> [j \in Index |-> 0], sent |-> [j \in Index |-> Unset]]

(* Beside the locals: channels, those open on the call's session; exited,   *)
(* whether line 268 finds the command's exit status; peer, the lookup whose *)
(* address was used.  History: outcome, runs and sent (how often, 2 =       *)
(* several times, and with which command the server confirmed to have       *)
(* started index j; a command whose confirmation is lost may have run too). *)
NewCall(pc, outcome, arg) ==
    [pc |-> pc, outcome |-> outcome, arg |-> arg, fd |-> FALSE,
     peer |-> NoLookup, count |-> 0, i |-> 0, command |-> Unset,
     channels |-> 0, exited |-> FALSE, reply |-> NoReply,
     response |-> [j \in Index |-> NoReply],
     runs |-> [j \in Index |-> 0], sent |-> [j \in Index |-> Unset]]

(* The buffer remote_host points to after line 103: the thread's own on     *)
(* Darwin, one for the process in glibc.                                    *)
Slot(t) == IF SharedHostent THEN NoThread ELSE t

(* Where a call has not measured the list yet.                              *)
Early == {"resolve", "connect", "handshake", "userauth", "count"}

Init ==
    /\ gil = NoThread
    /\ status = "up"
    /\ exc = [t \in Threads |-> NoThread]
    /\ commands \in UNION {[1..n -> Elements] : n \in 0..MaxLen}
    /\ initialized = 0
    /\ sockets = 0
    /\ hostent = [s \in Threads \cup {NoThread} |-> NoLookup]
    /\ call = [t \in Threads |-> NewCall("python", "none", "list")]

-----------------------------------------------------------------------------
(* The interpreter.  A thread in Python code runs while it holds the lock   *)
(* and gives it up every sys.getcheckinterval() ticks.                      *)

(* PyEval_RestoreThread, or the interpreter's own taking of the lock.       *)
Acquire(t) ==
    /\ gil = NoThread
    /\ call[t].pc \in GilPoints \cup {"python"}
    /\ gil' = t
    /\ UNCHANGED <<status, exc, commands, initialized, sockets, hostent, call>>

InPython(t) == gil = t /\ call[t].pc = "python"

Yield(t) ==
    /\ InPython(t)
    /\ gil' = NoThread
    /\ UNCHANGED <<status, exc, commands, initialized, sockets, hostent, call>>

(* The pending exception of t's thread state is raised in t's Python code.  *)
Surface(t) ==
    /\ InPython(t) /\ exc[t] # NoThread
    /\ exc' = [exc EXCEPT ![t] = NoThread]
    /\ UNCHANGED <<gil, status, commands, initialized, sockets, hostent, call>>

Edits ==
    (IF "append" \in ListOps /\ Len(commands) < MaxLen
     THEN {Append(commands, e) : e \in Elements} ELSE {})
    \cup (IF "pop" \in ListOps /\ commands # <<>>
          THEN {SubSeq(commands, 1, Len(commands) - 1)} ELSE {})
    \cup (IF "set" \in ListOps
          THEN UNION {{[commands EXCEPT ![k] = e] : e \in Elements} :
                          k \in DOMAIN commands}
          ELSE {})

Referenced(list) == Pinned \cup {list[k] : k \in DOMAIN list}

(* Python code changes the list.  A str that loses its last reference is    *)
(* freed: the char* of a call between lines 211 and 212 dangles.            *)
EditList(t) ==
    /\ InPython(t)
    /\ \E list \in Edits :
          /\ commands' = list
          /\ call' = [u \in Threads |->
                IF /\ call[u].pc = "exec" /\ call[u].command \in Commands
                   /\ call[u].command \notin Referenced(list)
                THEN [call[u] EXCEPT !.command = Garbage] ELSE call[u]]
    /\ UNCHANGED <<gil, status, exc, initialized, sockets, hostent>>

Crash ==
    /\ status' = "crashed"
    /\ UNCHANGED <<gil, exc, commands, initialized, sockets, hostent, call>>

(* A thread that came back to the interpreter without the lock aborts the   *)
(* process at its next tick: "ceval: tstate mix-up".                        *)
Mixup(t) == call[t].pc = "rogue" /\ Crash

(* Mutant: the lock is taken back, but only after PyErr_SetString.          *)
Fail_SetBeforeRestore(t) ==
    \/ gil = NoThread /\ Crash
    \/ /\ gil # NoThread
       /\ exc' = [exc EXCEPT ![gil] = t]
       /\ call' = [call EXCEPT ![t].pc = "return"]
       /\ UNCHANGED <<gil, status, commands, initialized, sockets, hostent>>

(* An error path after line 97.  PyErr_SetString writes to the thread state *)
(* that holds the lock, which is not the caller's, or dereferences NULL;    *)
(* the caller returns NULL without having taken the lock back.              *)
Fail(t) ==
    \/ gil = NoThread /\ Crash
    \/ /\ gil # NoThread
       /\ exc' = [exc EXCEPT ![gil] = t]
       /\ call' = [call EXCEPT ![t].pc = "rogue"]
       /\ UNCHANGED <<gil, status, commands, initialized, sockets, hostent>>

-----------------------------------------------------------------------------
(* Lines 79-97.  libssh2_init runs before the arguments are parsed.         *)
Call(t) ==
    /\ InPython(t) /\ exc[t] = NoThread
    /\ initialized < MaxCalls
    /\ initialized' = initialized + 1
    /\ \E a \in ArgKinds :
          IF a = "invalid"
          THEN /\ exc' = [exc EXCEPT ![t] = t]
               /\ call' = [call EXCEPT ![t] = NewCall("python", "raised", a)]
               /\ UNCHANGED gil
          ELSE /\ gil' = NoThread
               /\ call' = [call EXCEPT ![t] = NewCall("resolve", "pending", a)]
               /\ UNCHANGED exc
    /\ UNCHANGED <<status, commands, sockets, hostent>>

(* A step outside the lock, and a segment, that take t from p to c.         *)
Step(t, p, c) ==
    call[t].pc = p /\ call' = [call EXCEPT ![t] = c] /\ UNCHANGED shared

Segment(t, p, c) ==
    /\ gil = t /\ call[t].pc = p
    /\ gil' = NoThread
    /\ call' = [call EXCEPT ![t] = c]
    /\ UNCHANGED <<status, commands, initialized, sockets, hostent>>

FailAt(t, p, fault) == call[t].pc = p /\ fault \in Faults /\ Fail(t)
CrashAt(t, p, fault) == call[t].pc = p /\ fault \in Faults /\ Crash

(* gethostbyname fills the buffer, under whoever still points to it.        *)
Lookup(t) ==
    [by |-> t,
     over |-> {u \in Threads \ {t} : /\ Slot(u) = Slot(t)
                                     /\ call[u].pc = "connect"}]

(* Mutant: a buffer that was filled before is not filled again.             *)
Resolve_Cached(t) ==
    \/ CrashAt(t, "resolve", "resolve")
    \/ /\ call[t].pc = "resolve"
       /\ call' = [call EXCEPT ![t].pc = "connect", ![t].fd = sockets < MaxFds]
       /\ sockets' = IF sockets < MaxFds THEN sockets + 1 ELSE sockets
       /\ hostent' = IF hostent[Slot(t)] = NoLookup
                     THEN [hostent EXCEPT ![Slot(t)] = Lookup(t)] ELSE hostent
       /\ UNCHANGED <<gil, status, exc, commands, initialized>>

(* Lines 100-108.  socket() is not checked; a name that does not resolve    *)
(* leaves remote_host NULL, dereferenced at line 114.                       *)
Resolve(t) ==
    \/ CrashAt(t, "resolve", "resolve")
    \/ /\ call[t].pc = "resolve"
       /\ call' = [call EXCEPT ![t].pc = "connect", ![t].fd = sockets < MaxFds]
       /\ sockets' = IF sockets < MaxFds THEN sockets + 1 ELSE sockets
       /\ hostent' = [hostent EXCEPT ![Slot(t)] = Lookup(t)]
       /\ UNCHANGED <<gil, status, exc, commands, initialized>>

(* Lines 110-122: connect to the address that is in the buffer now.         *)
Connect(t) ==
    \/ FailAt(t, "connect", "connect")
    \/ call[t].pc = "connect" /\ ~call[t].fd /\ Fail(t)
    \/ /\ call[t].fd
       /\ Step(t, "connect", [call[t] EXCEPT !.pc = "handshake",
                                             !.peer = hostent[Slot(t)]])

(* Lines 127-150.                                                           *)
Handshake(t) ==
    \/ FailAt(t, "handshake", "handshake")
    \/ Step(t, "handshake", [call[t] EXCEPT !.pc = "userauth"])

(* Lines 154-181.  A NULL from libssh2_userauth_list goes to strstr.        *)
Authenticate(t) ==
    \/ CrashAt(t, "userauth", "authlist")
    \/ FailAt(t, "userauth", "auth")
    \/ Step(t, "userauth", [call[t] EXCEPT !.pc = "count"])

-----------------------------------------------------------------------------
(* Mutant of the loop: one command too many.                               *)
LoopTest_Inclusive(k, n) == IF k <= n THEN "begin" ELSE "return"

(* The loop over the commands.  LoopTest is the condition of line 189.      *)
LoopTest(k, n) == IF k < n THEN "begin" ELSE "return"

(* Lines 183-187.  PyList_Size of anything but a list is -1 and raises      *)
(* SystemError; the loop is then not entered and py_response is NULL.       *)
Count(t) ==
    IF call[t].arg = "list"
    THEN /\ Segment(t, "count",
               [call[t] EXCEPT !.count = Len(commands),
                               !.pc = LoopTest(0, Len(commands))])
         /\ UNCHANGED exc
    ELSE /\ Segment(t, "count", [call[t] EXCEPT !.pc = "return"])
         /\ exc' = [exc EXCEPT ![t] = t]

(* Mutants: the list is read backwards; the pointer of any object is used.  *)
Item_FromEnd(t) == commands[Len(commands) - call[t].i]
Char_Unchecked(t) == commands[call[t].i + 1]

(* PyString_AsString(PyList_GetItem(py_command_list, i)): an element that   *)
(* is no str raises TypeError and gives NULL.  Past the end GetItem is      *)
(* NULL, which AsString dereferences.                                       *)
Item(t) == commands[call[t].i + 1]
Char(t) == IF Item(t) = NonString THEN Unset ELSE Item(t)

GetItem(t, p, c) ==
    /\ call[t].i < Len(commands)
    /\ Segment(t, p, c)
    /\ exc' = IF Item(t) = NonString THEN [exc EXCEPT ![t] = t] ELSE exc

GetItemPastEnd(t, p) ==
    gil = t /\ call[t].pc = p /\ call[t].i >= Len(commands) /\ Crash

(* Lines 191-195; the arguments of line 194 are evaluated in every build.   *)
Begin(t) ==
    \/ GetItemPastEnd(t, "begin")
    \/ GetItem(t, "begin", [call[t] EXCEPT !.reply = NoReply, !.pc = "open"])

(* Lines 197-205.                                                           *)
OpenChannel(t) ==
    \/ FailAt(t, "open", "open")
    \/ Step(t, "open", [call[t] EXCEPT !.channels = @ + 1, !.pc = "fetch"])

(* Lines 209-211.                                                           *)
Fetch(t) ==
    \/ GetItemPastEnd(t, "fetch")
    \/ GetItem(t, "fetch", [call[t] EXCEPT !.command = Char(t), !.pc = "exec"])

(* Mutant: a failed exec goes on with the next command (line 215 asks).     *)
Exec_Continue(t) ==
    \/ call[t].pc = "exec" /\ call[t].command \in {Unset, Garbage} /\ Crash
    \/ /\ call[t].command # Unset /\ "exec" \in Faults
       /\ Step(t, "exec", [call[t] EXCEPT !.pc = "free"])
    \/ /\ call[t].command # Unset
       /\ Step(t, "exec",
             [call[t] EXCEPT !.pc = "stdout",
                             !.runs[call[t].i] = IF @ = 0 THEN 1 ELSE 2,
                             !.sent[call[t].i] = call[t].command])

(* Lines 212-218.  libssh2_channel_exec takes strlen of the pointer.  When  *)
(* it fails the call has no word of the command's start, and goes no        *)
(* further.                                                                 *)
Exec(t) ==
    \/ call[t].pc = "exec" /\ call[t].command \in {Unset, Garbage} /\ Crash
    \/ call[t].command # Unset /\ FailAt(t, "exec", "exec")
    \/ /\ call[t].command # Unset
       /\ Step(t, "exec",
             [call[t] EXCEPT !.pc = "stdout",
                             !.runs[call[t].i] = IF @ = 0 THEN 1 ELSE 2,
                             !.sent[call[t].i] = call[t].command])

(* Lines 221-242 and 244-261.  A read error is a negative chunk size, and   *)
(* form_response_string copies that many bytes; otherwise what the command  *)
(* printed goes to a slot of py_command_response.                           *)
Output(t) == call[t].sent[call[t].i]

Read(t, from, to) ==
    \/ CrashAt(t, from, "read")
    \/ Step(t, from, [call[t] EXCEPT !.pc = to])

SetSlot(t, s, from, to) ==
    /\ Segment(t, from, [call[t] EXCEPT !.reply[s] = Output(t), !.pc = to])
    /\ UNCHANGED exc

(* Lines 263-270.  The exit status is read when libssh2_channel_close       *)
(* returned 0, and may not have arrived even then (see SshChannel).         *)
Close(t) ==
    \E known \in BOOLEAN :
        Step(t, "close", [call[t] EXCEPT !.exited = known, !.pc = "setexit"])

(* Lines 272-284: exit code and exit signal.                                *)
SetExit(t) ==
    LET v == IF call[t].exited THEN Output(t) ELSE Default
    IN  /\ Segment(t, "setexit",
               [call[t] EXCEPT !.reply[2] = v, !.reply[3] = v, !.pc = "free"])
        /\ UNCHANGED exc

(* Mutant: the channel is not freed.                                        *)
FreeChannel_Leak(t) == Step(t, "free", [call[t] EXCEPT !.pc = "store"])

(* Line 286.                                                                *)
FreeChannel(t) ==
    Step(t, "free", [call[t] EXCEPT !.channels = @ - 1, !.pc = "store"])

(* Mutants: the index wraps one value early; it is not incremented.         *)
Increment_EarlyWrap(k) == IF k + 1 >= IndexModulus - 1 THEN 0 ELSE k + 1
Increment_Never(k) == k

(* i++ on an unsigned char.                                                 *)
Increment(k) == IF k + 1 = IndexModulus THEN 0 ELSE k + 1

(* Mutant: the list is measured again for the loop test.                    *)
Store_Remeasure(t) ==
    /\ Segment(t, "store",
          [call[t] EXCEPT !.response[call[t].i] = call[t].reply,
                          !.i = Increment(@),
                          !.pc = LoopTest(Increment(call[t].i), Len(commands))])
    /\ UNCHANGED exc

(* Lines 288-291 and 189.                                                   *)
Store(t) ==
    /\ Segment(t, "store",
          [call[t] EXCEPT !.response[call[t].i] = call[t].reply,
                          !.i = Increment(@),
                          !.pc = LoopTest(Increment(call[t].i), call[t].count)])
    /\ UNCHANGED exc

(* Lines 296-297: the lock stays with the caller.                           *)
Return(t) ==
    /\ gil = t
    /\ Step(t, "return",
          [call[t] EXCEPT !.pc = "python",
                          !.outcome = IF call[t].arg = "list"
                                      THEN "tuple" ELSE "raised"])

-----------------------------------------------------------------------------
Network(t) ==
    \/ Resolve(t) \/ Connect(t) \/ Handshake(t) \/ Authenticate(t)
    \/ OpenChannel(t) \/ Exec(t)
    \/ Read(t, "stdout", "setout") \/ Read(t, "stderr", "seterr")
    \/ Close(t) \/ FreeChannel(t)

Locked(t) ==
    \/ Count(t) \/ Begin(t) \/ Fetch(t)
    \/ SetSlot(t, 0, "setout", "stderr") \/ SetSlot(t, 1, "seterr", "close")
    \/ SetExit(t) \/ Store(t) \/ Return(t)

Interpreter(t) ==
    Acquire(t) \/ Yield(t) \/ Surface(t) \/ EditList(t) \/ Mixup(t)

Next ==
    /\ status = "up"
    /\ \E t \in Threads :
          Interpreter(t) \/ Call(t) \/ Network(t) \/ Locked(t)

Spec == Init /\ [][Next]_vars

(* Network calls return, the interpreter switches threads, and a thread     *)
(* that keeps asking for the lock gets it at some release.                  *)
Fairness ==
    \A t \in Threads :
        /\ WF_vars(status = "up" /\ Network(t))
        /\ WF_vars(status = "up" /\ Locked(t))
        /\ WF_vars(status = "up" /\ Yield(t))
        /\ SF_vars(status = "up" /\ Acquire(t))

FairSpec == Spec /\ Fairness

-----------------------------------------------------------------------------
PcValues == GilPoints \cup
    {"python", "rogue", "resolve", "connect", "handshake", "userauth", "open",
     "exec", "stdout", "stderr", "close", "free"}

CallRecords ==
    [pc : PcValues, outcome : {"none", "pending", "tuple", "raised"},
     arg : {"list", "other", "invalid"}, fd : BOOLEAN,
     peer : Lookups, count : 0..MaxLen,
     i : 0..(IndexModulus - 1), command : Pointers, channels : Nat,
     exited : BOOLEAN, reply : Replies, response : [Index -> Replies],
     runs : [Index -> 0..2], sent : [Index -> Pointers]]

(* The shapes of the lock, the thread states, the list and the locals.      *)
TypeOK ==
    /\ gil \in Threads \cup {NoThread}
    /\ status \in {"up", "crashed"}
    /\ exc \in [Threads -> Threads \cup {NoThread}]
    /\ commands \in Seq(Elements) /\ Len(commands) <= MaxLen
    /\ initialized \in 0..MaxCalls
    /\ sockets \in 0..MaxFds
    /\ hostent \in [Threads \cup {NoThread} -> Lookups]
    /\ call \in [Threads -> CallRecords]

(* What a tuple returned to Python tells of the call: for every index below *)
(* the length that line 184 measured the server was sent one command, once, *)
(* and none for any other index, and entry j is the output of the command   *)
(* that was sent for j, whatever other threads did to the list meanwhile.   *)
(* It is not said that this is the command the list held at line 184: line  *)
(* 210 takes what is there then (see SentAsListed).                         *)
ResultIntegrity ==
    \A t \in Threads : call[t].outcome = "tuple" =>
        \A j \in Index :
            LET c == call[t] IN
            /\ c.runs[j] = IF j < c.count THEN 1 ELSE 0
            /\ j < c.count =>
                  /\ c.sent[j] # Unset
                  /\ c.response[j][0] = c.sent[j]
                  /\ c.response[j][1] = c.sent[j]
                  /\ c.response[j][2] \in {c.sent[j], Default}
                  /\ c.response[j][3] = c.response[j][2]

(* A command is run a second time only by a call whose list is too long for *)
(* the unsigned char of line 189, and such a call never gets to line 296.   *)
RepeatsOnlyPastModulus ==
    \A t \in Threads :
        /\ \A j \in Index : call[t].runs[j] = 2 =>
              call[t].count >= IndexModulus
        /\ call[t].count >= IndexModulus =>
              call[t].pc # "return" /\ call[t].outcome # "tuple"

(* Commands are run in the order of their indices: whatever happens to the  *)
(* call, the indices that were run are the first ones.                      *)
RunsArePrefix ==
    \A t \in Threads : \A j, k \in Index :
        j < k /\ call[t].runs[k] > 0 => call[t].runs[j] > 0

(* The session has a second channel never, and none after a success; a call *)
(* that failed may leave one.                                               *)
OneChannel ==
    \A t \in Threads :
        /\ call[t].channels <= 1
        /\ call[t].outcome = "tuple" => call[t].channels = 0

(* A call connects to an address that another call looked up only when that *)
(* lookup came between its own lookup at line 103 and its use at line 114   *)
(* and the two share a buffer: never for what an earlier call left there,   *)
(* and never where gethostbyname has a buffer per thread.                   *)
OwnUnlessOvertaken ==
    \A t \in Threads :
        \/ call[t].peer.by \in {t, NoThread}
        \/ SharedHostent /\ t \in call[t].peer.over

(* An exception that surfaces in a thread that did not cause it comes from  *)
(* a call that failed without the lock; that call never returns anything.   *)
ForeignExceptions ==
    \A t \in Threads :
        /\ \A u \in Threads : exc[u] = t /\ u # t => call[t].pc = "rogue"
        /\ call[t].pc = "rogue" => call[t].outcome = "pending" /\ gil # t

(* While the program only appends to the list, the command run for index j  *)
(* is element j of the list.                                                *)
SentAsListed ==
    ListOps \subseteq {"append"} =>
        \A t \in Threads : \A j \in Index :
            call[t].runs[j] > 0 => /\ j < Len(commands)
                                   /\ call[t].sent[j] = commands[j + 1]

(* With a network that never fails, lists of strings that only grow and     *)
(* descriptors for every call, no call crashes the process, loses the lock  *)
(* or leaves an exception that the caller's own arguments did not cause.    *)
WellBehaved ==
    Faults = {} /\ ListOps \subseteq {"append"} /\ NonString \notin Elements
      /\ MaxCalls <= MaxFds
    => /\ status = "up"
       /\ \A t \in Threads :
             /\ call[t].pc # "rogue"
             /\ exc[t] # NoThread => exc[t] = t /\ call[t].arg # "list"

(* A call with fewer commands than the index has values returns.            *)
CallsReturn ==
    \A t \in Threads :
        call[t].pc = "resolve" ~>
            call[t].pc = "python" \/ call[t].count >= IndexModulus

-----------------------------------------------------------------------------
(* The promise of SshCalls, read off the state of the calls.                *)
NumberRun(c) == Cardinality({j \in Index : c.runs[j] > 0})

Ending == [none |-> "idle", tuple |-> "answered", raised |-> "refused"]

State(c) ==
    IF c.outcome # "pending" THEN Ending[c.outcome]
    ELSE IF c.pc = "rogue" THEN "abandoned"
    ELSE IF c.pc \in Early \/ c.arg # "list" THEN "asked" ELSE "counted"

Ran(c) == [k \in 1..NumberRun(c) |-> c.sent[k - 1]]

Result(c) ==
    IF c.outcome = "tuple" THEN [k \in 1..c.count |-> c.response[k - 1][0]]
    ELSE <<>>

Promise == INSTANCE SshCalls WITH
    Limit <- IndexModulus,
    Commands <- Commands \cup {Garbage},
    alive <- status = "up",
    state <- [t \in Threads |-> State(call[t])],
    todo <- [t \in Threads |-> call[t].count],
    ran <- [t \in Threads |-> Ran(call[t])],
    answer <- [t \in Threads |-> Result(call[t])]

(* A program that sees only calls, commands run and results cannot tell the *)
(* threads, the lock and the loop of wrapper.c from SshCalls: commands are  *)
(* run in order and once, and a result answers for each of them or is not   *)
(* given, whatever fails and whoever changes the list.                      *)
KeepsPromise == Promise!Spec

(* A failed connect raises "Failed to connect to host" in the caller.       *)
FailureRaisedInCaller ==
    /\ status = "up"
    /\ \A t \in Threads : call[t].pc = "rogue" => exc[t] = t

=============================================================================
