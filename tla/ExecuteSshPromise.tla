-------------------------- MODULE ExecuteSshPromise --------------------------
(***************************************************************************)
(* ExecuteSsh implements SshCalls, sends what the list says and is well    *)
(* behaved, proved for every value of the constants.  Effects says once    *)
(* what each action does to the locals of its call; each result is then    *)
(* argued over these few effects and not over the actions.                 *)
(***************************************************************************)
EXTENDS ExecuteSshProofs, FiniteSetTheorems

(* The indices that were sent are those before the current one, the current *)
(* one too once it is sent; or the index has wrapped and all were sent.     *)
WrapOK(c) ==
    \/ \A j \in Index :
          c.runs[j] > 0 <=> j < c.i \/ (j = c.i /\ c.pc \in Sent)
    \/ /\ c.count >= IndexModulus
       /\ \A j \in Index : c.runs[j] > 0 <=> j < IndexModulus

(* Only a call with a list gets into the loop or answers.                   *)
ArgOK(c) == c.pc \in InLoop \/ c.outcome = "tuple" => c.arg = "list"

LoopInv == IInv /\ \A t \in Threads : WrapOK(call[t]) /\ ArgOK(call[t])

(* What the locals tell of the list, while it only grows: the command that  *)
(* line 211 fetched, and the commands sent, are the list's elements.        *)
Element(list, k) == IF list[k + 1] = NonString THEN Unset ELSE list[k + 1]

ListedOK(c, list) ==
    /\ c.count <= Len(list)
    /\ c.pc = "exec" => c.command = Element(list, c.i)
    /\ \A j \in Index :
          c.runs[j] > 0 => j < Len(list) /\ c.sent[j] = list[j + 1]

ListedInv ==
    ListOps \subseteq {"append"} => \A t \in Threads : ListedOK(call[t], commands)

(* Every descriptor belongs to a call, and a call that still has to open    *)
(* one has none: while there are descriptors for every call, one is left.   *)
Resolving == {t \in Threads : call[t].pc = "resolve"}

FdInv ==
    /\ IsFiniteSet(Resolving)
    /\ sockets + Cardinality(Resolving) <= initialized
    /\ MaxCalls <= MaxFds => \A t \in Threads : call[t].pc = "connect" => call[t].fd

-----------------------------------------------------------------------------
(* What the actions do to the locals c of a call, which become d.           *)

USE DEF Sent, HasStdout, HasStderr, HasExit, HasChannel, InLoop

Same(c, d) ==
    /\ d.outcome = c.outcome /\ d.arg = c.arg /\ d.count = c.count
    /\ d.i = c.i /\ d.response = c.response
    /\ d.runs = c.runs /\ d.sent = c.sent

(* The call moves on; lines 209-211 fetch the command.                      *)
Walks(c, d, list) ==
    /\ Same(c, d)
    /\ \/ c.pc \in Early /\ d.pc \in Early
       \/ /\ c.pc \in InLoop /\ d.pc \in InLoop
          /\ c.pc \in Sent <=> d.pc \in Sent
    /\ d.pc = "exec" => d.command = Element(list, c.i)
    /\ d.pc # "resolve"
    /\ d.pc = "connect" => c.pc = "resolve"

Breaks(c, d) ==
    Same(c, d) /\ c.pc \in Early \cup {"open", "exec"} /\ d.pc = "rogue"

Measures(c, d, list) ==
    /\ c.pc = "count" /\ d.pc = LoopTest(0, d.count)
    /\ d.count = Len(list) /\ c.arg = "list"
    /\ d.outcome = c.outcome /\ d.arg = c.arg
    /\ d.i = c.i /\ d.response = c.response
    /\ d.runs = c.runs /\ d.sent = c.sent

Rejects(c, d) ==
    Same(c, d) /\ c.pc = "count" /\ c.arg # "list" /\ d.pc = "return"

Sends(c, d) ==
    /\ c.pc = "exec" /\ d.pc = "stdout" /\ c.command # Unset
    /\ d.runs = [c.runs EXCEPT ![c.i] = IF c.runs[c.i] = 0 THEN 1 ELSE 2]
    /\ d.sent = [c.sent EXCEPT ![c.i] = c.command]
    /\ d.outcome = c.outcome /\ d.arg = c.arg /\ d.count = c.count
    /\ d.i = c.i /\ d.response = c.response

Stores(c, d) ==
    /\ c.pc = "store" /\ d.pc = LoopTest(Increment(c.i), c.count)
    /\ d.i = Increment(c.i)
    /\ d.outcome = c.outcome /\ d.arg = c.arg /\ d.count = c.count
    /\ d.runs = c.runs /\ d.sent = c.sent

Returns(c, d) ==
    /\ c.pc = "return" /\ d.pc = "python"
    /\ d.outcome = IF c.arg = "list" THEN "tuple" ELSE "raised"
    /\ d.arg = c.arg /\ d.count = c.count
    /\ d.i = c.i /\ d.response = c.response
    /\ d.runs = c.runs /\ d.sent = c.sent

Starts(c, d) ==
    /\ c.pc = "python"
    /\ \E a \in {"list", "other", "invalid"} :
          \/ d = NewCall("python", "raised", a) /\ a = "invalid"
          \/ d = NewCall("resolve", "pending", a) /\ a # "invalid"

Effect(c, d, list) ==
    \/ Walks(c, d, list) \/ Breaks(c, d) \/ Measures(c, d, list) \/ Rejects(c, d)
    \/ Sends(c, d) \/ Stores(c, d) \/ Returns(c, d) \/ Starts(c, d)

Acts(t) ==
    /\ UNCHANGED <<status, commands>>
    /\ \E d : call' = [call EXCEPT ![t] = d] /\ Effect(call[t], d, commands)

(* A step without the lock that succeeds.                                   *)
LEMMA NetworkEffect ==
    ASSUME IInv, NEW t \in Threads, Network(t)
    PROVE  Crash \/ Acts(t)
<1> DEFINE c == call[t]
<1>0. c \in CallRecords /\ call \in [Threads -> CallRecords]
  BY DEF IInv
<1>f. ASSUME Fail(t), c.pc \in Early \cup {"open", "exec"}
      PROVE  Crash \/ Acts(t)
  <2> DEFINE d == [c EXCEPT !.pc = "rogue"]
  <2>1. CASE call' = [call EXCEPT ![t] = d] /\ UNCHANGED <<status, commands>>
    <3>1. Breaks(c, d)
      BY <1>0, <1>f DEF Breaks, Same, CallRecords
    <3> HIDE DEF d
    <3> QED BY <2>1, <3>1 DEF Acts, Effect
  <2> QED BY <1>f, <2>1 DEF Fail
<1>s. ASSUME NEW p, NEW d, Step(t, p, d), Walks(c, d, commands)
      PROVE  Acts(t)
  BY <1>s DEF Step, shared, Acts, Effect
<1>1. CASE Resolve(t)
  <2>1. CASE ~CrashAt(t, "resolve", "resolve")
    <3> DEFINE d == [c EXCEPT !.pc = "connect", !.fd = sockets < MaxFds]
    <3>1. /\ c.pc = "resolve" /\ call' = [call EXCEPT ![t] = d]
          /\ UNCHANGED <<status, commands>>
      BY <1>1, <2>1 DEF Resolve
    <3>2. Walks(c, d, commands)
      BY <1>0, <3>1 DEF Walks, Same, CallRecords, Early
    <3> HIDE DEF d
    <3> QED BY <3>1, <3>2 DEF Acts, Effect
  <2> QED BY <2>1 DEF CrashAt
<1>2. CASE Connect(t)
  <2> DEFINE d == [c EXCEPT !.pc = "handshake", !.peer = hostent[Slot(t)]]
  <2>1. CASE Step(t, "connect", d)
    <3>1. Walks(c, d, commands)
      BY <1>0, <2>1 DEF Walks, Same, CallRecords, Early, Step
    <3> QED BY <1>s, <2>1, <3>1
  <2> QED BY <1>2, <1>f, <2>1 DEF Connect, FailAt, Early
<1>3. CASE Handshake(t)
  <2> DEFINE d == [c EXCEPT !.pc = "userauth"]
  <2>1. CASE Step(t, "handshake", d)
    <3>1. Walks(c, d, commands)
      BY <1>0, <2>1 DEF Walks, Same, CallRecords, Early, Step
    <3> QED BY <1>s, <2>1, <3>1
  <2> QED BY <1>3, <1>f, <2>1 DEF Handshake, FailAt, Early
<1>4. CASE Authenticate(t)
  <2> DEFINE d == [c EXCEPT !.pc = "count"]
  <2>1. CASE Step(t, "userauth", d)
    <3>1. Walks(c, d, commands)
      BY <1>0, <2>1 DEF Walks, Same, CallRecords, Early, Step
    <3> QED BY <1>s, <2>1, <3>1
  <2> QED BY <1>4, <1>f, <2>1 DEF Authenticate, FailAt, CrashAt, Early
<1>5. CASE OpenChannel(t)
  <2> DEFINE d == [c EXCEPT !.channels = c.channels + 1, !.pc = "fetch"]
  <2>1. CASE Step(t, "open", d)
    <3>1. Walks(c, d, commands)
      BY <1>0, <2>1 DEF Walks, Same, CallRecords, Step
    <3> QED BY <1>s, <2>1, <3>1
  <2> QED BY <1>5, <1>f, <2>1 DEF OpenChannel, FailAt
<1>6. CASE Exec(t)
  <2> DEFINE v == IF c.runs[c.i] = 0 THEN 1 ELSE 2
             r == [c.runs EXCEPT ![c.i] = v]
             s == [c.sent EXCEPT ![c.i] = c.command]
             d == [c EXCEPT !.pc = "stdout", !.runs = r, !.sent = s]
  <2>1. CASE c.command # Unset /\ Step(t, "exec", d)
    <3>1. Sends(c, d)
      BY <1>0, <2>1 DEF Sends, CallRecords, Step
    <3> HIDE DEF d
    <3> QED BY <2>1, <3>1 DEF Step, shared, Acts, Effect
  <2> QED BY <1>6, <1>f, <2>1 DEF Exec, FailAt
<1>7. ASSUME NEW from, NEW to, Read(t, from, to),
             <<from, to>> \in {<<"stdout", "setout">>, <<"stderr", "seterr">>}
      PROVE  Crash \/ Acts(t)
  <2> DEFINE d == [c EXCEPT !.pc = to]
  <2>1. CASE Step(t, from, d)
    <3>1. Walks(c, d, commands)
      BY <1>0, <1>7, <2>1 DEF Walks, Same, CallRecords, Step
    <3> QED BY <1>s, <2>1, <3>1
  <2> QED BY <1>7, <2>1 DEF Read, CrashAt
<1>8. CASE Close(t)
  <2>1. PICK known \in BOOLEAN :
          Step(t, "close", [c EXCEPT !.exited = known, !.pc = "setexit"])
    BY <1>8 DEF Close
  <2> DEFINE d == [c EXCEPT !.exited = known, !.pc = "setexit"]
  <2>2. Walks(c, d, commands)
    BY <1>0, <2>1 DEF Walks, Same, CallRecords, Step
  <2> QED BY <1>s, <2>1, <2>2
<1>9. CASE FreeChannel(t)
  <2> DEFINE d == [c EXCEPT !.channels = c.channels - 1, !.pc = "store"]
  <2>1. Step(t, "free", d)
    BY <1>9 DEF FreeChannel
  <2>2. Walks(c, d, commands)
    BY <1>0, <2>1 DEF Walks, Same, CallRecords, Step
  <2> QED BY <1>s, <2>1, <2>2
<1> QED BY <1>1, <1>2, <1>3, <1>4, <1>5, <1>6, <1>7, <1>8, <1>9 DEF Network

(* A segment that holds the lock.                                           *)
LEMMA LockedEffect ==
    ASSUME IInv, NEW t \in Threads, Locked(t)
    PROVE  Crash \/ Acts(t)
<1> DEFINE c == call[t]
<1>0. c \in CallRecords /\ call \in [Threads -> CallRecords]
  BY DEF IInv
<1>s. ASSUME NEW p, NEW d, Segment(t, p, d), Effect(c, d, commands)
      PROVE  Acts(t)
  BY <1>s DEF Segment, Acts
<1>1. CASE Count(t)
  <2>1. CASE c.arg = "list"
    <3> DEFINE n == Len(commands)
               p == LoopTest(0, n)
               d == [c EXCEPT !.count = n, !.pc = p]
    <3>1. Segment(t, "count", d)
      BY <1>1, <2>1 DEF Count
    <3> HIDE DEF n, p
    <3>2. d.pc = p /\ d.count = n
      BY <1>0 DEF CallRecords
    <3>3. Measures(c, d, commands)
      BY <1>0, <2>1, <3>1, <3>2 DEF Measures, CallRecords, Segment, n, p
    <3> QED BY <1>s, <3>1, <3>3 DEF Effect
  <2>2. CASE c.arg # "list"
    <3> DEFINE d == [c EXCEPT !.pc = "return"]
    <3>1. Segment(t, "count", d)
      BY <1>1, <2>2 DEF Count
    <3>2. Rejects(c, d)
      BY <1>0, <2>2, <3>1 DEF Rejects, Same, CallRecords, Segment
    <3> QED BY <1>s, <3>1, <3>2 DEF Effect
  <2> QED BY <2>1, <2>2
<1>2. CASE Begin(t)
  <2> DEFINE d == [c EXCEPT !.reply = NoReply, !.pc = "open"]
  <2>1. CASE Segment(t, "begin", d)
    <3>1. Walks(c, d, commands)
      BY <1>0, <2>1 DEF Walks, Same, CallRecords, Segment
    <3> QED BY <1>s, <2>1, <3>1 DEF Effect
  <2> QED BY <1>2, <2>1 DEF Begin, GetItem, GetItemPastEnd
<1>3. CASE Fetch(t)
  <2> DEFINE x == Char(t)
             d == [c EXCEPT !.command = x, !.pc = "exec"]
  <2>1. CASE Segment(t, "fetch", d)
    <3>1. x = Element(commands, c.i)
      BY DEF Char, Item, Element
    <3> HIDE DEF x
    <3>2. Walks(c, d, commands)
      BY <1>0, <2>1, <3>1 DEF Walks, Same, CallRecords, Segment
    <3> QED BY <1>s, <2>1, <3>2 DEF Effect
  <2> QED BY <1>3, <2>1 DEF Fetch, GetItem, GetItemPastEnd
<1>4. ASSUME NEW s \in {0, 1}, NEW from, NEW to, SetSlot(t, s, from, to),
             <<from, to>> \in {<<"setout", "stderr">>, <<"seterr", "close">>}
      PROVE  Acts(t)
  <2> DEFINE r == [c.reply EXCEPT ![s] = Output(t)]
             d == [c EXCEPT !.reply = r, !.pc = to]
  <2>1. Segment(t, from, d)
    BY <1>4 DEF SetSlot
  <2> HIDE DEF r
  <2>2. Walks(c, d, commands)
    BY <1>0, <1>4, <2>1 DEF Walks, Same, CallRecords, Segment
  <2> QED BY <1>s, <2>1, <2>2 DEF Effect
<1>5. CASE SetExit(t)
  <2> DEFINE v == IF c.exited THEN Output(t) ELSE Default
             r == [c.reply EXCEPT ![2] = v, ![3] = v]
             d == [c EXCEPT !.reply = r, !.pc = "free"]
  <2>1. Segment(t, "setexit", d)
    BY <1>5 DEF SetExit
  <2> HIDE DEF r
  <2>2. Walks(c, d, commands)
    BY <1>0, <2>1 DEF Walks, Same, CallRecords, Segment
  <2> QED BY <1>s, <2>1, <2>2 DEF Effect
<1>6. CASE Store(t)
  <2> DEFINE r == [c.response EXCEPT ![c.i] = c.reply]
             k == Increment(c.i)
             p == LoopTest(Increment(c.i), c.count)
             d == [c EXCEPT !.response = r, !.i = k, !.pc = p]
  <2>1. Segment(t, "store", d)
    BY <1>6 DEF Store
  <2> HIDE DEF r, k, p
  <2>2. /\ d.pc = p /\ d.i = k /\ d.outcome = c.outcome /\ d.arg = c.arg
        /\ d.count = c.count /\ d.runs = c.runs /\ d.sent = c.sent
    BY <1>0 DEF CallRecords
  <2>3. Stores(c, d)
    BY <2>1, <2>2 DEF Stores, Segment, k, p
  <2> QED BY <1>s, <2>1, <2>3 DEF Effect
<1>7. CASE Return(t)
  <2> DEFINE o == IF c.arg = "list" THEN "tuple" ELSE "raised"
             d == [c EXCEPT !.pc = "python", !.outcome = o]
  <2>1. Step(t, "return", d)
    BY <1>7 DEF Return
  <2>2. Returns(c, d)
    BY <1>0, <2>1 DEF Returns, CallRecords, Step
  <2> HIDE DEF d
  <2> QED BY <2>1, <2>2 DEF Step, shared, Acts, Effect
<1> QED BY <1>1, <1>2, <1>3, <1>4, <1>5, <1>6, <1>7 DEF Locked

(* A call starts.                                                           *)
LEMMA CallEffect ==
    ASSUME IInv, NEW t \in Threads, Call(t)
    PROVE  Acts(t)
<1>1. PICK a \in ArgKinds :
        call' = [call EXCEPT ![t] =
           IF a = "invalid" THEN NewCall("python", "raised", a)
           ELSE NewCall("resolve", "pending", a)]
  BY DEF Call
<1>2. /\ a \in {"list", "other", "invalid"} /\ call[t].pc = "python"
      /\ UNCHANGED <<status, commands>>
  BY <1>1, ExecuteSshAssumption DEF Call, InPython
<1>3. PICK d : /\ call' = [call EXCEPT ![t] = d]
               /\ \/ d = NewCall("python", "raised", a) /\ a = "invalid"
                  \/ d = NewCall("resolve", "pending", a) /\ a # "invalid"
  BY <1>1
<1>4. Starts(call[t], d)
  BY <1>2, <1>3 DEF Starts
<1> QED BY <1>2, <1>3, <1>4 DEF Acts, Effect

(* Python code leaves the calls as they are; a command may be freed.        *)
Idles ==
    /\ UNCHANGED status /\ call' \in [Threads -> CallRecords]
    /\ \A u \in Threads :
          /\ Same(call[u], call'[u])
          /\ call'[u].pc = call[u].pc /\ call'[u].fd = call[u].fd

(* The interpreter's steps.                                                 *)
LEMMA InterpreterEffect ==
    ASSUME IInv, NEW t \in Threads, Interpreter(t)
    PROVE  Crash \/ Idles
<1>1. CASE UNCHANGED <<status, call>>
  BY <1>1 DEF Idles, IInv, Same
<1>2. CASE EditList(t)
  <2>1. ASSUME NEW u \in Threads
        PROVE  /\ Same(call[u], call'[u])
               /\ call'[u].pc = call[u].pc /\ call'[u].fd = call[u].fd
    <3>1. call'[u] \in {[call[u] EXCEPT !.command = Garbage], call[u]}
      BY <1>2 DEF EditList
    <3>2. call[u] \in CallRecords
      BY DEF IInv
    <3> QED BY <3>1, <3>2 DEF Same, CallRecords
  <2>2. IInv'
    BY <1>2, InterpreterInv
  <2> QED BY <1>2, <2>1, <2>2 DEF Idles, IInv, EditList
<1> QED BY <1>1, <1>2 DEF Interpreter, Acquire, Yield, Surface, Mixup

(* Every step crashes the process, is one of Python code, or has one of the *)
(* effects on one call.                                                     *)
LEMMA StepEffect ==
    ASSUME IInv, Next
    PROVE  Crash \/ Idles \/ \E t \in Threads : Acts(t)
BY NetworkEffect, LockedEffect, CallEffect, InterpreterEffect DEF Next

-----------------------------------------------------------------------------
(* The invariant of the loop.                                               *)

(* The effects keep it for the call they touch.                             *)
LEMMA EffectLoop ==
    ASSUME NEW c, CallOK(c), WrapOK(c), ArgOK(c),
           NEW d, CallOK(d), NEW list, Effect(c, d, list)
    PROVE  WrapOK(d) /\ ArgOK(d)
<1>0. /\ c.i \in Nat /\ c.count \in Nat /\ c.count <= MaxLen
      /\ c.runs \in [Index -> 0..2] /\ c.i < IndexModulus /\ c \in CallRecords
      /\ PositionOK(c) /\ RunsOK(c) /\ \A j \in Index : j \in Nat
      /\ MaxLen \in Nat /\ IndexModulus \in Nat
  BY ExecuteSshAssumption DEF CallOK, CallRecords, Index
<1>1. CASE Walks(c, d, list)
  BY <1>1 DEF Walks, Same, WrapOK, ArgOK, Early
<1>2. CASE Breaks(c, d)
  BY <1>0, <1>2 DEF Breaks, Same, WrapOK, ArgOK, Early, PositionOK
<1>3. CASE Measures(c, d, list)
  <2>1. c.count = 0 /\ c.i = 0 /\ c.outcome = "pending"
    BY <1>0, <1>3 DEF Measures, PositionOK
  <2>2. d.pc \in {"begin", "return"}
    BY <1>3 DEF Measures, LoopTest
  <2>3. \A j \in Index : ~(c.runs[j] > 0)
    BY <1>0, <1>3, <2>1, ExecuteSshAssumption DEF WrapOK, Measures
  <2> QED BY <1>0, <1>3, <2>1, <2>2, <2>3 DEF Measures, WrapOK, ArgOK
<1>4. CASE Rejects(c, d)
  BY <1>0, <1>4 DEF Rejects, Same, WrapOK, ArgOK, PositionOK
<1>5. CASE Sends(c, d)
  <2>1. c.i \in Index
    BY <1>0, <1>5 DEF PositionOK, Sends, Index
  <2>2. d.runs[c.i] > 0 /\ \A j \in Index : j # c.i => d.runs[j] = c.runs[j]
    BY <1>0, <1>5, <2>1 DEF Sends
  <2>3. WrapOK(d)
    BY <1>0, <1>5, <2>1, <2>2 DEF Sends, WrapOK
  <2> QED BY <1>0, <1>5, <2>3 DEF Sends, ArgOK, PositionOK
<1>6. CASE Stores(c, d)
  <2>1. d.pc \in {"begin", "return"}
    BY <1>6 DEF Stores, LoopTest
  <2>2. WrapOK(d)
    BY <1>0, <1>6, <2>1 DEF Stores, WrapOK, Increment, PositionOK
  <2> QED BY <1>0, <1>6, <2>1, <2>2 DEF Stores, ArgOK, PositionOK
<1>7. CASE Returns(c, d)
  BY <1>0, <1>7 DEF Returns, WrapOK, ArgOK
<1>8. CASE Starts(c, d)
  <2>1. PICK p \in {"python", "resolve"}, o \in {"raised", "pending"},
                a \in {"list", "other", "invalid"} : d = NewCall(p, o, a)
    BY <1>8 DEF Starts
  <2>2. d.pc = p /\ d.outcome = o /\ d.i = 0 /\ d.runs = [j \in Index |-> 0]
    BY <2>1 DEF NewCall
  <2> QED BY <1>0, <2>2 DEF WrapOK, ArgOK
<1> QED BY <1>1, <1>2, <1>3, <1>4, <1>5, <1>6, <1>7, <1>8 DEF Effect

(* LoopInv holds throughout: what was sent follows the index.               *)
THEOREM LoopInvariance == Spec => []LoopInv
<1>1. Init => \A t \in Threads : WrapOK(call[t]) /\ ArgOK(call[t])
  <2> SUFFICES ASSUME Init, NEW t \in Threads
               PROVE  WrapOK(call[t]) /\ ArgOK(call[t])
    OBVIOUS
  <2>1. /\ call[t].pc = "python" /\ call[t].outcome = "none"
        /\ call[t].i = 0 /\ call[t].runs = [j \in Index |-> 0]
    BY DEF Init, NewCall
  <2>2. \A j \in Index : j \in Nat
    BY DEF Index
  <2> QED BY <2>1, <2>2 DEF WrapOK, ArgOK
<1>2. LoopInv /\ IInv' /\ [Next]_vars => LoopInv'
  <2> SUFFICES ASSUME LoopInv, IInv', [Next]_vars
               PROVE  \A u \in Threads : WrapOK(call'[u]) /\ ArgOK(call'[u])
    BY DEF LoopInv, WrapOK, ArgOK
  <2>0. IInv
    BY DEF LoopInv
  <2>1. CASE UNCHANGED call
    BY <2>1 DEF LoopInv
  <2>2. CASE Idles
    BY <2>2 DEF LoopInv, Idles, Same, WrapOK, ArgOK
  <2>3. ASSUME NEW t \in Threads, Acts(t)
        PROVE  \A u \in Threads : WrapOK(call'[u]) /\ ArgOK(call'[u])
    <3>1. PICK d : call' = [call EXCEPT ![t] = d] /\ Effect(call[t], d, commands)
      BY <2>3 DEF Acts
    <3>2. CallOK(call[t]) /\ CallOK(d)
      BY <2>0, <3>1 DEF IInv, CallsOK
    <3>3. WrapOK(d) /\ ArgOK(d)
      BY <3>1, <3>2, EffectLoop DEF LoopInv
    <3> QED BY <2>0, <3>1, <3>3 DEF LoopInv, IInv
  <2> QED BY <2>0, <2>1, <2>2, <2>3, StepEffect DEF Crash, vars
<1> QED BY <1>1, <1>2, Invariance, InitOK, PTL DEF Spec, LoopInv

-----------------------------------------------------------------------------
(* The promise.  ExecuteSsh refines SshCalls: each effect is one of its     *)
(* steps, or changes nothing that it sees.                                  *)

(* The number of commands run, when they are those below n.                 *)
LEMMA RunCount ==
    ASSUME NEW c, NEW n \in Nat, n <= MaxLen,
           \A j \in Index : c.runs[j] > 0 <=> j < n
    PROVE  NumberRun(c) = n
<1>1. {j \in Index : c.runs[j] > 0} = 0..(n - 1)
  BY ExecuteSshAssumption DEF Index
<1>2. Cardinality(0..(n - 1)) = IF 0 > n - 1 THEN 0 ELSE (n - 1) - 0 + 1
  BY FS_Interval
<1>3. NumberRun(c) = Cardinality(0..(n - 1))
  BY <1>1, Zenon DEF NumberRun
<1>4. Cardinality(0..(n - 1)) = n
  BY <1>2
<1> QED BY <1>3, <1>4

(* How far a call got, as SshCalls sees it.                                 *)
LEMMA Progress ==
    ASSUME NEW c, CallOK(c), WrapOK(c)
    PROVE  /\ c.pc \notin Sent /\ c.count < IndexModulus => NumberRun(c) = c.i
           /\ c.pc = "exec" =>
                 \/ /\ NumberRun(c) = c.i /\ c.i < c.count
                    /\ \A j \in Index : c.runs[j] > 0 <=> j < c.i
                 \/ /\ NumberRun(c) = IndexModulus /\ c.count >= IndexModulus
                    /\ \A j \in Index : c.runs[j] > 0 <=> j < IndexModulus
<1>0. /\ c.i \in Nat /\ c.count \in Nat /\ c.count <= MaxLen
      /\ PositionOK(c) /\ c.i <= MaxLen
      /\ IndexModulus \in Nat /\ MaxLen \in Nat /\ \A j \in Index : j \in Nat
  BY ExecuteSshAssumption DEF CallOK, CallRecords, PositionOK, Index
<1>1. CASE /\ c.pc \notin Sent
           /\ \A j \in Index :
                 c.runs[j] > 0 <=> j < c.i \/ (j = c.i /\ c.pc \in Sent)
  <2>1. \A j \in Index : c.runs[j] > 0 <=> j < c.i
    BY <1>1
  <2>2. NumberRun(c) = c.i
    BY <1>0, <2>1, RunCount
  <2> QED BY <1>0, <2>1, <2>2 DEF PositionOK
<1>2. CASE /\ c.count >= IndexModulus
           /\ \A j \in Index : c.runs[j] > 0 <=> j < IndexModulus
  <2>1. NumberRun(c) = IndexModulus
    BY <1>0, <1>2, RunCount
  <2> QED BY <1>0, <1>2, <2>1
<1> QED BY <1>1, <1>2 DEF WrapOK

(* What SshCalls sees of a call.                                            *)
Seen(c, d) ==
    State(d) = State(c) /\ d.count = c.count /\ Ran(d) = Ran(c)
      /\ Result(d) = Result(c)

(* The effects that SshCalls does not see.                                  *)
LEMMA Unseen ==
    ASSUME NEW c, CallOK(c), ArgOK(c), NEW d, CallOK(d), NEW list,
           Walks(c, d, list) \/ Rejects(c, d) \/ Stores(c, d)
    PROVE  Seen(c, d)
<1>1. Ran(d) = Ran(c)
  BY DEF Ran, NumberRun, Walks, Rejects, Stores, Same
<1>2. d.count = c.count /\ d.outcome = c.outcome /\ d.arg = c.arg
  BY DEF Walks, Rejects, Stores, Same
<1>3. c.outcome = "pending"
  BY DEF CallOK, PositionOK, Walks, Rejects, Stores, Early
<1>4. State(d) = State(c)
  BY <1>2, <1>3
  DEF State, ArgOK, Walks, Rejects, Stores, Early, LoopTest
<1>5. Result(d) = Result(c)
  BY <1>2, <1>3 DEF Result
<1> QED BY <1>1, <1>2, <1>4, <1>5 DEF Seen

(* Line 212: the next command is run, or an earlier one again.              *)
LEMMA SendSeen ==
    ASSUME NEW c, CallOK(c), WrapOK(c), ArgOK(c), NEW d, CallOK(d), Sends(c, d)
    PROVE  /\ State(c) = "counted" /\ State(d) = "counted"
           /\ d.count = c.count /\ Result(d) = Result(c)
           /\ \/ /\ Len(Ran(c)) < c.count /\ Len(Ran(c)) < IndexModulus
                 /\ \E x \in Commands \cup {Garbage} : Ran(d) = Append(Ran(c), x)
              \/ /\ Len(Ran(c)) = IndexModulus /\ c.count >= IndexModulus
                 /\ \E k \in DOMAIN Ran(c), x \in Commands \cup {Garbage} :
                       Ran(d) = [Ran(c) EXCEPT ![k] = x]
<1>0. /\ c.i \in Nat /\ c.count \in Nat /\ c.count <= MaxLen /\ c.i < c.count
      /\ c.i < IndexModulus /\ c.i \in Index
      /\ c.runs \in [Index -> 0..2] /\ c.sent \in [Index -> Pointers]
      /\ d.count = c.count /\ d.outcome = "pending" /\ c.outcome = "pending"
      /\ c.pc = "exec" /\ d.pc = "stdout" /\ c.arg = "list" /\ d.arg = "list"
      /\ IndexModulus \in Nat /\ MaxLen \in Nat
      /\ Index = 0..(MaxLen - 1)
  BY ExecuteSshAssumption
  DEF CallOK, CallRecords, PositionOK, Sends, ArgOK, Index
<1>1. State(c) = "counted" /\ State(d) = "counted"
  BY <1>0 DEF State, Early
<1>2. Result(d) = Result(c)
  BY <1>0 DEF Result
<1>3. c.command \in Commands \cup {Garbage}
  BY DEF CallOK, CallRecords, Sends, Pointers
<1>4. /\ d.runs[c.i] > 0 /\ d.sent[c.i] = c.command
      /\ \A j \in Index : j # c.i =>
            d.runs[j] = c.runs[j] /\ d.sent[j] = c.sent[j]
  BY <1>0 DEF Sends
<1>5. CASE /\ NumberRun(c) = c.i
           /\ \A j \in Index : c.runs[j] > 0 <=> j < c.i
  <2>1. NumberRun(d) = c.i + 1
    <3>1. \A j \in Index : d.runs[j] > 0 <=> j < c.i + 1
      BY <1>0, <1>4, <1>5
    <3>2. c.i + 1 \in Nat /\ c.i + 1 <= MaxLen
      BY <1>0
    <3> QED BY <3>1, <3>2, RunCount
  <2>2. /\ Ran(c) = [k \in 1..c.i |-> c.sent[k - 1]]
        /\ Ran(d) = [k \in 1..(c.i + 1) |-> d.sent[k - 1]]
    BY <1>5, <2>1, Zenon DEF Ran
  <2>3. Len(Ran(c)) = c.i
    BY <1>0, <2>2
  <2>4. Ran(d) = Append(Ran(c), c.command)
    <3> DEFINE q == [k \in 1..(c.i + 1) |->
                        IF k \in 1..c.i THEN c.sent[k - 1] ELSE c.command]
    <3>1. Append(Ran(c), c.command) = q
      BY <1>0, <2>2
    <3>2. ASSUME NEW k \in 1..(c.i + 1) PROVE d.sent[k - 1] = q[k]
      <4>1. q[k] = IF k \in 1..c.i THEN c.sent[k - 1] ELSE c.command
        BY Zenon
      <4>2. /\ k - 1 \in Index
            /\ k \notin 1..c.i => k - 1 = c.i
            /\ k \in 1..c.i => k - 1 # c.i
        BY <1>0
      <4> HIDE DEF q
      <4> QED BY <1>4, <4>1, <4>2
    <3>3. Ran(d) = q
      BY <2>2, <3>2
    <3> QED BY <3>1, <3>3
  <2> QED BY <1>0, <1>1, <1>2, <1>3, <2>3, <2>4
<1>6. CASE /\ NumberRun(c) = IndexModulus /\ c.count >= IndexModulus
           /\ \A j \in Index : c.runs[j] > 0 <=> j < IndexModulus
  <2>1. NumberRun(d) = IndexModulus
    <3>1. \A j \in Index : d.runs[j] > 0 <=> j < IndexModulus
      BY <1>0, <1>4, <1>6
    <3> QED BY <1>0, <1>6, <3>1, RunCount
  <2>2. /\ Ran(c) = [k \in 1..IndexModulus |-> c.sent[k - 1]]
        /\ Ran(d) = [k \in 1..IndexModulus |-> d.sent[k - 1]]
    BY <1>6, <2>1, Zenon DEF Ran
  <2>3. Len(Ran(c)) = IndexModulus /\ c.i + 1 \in DOMAIN Ran(c)
    BY <1>0, <2>2
  <2>4. Ran(d) = [Ran(c) EXCEPT ![c.i + 1] = c.command]
    <3>1. \A k \in 1..IndexModulus : /\ k - 1 \in Index /\ k \in Nat
                                     /\ k - 1 = c.i <=> k = c.i + 1
      BY <1>0, <1>6
    <3>2. \A k \in 1..IndexModulus :
            d.sent[k - 1] = IF k = c.i + 1 THEN c.command ELSE c.sent[k - 1]
      BY <1>4, <3>1
    <3>3. Ran(c) \in [1..IndexModulus -> Pointers] /\ c.i + 1 \in 1..IndexModulus
      BY <1>0, <2>2, <3>1
    <3>4. [Ran(c) EXCEPT ![c.i + 1] = c.command] =
            [k \in 1..IndexModulus |->
               IF k = c.i + 1 THEN c.command ELSE Ran(c)[k]]
      BY <3>3, Zenon
    <3>5. \A k \in 1..IndexModulus :
            d.sent[k - 1] = IF k = c.i + 1 THEN c.command ELSE Ran(c)[k]
      BY <2>2, <3>2
    <3>6. [k \in 1..IndexModulus |-> d.sent[k - 1]] =
            [k \in 1..IndexModulus |->
               IF k = c.i + 1 THEN c.command ELSE Ran(c)[k]]
      BY <3>5, Zenon
    <3> QED BY <2>2, <3>4, <3>6, Zenon
  <2> QED BY <1>0, <1>1, <1>2, <1>3, <1>6, <2>3, <2>4
<1> QED BY <1>0, <1>5, <1>6, Progress

(* Line 297: the result answers for the commands that were run.             *)
LEMMA ReturnSeen ==
    ASSUME NEW c, CallOK(c), WrapOK(c), ArgOK(c), NEW d, CallOK(d), Returns(c, d)
    PROVE  /\ d.count = c.count /\ Ran(d) = Ran(c)
           /\ \/ /\ State(c) = "counted" /\ State(d) = "answered"
                 /\ Len(Ran(c)) = c.count /\ c.count < IndexModulus
                 /\ Result(d) = Ran(c)
              \/ /\ State(c) = "asked" /\ State(d) = "refused"
                 /\ Result(d) = Result(c)
<1>0. /\ c.i = c.count /\ c.count \in Nat /\ c.count < IndexModulus
      /\ c.count <= MaxLen /\ c.outcome = "pending" /\ c.pc = "return"
      /\ d.count = c.count /\ d.response = c.response /\ d.i = c.i
      /\ Index = 0..(MaxLen - 1) /\ MaxLen \in Nat
  BY ExecuteSshAssumption DEF CallOK, CallRecords, PositionOK, Returns, Index
<1>1. Ran(d) = Ran(c)
  BY DEF Ran, NumberRun, Returns
<1>2. CASE c.arg = "list"
  <2>1. State(c) = "counted" /\ State(d) = "answered" /\ d.outcome = "tuple"
    BY <1>0, <1>2 DEF State, Ending, Returns, Early
  <2>2. NumberRun(c) = c.count
    BY <1>0, Progress
  <2>3. Ran(c) = [k \in 1..c.count |-> c.sent[k - 1]]
    BY <2>2, Zenon DEF Ran
  <2>4. \A j \in Index : j < c.count => c.response[j][0] = c.sent[j]
    BY <1>0 DEF CallOK, ReplyOK, EntryOK
  <2>5. Result(d) = [k \in 1..c.count |-> c.response[k - 1][0]]
    BY <1>0, <2>1 DEF Result
  <2>6. \A k \in 1..c.count : c.response[k - 1][0] = c.sent[k - 1]
    BY <1>0, <2>4
  <2> QED BY <1>0, <1>1, <2>1, <2>3, <2>5, <2>6
<1>3. CASE c.arg # "list"
  <2>1. d.outcome = "raised"
    BY <1>3 DEF Returns
  <2>2. State(c) = "asked" /\ State(d) = "refused"
    BY <1>0, <1>3, <2>1 DEF State, Ending
  <2>3. Result(d) = Result(c)
    BY <1>0, <2>1 DEF Result
  <2> QED BY <1>0, <1>1, <2>2, <2>3
<1> QED BY <1>2, <1>3

(* An effect on one call is a step of SshCalls or stutters.                 *)
LEMMA ActsRefine ==
    ASSUME LoopInv, LoopInv', NEW t \in Threads, Acts(t), status = "up"
    PROVE  Promise!Next \/ UNCHANGED Promise!vars
<1> DEFINE c == call[t]
           d == call'[t]
<1>1. PICK e : call' = [call EXCEPT ![t] = e] /\ Effect(c, e, commands)
  BY DEF Acts
<1>2. /\ d = e /\ status' = status /\ \A u \in Threads : u # t => call'[u] = call[u]
  BY <1>1 DEF Acts, LoopInv, IInv
<1>3. /\ CallOK(c) /\ WrapOK(c) /\ ArgOK(c) /\ Effect(c, d, commands)
      /\ CallOK(d)
  BY <1>1, <1>2 DEF LoopInv, IInv, CallsOK
<1>4. d.count \in 0..MaxLen
  BY <1>3 DEF CallOK, CallRecords
<1>n. ASSUME \/ Promise!Ask(t) \/ Promise!Measure(t) \/ Promise!Run(t)
             \/ Promise!Rerun(t) \/ Promise!Answer(t) \/ Promise!Refuse(t)
             \/ Promise!Abandon(t)
      PROVE  Promise!Next
  BY <1>n DEF Promise!Next
<1> HIDE DEF c, d
<1>5. CASE Walks(c, d, commands) \/ Rejects(c, d) \/ Stores(c, d)
  <2>1. Seen(c, d)
    BY <1>3, <1>5, Unseen
  <2> QED BY <1>2, <2>1 DEF Seen, Promise!vars, c, d
<1>6. CASE Breaks(c, d)
  <2>1. /\ State(c) \in {"asked", "counted"} /\ State(d) = "abandoned"
        /\ d.count = c.count /\ Ran(d) = Ran(c) /\ Result(d) = Result(c)
    <3>1. c.outcome = "pending" /\ d.outcome = "pending" /\ c.pc # "rogue"
      BY <1>3, <1>6 DEF CallOK, PositionOK, Breaks, Same, Early
    <3> QED BY <1>6, <3>1 DEF Breaks, Same, State, Ran, NumberRun, Result
  <2>2. Promise!Abandon(t)
    BY <1>2, <2>1 DEF Promise!Abandon, Promise!Open, c, d
  <2> QED BY <1>n, <2>2
<1>7. CASE Measures(c, d, commands)
  <2>1. /\ State(c) = "asked" /\ State(d) = "counted"
        /\ Ran(d) = Ran(c) /\ Result(d) = Result(c)
    <3>1. c.outcome = "pending" /\ d.outcome = "pending" /\ c.pc = "count"
      BY <1>3, <1>7 DEF CallOK, PositionOK, Measures
    <3>2. d.pc \in {"begin", "return"}
      BY <1>7 DEF Measures, LoopTest
    <3>3. State(c) = "asked" /\ State(d) = "counted"
      BY <1>7, <3>1, <3>2 DEF Measures, State, Early
    <3> QED BY <1>7, <3>1, <3>3 DEF Measures, Ran, NumberRun, Result
  <2>2. Promise!Measure(t)
    BY <1>2, <1>4, <2>1 DEF Promise!Measure, c, d
  <2> QED BY <1>n, <2>2
<1>8. CASE Sends(c, d)
  <2>1. /\ State(c) = "counted" /\ State(d) = "counted"
        /\ d.count = c.count /\ Result(d) = Result(c)
    BY <1>3, <1>8, SendSeen
  <2>2. CASE /\ Len(Ran(c)) < c.count /\ Len(Ran(c)) < IndexModulus
             /\ \E x \in Commands \cup {Garbage} : Ran(d) = Append(Ran(c), x)
    <3>1. Promise!Run(t)
      BY <1>2, <2>1, <2>2 DEF Promise!Run, c, d
    <3> QED BY <1>n, <3>1
  <2>3. CASE /\ Len(Ran(c)) = IndexModulus /\ c.count >= IndexModulus
             /\ \E k \in DOMAIN Ran(c), x \in Commands \cup {Garbage} :
                   Ran(d) = [Ran(c) EXCEPT ![k] = x]
    <3> DEFINE ran == [u \in Threads |-> Ran(call[u])]
               ranNext == [u \in Threads |-> Ran(call'[u])]
    <3>1. PICK k \in DOMAIN Ran(c), x \in Commands \cup {Garbage} :
            Ran(d) = [Ran(c) EXCEPT ![k] = x]
      BY <2>3
    <3>2. ran[t] = Ran(c) /\ ranNext[t] = [Ran(c) EXCEPT ![k] = x]
      BY <3>1 DEF c, d
    <3>3. ranNext = [ran EXCEPT ![t] = [ran[t] EXCEPT ![k] = x]]
      BY <1>2, <3>2
    <3>4. ranNext = [ran EXCEPT ![t][k] = x]
      BY <3>3, Zenon
    <3>5. /\ State(call[t]) = "counted" /\ call[t].count >= IndexModulus
          /\ Len(ran[t]) = IndexModulus /\ k \in DOMAIN ran[t]
      BY <2>1, <2>3, <3>1, <3>2 DEF c
    <3>6. UNCHANGED <<status = "up", [u \in Threads |-> State(call[u])],
                      [u \in Threads |-> call[u].count],
                      [u \in Threads |-> Result(call[u])]>>
      BY <1>2, <2>1 DEF c, d
    <3>7. Promise!Rerun(t)
      BY <3>4, <3>5, <3>6, ZenonT(40) DEF Promise!Rerun
    <3> QED BY <1>n, <3>7
  <2> QED BY <1>3, <1>8, <2>2, <2>3, SendSeen
<1>9. CASE Returns(c, d)
  <2>1. d.count = c.count /\ Ran(d) = Ran(c)
    BY <1>3, <1>9, ReturnSeen
  <2>2. CASE /\ State(c) = "counted" /\ State(d) = "answered"
             /\ Len(Ran(c)) = c.count /\ c.count < IndexModulus
             /\ Result(d) = Ran(c)
    <3>1. Promise!Answer(t)
      BY <1>2, <2>1, <2>2 DEF Promise!Answer, c, d
    <3> QED BY <1>n, <3>1
  <2>3. CASE /\ State(c) = "asked" /\ State(d) = "refused"
             /\ Result(d) = Result(c)
    <3>1. Promise!Refuse(t)
      BY <1>2, <2>1, <2>3 DEF Promise!Refuse, c, d
    <3> QED BY <1>n, <3>1
  <2> QED BY <1>3, <1>9, <2>2, <2>3, ReturnSeen
<1>10. CASE Starts(c, d)
  <2>1. State(c) \in {"idle", "answered", "refused"}
    <3>1. c.outcome \in {"none", "tuple", "raised"}
      BY <1>3, <1>10 DEF CallOK, PositionOK, CallRecords, Starts
    <3> QED BY <3>1 DEF State, Ending
  <2>2. PICK p, o, a : /\ d = NewCall(p, o, a)
                       /\ \/ p = "python" /\ o = "raised"
                          \/ p = "resolve" /\ o = "pending"
    BY <1>10 DEF Starts
  <2>3. /\ d.pc = p /\ d.outcome = o /\ d.count = 0
        /\ d.runs = [j \in Index |-> 0]
    BY <2>2 DEF NewCall
  <2>4. State(d) \in {"asked", "refused"} /\ Result(d) = <<>>
    BY <2>2, <2>3 DEF State, Ending, Early, Result
  <2>5. Ran(d) = <<>>
    <3>1. \A j \in Index : d.runs[j] > 0 <=> j < 0
      BY <2>3 DEF Index
    <3>2. NumberRun(d) = 0
      BY <3>1, RunCount, ExecuteSshAssumption
    <3>3. Ran(d) = [k \in 1..0 |-> d.sent[k - 1]]
      BY <3>2, Zenon DEF Ran
    <3> QED BY <3>3
  <2>6. Promise!Ask(t)
    BY <1>2, <2>1, <2>3, <2>4, <2>5 DEF Promise!Ask, c, d
  <2> QED BY <1>n, <2>6
<1> QED BY <1>3, <1>5, <1>6, <1>7, <1>8, <1>9, <1>10 DEF Effect

(* A crash, and what Python code does, refine too.                          *)
LEMMA StepRefines ==
    ASSUME LoopInv, LoopInv', [Next]_vars
    PROVE  [Promise!Next]_(Promise!vars)
<1>0. IInv
  BY DEF LoopInv
<1>1. CASE UNCHANGED vars
  BY <1>1 DEF vars, shared, Promise!vars
<1>2. CASE Next /\ Crash
  <2>1. status = "up" /\ status' = "crashed" /\ UNCHANGED call
    BY <1>2 DEF Next, Crash
  <2>2. Promise!Die
    BY <2>1 DEF Promise!Die
  <2> QED BY <2>1, <2>2 DEF Promise!Next
<1>3. CASE Idles
  <2>1. ASSUME NEW u \in Threads PROVE Seen(call[u], call'[u])
    <3>1. Same(call[u], call'[u]) /\ call'[u].pc = call[u].pc
      BY <1>3 DEF Idles
    <3> QED BY <3>1 DEF Same, Seen, State, Ran, NumberRun, Result
  <2> QED BY <1>3, <2>1 DEF Idles, Seen, Promise!vars
<1>4. CASE Next /\ \E t \in Threads : Acts(t)
  BY <1>4, ActsRefine DEF Next
<1> QED BY <1>0, <1>1, <1>2, <1>3, <1>4, StepEffect

(* A program that sees only calls, commands run and results cannot tell     *)
(* wrapper.c (lines 77-297) from SshCalls: commands run in order and once,  *)
(* and a call answers for all of them or not at all, for any number of      *)
(* threads, any faults and any changes to the list.                         *)
THEOREM PromiseKept == Spec => KeepsPromise
<1>1. Init => Promise!Init
  <2> SUFFICES ASSUME Init PROVE Promise!Init
    OBVIOUS
  <2>1. status = "up"
    BY DEF Init
  <2>2. ASSUME NEW t \in Threads
        PROVE  /\ State(call[t]) = "idle" /\ call[t].count = 0
               /\ Ran(call[t]) = <<>> /\ Result(call[t]) = <<>>
    <3>1. /\ call[t].outcome = "none" /\ call[t].count = 0
          /\ call[t].runs = [j \in Index |-> 0]
      BY DEF Init, NewCall
    <3>2. \A j \in Index : call[t].runs[j] > 0 <=> j < 0
      BY <3>1 DEF Index
    <3>3. NumberRun(call[t]) = 0
      BY <3>2, RunCount, ExecuteSshAssumption
    <3>4. Ran(call[t]) = [k \in 1..0 |-> call[t].sent[k - 1]]
      BY <3>3, Zenon DEF Ran
    <3>5. Ran(call[t]) = <<>>
      BY <3>4
    <3> QED BY <3>1, <3>5 DEF State, Ending, Result
  <2> QED BY <2>1, <2>2 DEF Promise!Init
<1>2. LoopInv /\ LoopInv' /\ [Next]_vars => [Promise!Next]_(Promise!vars)
  BY StepRefines
<1> QED BY <1>1, <1>2, LoopInvariance, PTL DEF Spec, KeepsPromise, Promise!Spec

-----------------------------------------------------------------------------
(* What is sent is what the list says.                                      *)

(* The effects keep ListedOK for the call they touch.                       *)
LEMMA EffectListed ==
    ASSUME NEW c, CallOK(c), NEW d, CallOK(d),
           NEW list, Len(list) \in Nat, ListedOK(c, list), Effect(c, d, list)
    PROVE  ListedOK(d, list)
<1>0. /\ c.i \in Nat /\ c.count \in Nat /\ c.count <= MaxLen
      /\ c.runs \in [Index -> 0..2] /\ c.sent \in [Index -> Pointers]
      /\ PositionOK(c) /\ MaxLen \in Nat
  BY ExecuteSshAssumption DEF CallOK, CallRecords
<1>1. CASE Walks(c, d, list) \/ Breaks(c, d) \/ Rejects(c, d)
  BY <1>1 DEF Walks, Breaks, Rejects, Same, ListedOK
<1>2. CASE Measures(c, d, list)
  BY <1>2 DEF Measures, ListedOK, LoopTest
<1>3. CASE Sends(c, d)
  <2>1. c.i \in Index /\ c.i < Len(list)
    BY <1>0, <1>3 DEF PositionOK, Sends, Index, ListedOK
  <2>2. c.command = list[c.i + 1]
    BY <1>3 DEF Sends, ListedOK, Element
  <2>3. /\ d.sent[c.i] = list[c.i + 1]
        /\ \A j \in Index : j # c.i =>
              d.runs[j] = c.runs[j] /\ d.sent[j] = c.sent[j]
    BY <1>0, <1>3, <2>1, <2>2 DEF Sends
  <2> QED BY <1>3, <2>1, <2>3 DEF Sends, ListedOK
<1>4. CASE Stores(c, d)
  BY <1>4 DEF Stores, ListedOK, LoopTest
<1>5. CASE Returns(c, d)
  BY <1>5 DEF Returns, ListedOK
<1>6. CASE Starts(c, d)
  <2>1. PICK p \in {"python", "resolve"}, o \in {"raised", "pending"},
                a \in {"list", "other", "invalid"} : d = NewCall(p, o, a)
    BY <1>6 DEF Starts
  <2>2. d.pc = p /\ d.count = 0 /\ d.runs = [j \in Index |-> 0]
    BY <2>1 DEF NewCall
  <2> QED BY <2>2 DEF ListedOK
<1> QED BY <1>1, <1>2, <1>3, <1>4, <1>5, <1>6 DEF Effect

(* Appending to the list takes no command away from a call.                 *)
LEMMA AppendListed ==
    ASSUME IInv, ListedInv, ListOps \subseteq {"append"},
           NEW t \in Threads, EditList(t)
    PROVE  /\ call' = call
           /\ \E e \in Elements : commands' = Append(commands, e)
           /\ \A u \in Threads : ListedOK(call[u], commands')
<1>0. commands \in Seq(Elements)
  BY DEF IInv, SharedOK
<1>1. PICK list \in Edits :
        /\ commands' = list
        /\ call' = [u \in Threads |->
              IF /\ call[u].pc = "exec" /\ call[u].command \in Commands
                 /\ call[u].command \notin Referenced(list)
              THEN [call[u] EXCEPT !.command = Garbage] ELSE call[u]]
  BY DEF EditList
<1>2. PICK e \in Elements : list = Append(commands, e)
  BY <1>1 DEF Edits
<1>3. /\ Len(list) = Len(commands) + 1
      /\ \A k \in 1..Len(commands) : list[k] = commands[k] /\ k \in DOMAIN list
  BY <1>0, <1>2
<1>4. ASSUME NEW u \in Threads
      PROVE  /\ ListedOK(call[u], list)
             /\ call[u].pc = "exec" /\ call[u].command \in Commands
                  => call[u].command \in Referenced(list)
  <2>0. /\ ListedOK(call[u], commands) /\ CallOK(call[u])
        /\ call[u].i \in Nat /\ call[u].count \in Nat /\ Len(commands) \in Nat
        /\ call[u].pc = "exec" => call[u].i < call[u].count
    BY <1>0 DEF ListedInv, IInv, CallsOK, CallOK, CallRecords, PositionOK
  <2>1. call[u].pc = "exec" => call[u].i + 1 \in 1..Len(commands)
    BY <2>0 DEF ListedOK
  <2>2. \A j \in Index : j < Len(commands) => j + 1 \in 1..Len(commands)
    BY <2>0, ExecuteSshAssumption DEF Index
  <2>3. call[u].pc = "exec" => call[u].command = Element(list, call[u].i)
    BY <1>3, <2>0, <2>1 DEF ListedOK, Element
  <2>4. ListedOK(call[u], list)
    BY <1>3, <2>0, <2>2, <2>3, ExecuteSshAssumption DEF ListedOK, Index
  <2>5. call[u].pc = "exec" /\ call[u].command \in Commands
          => call[u].command \in Referenced(list)
    BY <1>3, <2>1, <2>3, ExecuteSshAssumption DEF Element, Referenced
  <2> QED BY <2>4, <2>5
<1>5. call' = call
  BY <1>1, <1>4 DEF IInv
<1> QED BY <1>1, <1>2, <1>4, <1>5

(* ListedInv holds throughout.                                              *)
THEOREM ListedInvariance == Spec => []ListedInv
<1>1. Init => ListedInv
  <2> SUFFICES ASSUME Init, NEW t \in Threads
               PROVE  ListedOK(call[t], commands)
    BY DEF ListedInv
  <2>1. /\ call[t].pc = "python" /\ call[t].count = 0
        /\ call[t].runs = [j \in Index |-> 0]
    BY DEF Init, NewCall
  <2>2. Len(commands) \in Nat
    BY InitOK DEF IInv, SharedOK
  <2> QED BY <2>1, <2>2 DEF ListedOK
<1>2. IInv /\ IInv' /\ ListedInv /\ [Next]_vars => ListedInv'
  <2> SUFFICES ASSUME IInv, IInv', ListedInv, [Next]_vars,
                      ListOps \subseteq {"append"}
               PROVE  \A u \in Threads : ListedOK(call'[u], commands')
    BY DEF ListedInv, ListedOK, Element
  <2>0. \A u \in Threads : ListedOK(call[u], commands)
    BY DEF ListedInv
  <2>1. CASE UNCHANGED <<call, commands>>
    BY <2>0, <2>1
  <2>2. ASSUME NEW t \in Threads, EditList(t)
        PROVE  \A u \in Threads : ListedOK(call'[u], commands')
    BY <2>2, AppendListed
  <2>3. ASSUME NEW t \in Threads, Acts(t)
        PROVE  \A u \in Threads : ListedOK(call'[u], commands')
    <3>1. PICK d : call' = [call EXCEPT ![t] = d] /\ Effect(call[t], d, commands)
      BY <2>3 DEF Acts
    <3>2. /\ CallOK(call[t]) /\ CallOK(d) /\ commands' = commands
          /\ Len(commands) \in Nat
      BY <2>3, <3>1 DEF IInv, CallsOK, Acts, SharedOK
    <3>3. ListedOK(d, commands)
      BY <2>0, <3>1, <3>2, EffectListed
    <3> QED BY <2>0, <3>1, <3>2, <3>3 DEF IInv
  <2>4. ASSUME NEW t \in Threads, Interpreter(t), ~EditList(t)
        PROVE  UNCHANGED <<call, commands>>
    BY <2>4 DEF Interpreter, Acquire, Yield, Surface, Mixup, Crash
  <2> QED BY <2>1, <2>2, <2>3, <2>4, NetworkEffect, LockedEffect, CallEffect
       DEF Next, Crash, vars, shared
<1> QED BY <1>1, <1>2, Invariance, PTL DEF Spec

(* Lines 211-212: while the program only appends to its list, the command   *)
(* run for index j is the list's element j.                                 *)
THEOREM SendsTheList == Spec => []SentAsListed
<1>1. ListedInv => SentAsListed
  BY DEF ListedInv, ListedOK, SentAsListed
<1> QED BY <1>1, ListedInvariance, PTL

-----------------------------------------------------------------------------
(* Without faults nothing goes wrong.                                       *)

(* A call that leaves resolve by another way than Resolve fails.            *)
LEMMA FdStep ==
    ASSUME IInv, IInv', FdInv, Next
    PROVE  FdInv'
<1>0. /\ sockets \in Nat /\ initialized \in Nat /\ sockets' \in Nat
      /\ MaxCalls \in Nat /\ MaxFds \in Nat
      /\ initialized <= MaxCalls /\ initialized' \in Nat
      /\ Cardinality(Resolving) \in Nat
      /\ call \in [Threads -> CallRecords]
  BY ExecuteSshAssumption, FS_CardinalityType DEF IInv, SharedOK, FdInv
<1>1. CASE /\ UNCHANGED <<sockets, initialized>>
           /\ \A u \in Threads : /\ call'[u].pc = "resolve" => call[u].pc = "resolve"
                                 /\ call'[u].pc = "connect" =>
                                       call[u].pc = "connect" /\ call'[u].fd = call[u].fd
  <2>1. Resolving' \subseteq Resolving
    BY <1>1 DEF Resolving
  <2>2. /\ IsFiniteSet(Resolving') /\ Cardinality(Resolving') \in Nat
        /\ Cardinality(Resolving') <= Cardinality(Resolving)
    BY <2>1, FS_Subset, FS_CardinalityType DEF FdInv
  <2>3. sockets' + Cardinality(Resolving') <= initialized'
    BY <1>0, <1>1, <2>2 DEF FdInv
  <2> QED BY <1>1, <2>2, <2>3 DEF FdInv
<1>2. ASSUME NEW t \in Threads, Resolve(t), ~Crash
      PROVE  FdInv'
  <2>1. /\ call[t].pc = "resolve"
        /\ call' = [call EXCEPT ![t].pc = "connect", ![t].fd = sockets < MaxFds]
        /\ sockets' = IF sockets < MaxFds THEN sockets + 1 ELSE sockets
        /\ initialized' = initialized
    BY <1>2 DEF Resolve, CrashAt
  <2>2. /\ call'[t].pc = "connect" /\ call'[t].fd = (sockets < MaxFds)
        /\ \A u \in Threads : u # t => call'[u] = call[u]
    BY <1>0, <2>1 DEF CallRecords
  <2>3. t \in Resolving /\ Resolving' = Resolving \ {t}
    BY <2>1, <2>2 DEF Resolving
  <2>4. /\ IsFiniteSet(Resolving')
        /\ Cardinality(Resolving') = Cardinality(Resolving) - 1
    BY <2>3, FS_RemoveElement DEF FdInv
  <2>5. sockets' + Cardinality(Resolving') <= initialized'
    BY <1>0, <2>1, <2>4 DEF FdInv
  <2>6. MaxCalls <= MaxFds => sockets < MaxFds
    <3>1. Cardinality(Resolving) # 0
      BY <2>3, FS_EmptySet DEF FdInv
    <3> QED BY <1>0, <3>1 DEF FdInv
  <2>7. MaxCalls <= MaxFds =>
          \A u \in Threads : call'[u].pc = "connect" => call'[u].fd
    BY <2>2, <2>6 DEF FdInv
  <2> QED BY <2>4, <2>5, <2>7 DEF FdInv
<1>3. ASSUME NEW t \in Threads, Call(t)
      PROVE  FdInv'
  <2>1. PICK d : call' = [call EXCEPT ![t] = d] /\ d.pc \in {"python", "resolve"}
    <3>1. PICK d : call' = [call EXCEPT ![t] = d] /\ Starts(call[t], d)
      <4>1. PICK a \in ArgKinds :
              IF a = "invalid"
              THEN call' = [call EXCEPT ![t] = NewCall("python", "raised", a)]
              ELSE call' = [call EXCEPT ![t] = NewCall("resolve", "pending", a)]
        BY <1>3 DEF Call
      <4>2. a \in {"list", "other", "invalid"} /\ call[t].pc = "python"
        BY <1>3, ExecuteSshAssumption DEF Call, InPython
      <4>3. CASE a = "invalid"
        BY <4>1, <4>2, <4>3 DEF Starts
      <4>4. CASE a # "invalid"
        BY <4>1, <4>2, <4>4 DEF Starts
      <4> QED BY <4>3, <4>4
    <3>2. d.pc \in {"python", "resolve"}
      BY <3>1 DEF Starts, NewCall
    <3> QED BY <3>1, <3>2
  <2>2. /\ sockets' = sockets /\ initialized' = initialized + 1
        /\ call[t].pc = "python"
    BY <1>3 DEF Call, InPython
  <2>3. /\ call'[t] = d
        /\ \A u \in Threads : u # t => call'[u] = call[u]
    BY <1>0, <2>1
  <2>4. Resolving' \subseteq Resolving \cup {t} /\ t \notin Resolving
    BY <2>2, <2>3 DEF Resolving
  <2>5. /\ IsFiniteSet(Resolving \cup {t})
        /\ Cardinality(Resolving \cup {t}) = Cardinality(Resolving) + 1
    BY <2>4, FS_AddElement DEF FdInv
  <2>6. /\ IsFiniteSet(Resolving')
        /\ Cardinality(Resolving') <= Cardinality(Resolving) + 1
        /\ Cardinality(Resolving') \in Nat
    BY <2>4, <2>5, FS_Subset, FS_CardinalityType
  <2>7. sockets' + Cardinality(Resolving') <= initialized'
    BY <1>0, <2>2, <2>6 DEF FdInv
  <2>8. MaxCalls <= MaxFds =>
          \A u \in Threads : call'[u].pc = "connect" => call'[u].fd
    BY <2>1, <2>3 DEF FdInv
  <2> QED BY <2>6, <2>7, <2>8 DEF FdInv
<1>4. CASE Crash
  BY <1>1, <1>4 DEF Crash
<1>5. CASE Idles /\ \E t \in Threads : Interpreter(t)
  <2>1. UNCHANGED <<sockets, initialized>>
    BY <1>5 DEF Interpreter, Acquire, Yield, Surface, EditList, Mixup, Crash
  <2> QED BY <1>1, <1>5, <2>1 DEF Idles
<1>6. ASSUME NEW t \in Threads, Network(t) \/ Locked(t), ~Resolve(t), Acts(t)
      PROVE  FdInv'
  <2>1. UNCHANGED <<sockets, initialized>> /\ call[t].pc # "resolve"
    <3>1. CASE Network(t)
      BY <1>6, <3>1
      DEF Network, Connect, Handshake, Authenticate, OpenChannel, Exec, Read,
          Close, FreeChannel, Step, FailAt, CrashAt, Fail, Crash, shared
    <3>2. CASE Locked(t)
      BY <3>2
      DEF Locked, Count, Begin, Fetch, SetSlot, SetExit, Store, Return, GetItem,
          GetItemPastEnd, Segment, Step, Crash, shared
    <3> QED BY <1>6, <3>1, <3>2
  <2>2. PICK d : call' = [call EXCEPT ![t] = d] /\ Effect(call[t], d, commands)
    BY <1>6 DEF Acts
  <2>3. call[t].pc # "python"
    BY <1>6
    DEF Network, Resolve, Connect, Handshake, Authenticate, OpenChannel, Exec,
        Read, Close, FreeChannel, Step, FailAt, CrashAt,
        Locked, Count, Begin, Fetch, SetSlot, SetExit, Store, Return, GetItem,
        GetItemPastEnd, Segment
  <2>4. d.pc \notin {"resolve", "connect"}
    BY <2>1, <2>2, <2>3
    DEF Effect, Walks, Breaks, Measures, Rejects, Sends, Stores, Returns, Starts,
        LoopTest
  <2>5. /\ call'[t] = d
        /\ \A u \in Threads : u # t => call'[u] = call[u]
    BY <1>0, <2>2
  <2> QED BY <1>1, <2>1, <2>4, <2>5
<1> QED BY <1>2, <1>3, <1>4, <1>5, <1>6, NetworkEffect, LockedEffect,
     InterpreterEffect DEF Next, Network

(* Lines 100-102: the descriptors opened are those of the calls so far.     *)
THEOREM FdInvariance == Spec => []FdInv
<1>1. Init => FdInv
  <2> SUFFICES ASSUME Init PROVE FdInv
    OBVIOUS
  <2>1. \A t \in Threads : call[t].pc = "python"
    BY DEF Init, NewCall
  <2>2. Resolving = {}
    BY <2>1 DEF Resolving
  <2>3. IsFiniteSet(Resolving) /\ Cardinality(Resolving) = 0
    BY <2>2, FS_EmptySet
  <2> QED BY <2>1, <2>3 DEF Init, FdInv
<1>2. IInv /\ IInv' /\ FdInv /\ [Next]_vars => FdInv'
  <2>1. ASSUME FdInv, UNCHANGED vars PROVE FdInv'
    BY <2>1 DEF FdInv, Resolving, vars, shared
  <2> QED BY <2>1, FdStep
<1> QED BY <1>1, <1>2, Invariance, PTL DEF Spec

(* The conditions of WellBehaved.                                           *)
Tame ==
    /\ Faults = {} /\ ListOps \subseteq {"append"} /\ NonString \notin Elements
    /\ MaxCalls <= MaxFds

Quiet ==
    /\ status = "up"
    /\ \A t \in Threads :
          /\ call[t].pc # "rogue"
          /\ exc[t] # NoThread => exc[t] = t /\ call[t].arg # "list"

(* What the loop asks of the list is there.                                 *)
LEMMA InRange ==
    ASSUME IInv, ListedInv, Tame, NEW t \in Threads
    PROVE  /\ call[t].pc \in InLoop => /\ call[t].i < Len(commands)
                                       /\ Item(t) # NonString
           /\ call[t].pc = "exec" => call[t].command \notin {Unset, Garbage}
<1>0. /\ ListedOK(call[t], commands) /\ CallOK(call[t])
      /\ call[t].i \in Nat /\ call[t].count \in Nat
      /\ commands \in Seq(Elements) /\ Len(commands) \in Nat
  BY DEF ListedInv, Tame, IInv, SharedOK, CallsOK, CallOK, CallRecords
<1>1. CASE call[t].pc \in InLoop
  <2>1. call[t].i < Len(commands)
    BY <1>0, <1>1 DEF CallOK, PositionOK, ListedOK
  <2>2. commands[call[t].i + 1] \in Elements
    BY <1>0, <2>1
  <2>3. commands[call[t].i + 1] \in Commands /\ commands[call[t].i + 1] # NonString
    BY <2>2, ExecuteSshAssumption DEF Tame
  <2>4. call[t].pc = "exec" => call[t].command \in Commands
    BY <1>0, <2>3 DEF ListedOK, Element
  <2> QED BY <2>1, <2>3, <2>4, ExecuteSshAssumption DEF Item
<1> QED BY <1>1

(* No step breaks a tame run.                                               *)
LEMMA QuietStep ==
    ASSUME IInv, IInv', ListedInv, FdInv, Tame, Quiet, Next
    PROVE  Quiet'
<1>0. /\ call \in [Threads -> CallRecords] /\ call' \in [Threads -> CallRecords]
      /\ exc \in [Threads -> Threads \cup {NoThread}]
  BY DEF IInv, SharedOK
<1>1. ASSUME NEW t \in Threads, UNCHANGED <<status, exc>>, ~Crash, Acts(t),
             ~Breaks(call[t], call'[t]), call[t].pc # "python"
      PROVE  Quiet'
  <2>1. PICK d : call' = [call EXCEPT ![t] = d] /\ Effect(call[t], d, commands)
    BY <1>1 DEF Acts
  <2>2. call'[t] = d /\ \A u \in Threads : u # t => call'[u] = call[u]
    BY <1>0, <2>1
  <2>3. d.pc # "rogue" /\ d.arg = call[t].arg
    BY <1>0, <1>1, <2>1, <2>2
    DEF Effect, Walks, Breaks, Measures, Rejects, Sends, Stores, Returns, Starts,
        Same, LoopTest, Quiet, Early
  <2> QED BY <1>1, <2>2, <2>3 DEF Quiet
<1>2. ASSUME NEW t \in Threads, Interpreter(t) PROVE Quiet'
  <2>1. ~Mixup(t)
    BY DEF Quiet, Mixup
  <2>2. CASE EditList(t)
    <3>1. UNCHANGED <<status, exc, call>>
      BY <2>2, AppendListed DEF Tame, EditList
    <3> QED BY <3>1 DEF Quiet
  <2>3. CASE ~EditList(t)
    BY <1>0, <1>2, <2>1, <2>3
    DEF Quiet, Interpreter, Acquire, Yield, Surface
  <2> QED BY <2>2, <2>3
<1>3. ASSUME NEW t \in Threads, Call(t) PROVE Quiet'
  <2>1. PICK a \in ArgKinds :
          IF a = "invalid"
          THEN /\ exc' = [exc EXCEPT ![t] = t]
               /\ call' = [call EXCEPT ![t] = NewCall("python", "raised", a)]
          ELSE /\ call' = [call EXCEPT ![t] = NewCall("resolve", "pending", a)]
               /\ UNCHANGED exc
    BY <1>3 DEF Call
  <2>2. exc[t] = NoThread /\ UNCHANGED status
    BY <1>3 DEF Call
  <2>3. CASE a = "invalid"
    <3> DEFINE d == NewCall("python", "raised", a)
    <3>1. d.pc = "python" /\ d.arg = a
      BY DEF NewCall
    <3> HIDE DEF d
    <3>2. call' = [call EXCEPT ![t] = d] /\ exc' = [exc EXCEPT ![t] = t]
      BY <2>1, <2>3 DEF d
    <3> QED BY <1>0, <2>2, <2>3, <3>1, <3>2 DEF Quiet
  <2>4. CASE a # "invalid"
    <3> DEFINE d == NewCall("resolve", "pending", a)
    <3>1. d.pc = "resolve"
      BY DEF NewCall
    <3> HIDE DEF d
    <3>2. call' = [call EXCEPT ![t] = d] /\ exc' = exc
      BY <2>1, <2>4 DEF d
    <3> QED BY <1>0, <2>2, <3>1, <3>2 DEF Quiet
  <2> QED BY <2>3, <2>4
<1>4. ASSUME NEW t \in Threads, Network(t) PROVE Quiet'
  <2>1. /\ call[t].pc = "exec" => call[t].command \notin {Unset, Garbage}
        /\ call[t].pc = "connect" => call[t].fd
    BY InRange DEF FdInv, Tame
  <2>2. /\ UNCHANGED <<status, exc>> /\ call'[t].pc # "rogue"
        /\ call[t].pc # "python"
    <3>0. call[t] \in CallRecords
      BY <1>0
    <3>s. ASSUME NEW p, NEW d, Step(t, p, d), p # "python", d.pc # "rogue"
          PROVE  /\ UNCHANGED <<status, exc>> /\ call'[t].pc # "rogue"
                 /\ call[t].pc # "python"
      BY <1>0, <3>s DEF Step, shared
    <3>1. CASE Resolve(t)
      BY <1>0, <3>1 DEF Resolve, CrashAt, Tame, CallRecords
    <3>2. CASE Connect(t)
      <4> DEFINE d == [call[t] EXCEPT !.pc = "handshake", !.peer = hostent[Slot(t)]]
      <4>1. Step(t, "connect", d) /\ d.pc = "handshake"
        BY <2>1, <3>0, <3>2 DEF Connect, FailAt, Tame, CallRecords
      <4> QED BY <3>s, <4>1
    <3>3. CASE Handshake(t)
      <4> DEFINE d == [call[t] EXCEPT !.pc = "userauth"]
      <4>1. Step(t, "handshake", d) /\ d.pc = "userauth"
        BY <3>0, <3>3 DEF Handshake, FailAt, Tame, CallRecords
      <4> QED BY <3>s, <4>1
    <3>4. CASE Authenticate(t)
      <4> DEFINE d == [call[t] EXCEPT !.pc = "count"]
      <4>1. Step(t, "userauth", d) /\ d.pc = "count"
        BY <3>0, <3>4 DEF Authenticate, FailAt, CrashAt, Tame, CallRecords
      <4> QED BY <3>s, <4>1
    <3>5. CASE OpenChannel(t)
      <4> DEFINE d == [call[t] EXCEPT !.channels = call[t].channels + 1,
                                      !.pc = "fetch"]
      <4>1. Step(t, "open", d) /\ d.pc = "fetch"
        BY <3>0, <3>5 DEF OpenChannel, FailAt, Tame, CallRecords
      <4> QED BY <3>s, <4>1
    <3>6. CASE Exec(t)
      <4>1. PICK d : Step(t, "exec", d) /\ d.pc = "stdout"
        <5> DEFINE v == IF call[t].runs[call[t].i] = 0 THEN 1 ELSE 2
                   r == [call[t].runs EXCEPT ![call[t].i] = v]
                   w == [call[t].sent EXCEPT ![call[t].i] = call[t].command]
                   d == [call[t] EXCEPT !.pc = "stdout", !.runs = r, !.sent = w]
        <5>1. Step(t, "exec", d)
          BY <2>1, <3>6 DEF Exec, FailAt, Tame
        <5>2. d.pc = "stdout"
          BY <3>0 DEF CallRecords
        <5> HIDE DEF d
        <5> QED BY <5>1, <5>2
      <4> QED BY <3>s, <4>1
    <3>7. ASSUME NEW from, NEW to, Read(t, from, to), from # "python", to # "rogue"
          PROVE  /\ UNCHANGED <<status, exc>> /\ call'[t].pc # "rogue"
                 /\ call[t].pc # "python"
      <4> DEFINE d == [call[t] EXCEPT !.pc = to]
      <4>1. Step(t, from, d) /\ d.pc = to
        BY <3>0, <3>7 DEF Read, CrashAt, Tame, CallRecords
      <4> QED BY <3>s, <3>7, <4>1
    <3>8. CASE Close(t)
      <4>1. PICK known \in BOOLEAN :
              Step(t, "close", [call[t] EXCEPT !.exited = known, !.pc = "setexit"])
        BY <3>8 DEF Close
      <4> DEFINE d == [call[t] EXCEPT !.exited = known, !.pc = "setexit"]
      <4>2. d.pc = "setexit"
        BY <3>0 DEF CallRecords
      <4> QED BY <3>s, <4>1, <4>2
    <3>9. CASE FreeChannel(t)
      <4> DEFINE d == [call[t] EXCEPT !.channels = call[t].channels - 1,
                                      !.pc = "store"]
      <4>1. Step(t, "free", d) /\ d.pc = "store"
        BY <3>0, <3>9 DEF FreeChannel, CallRecords
      <4> QED BY <3>s, <4>1
    <3> QED BY <1>4, <3>1, <3>2, <3>3, <3>4, <3>5, <3>6, <3>7, <3>8, <3>9
         DEF Network
  <2>3. ~Crash
    BY <2>2 DEF Crash, Quiet
  <2>4. Acts(t)
    BY <1>4, <2>3, NetworkEffect
  <2> QED BY <1>1, <2>2, <2>3, <2>4 DEF Breaks
<1>5. ASSUME NEW t \in Threads, Locked(t) PROVE Quiet'
  <2>1. call[t].pc \in InLoop => /\ call[t].i < Len(commands)
                                 /\ Item(t) # NonString
    BY InRange
  <2>2. call[t].i \in Nat /\ Len(commands) \in Nat
    BY <1>0 DEF CallRecords, IInv, SharedOK
  <2>3. /\ UNCHANGED status /\ call[t].pc # "python"
        /\ \/ UNCHANGED exc
           \/ exc' = [exc EXCEPT ![t] = t] /\ call[t].arg # "list"
    <3>1. CASE Count(t) \/ SetSlot(t, 0, "setout", "stderr")
                 \/ SetSlot(t, 1, "seterr", "close") \/ SetExit(t) \/ Store(t)
                 \/ Return(t)
      BY <3>1 DEF Count, SetSlot, SetExit, Store, Return, Segment, Step, shared
    <3>2. CASE Begin(t) \/ Fetch(t)
      BY <2>1, <2>2, <3>2 DEF Begin, Fetch, GetItem, GetItemPastEnd, Segment
    <3> QED BY <1>5, <3>1, <3>2 DEF Locked
  <2>4. ~Crash
    BY <2>3 DEF Crash, Quiet
  <2>5. PICK d : call' = [call EXCEPT ![t] = d] /\ Effect(call[t], d, commands)
    BY <1>5, <2>4, LockedEffect DEF Acts
  <2>6. call'[t] = d /\ \A u \in Threads : u # t => call'[u] = call[u]
    BY <1>0, <2>5
  <2>7. ~Breaks(call[t], d)
    <3>1. call[t].pc \in {"count", "begin", "fetch", "setout", "seterr",
                          "setexit", "store", "return"}
      BY <1>5, <2>4
      DEF Locked, Count, Begin, Fetch, SetSlot, SetExit, Store, Return, GetItem,
          GetItemPastEnd, Segment, Step
    <3>2. CASE call[t].pc = "count"
      <4>1. Count(t)
        BY <1>5, <3>2
        DEF Locked, Begin, Fetch, SetSlot, SetExit, Store, Return, GetItem,
            GetItemPastEnd, Segment, Step
      <4>2. d.pc \in {"begin", "return"}
        <5>1. PICK e : /\ Segment(t, "count", e) /\ e.pc \in {"begin", "return"}
          <6> DEFINE p == LoopTest(0, Len(commands))
                     n == Len(commands)
                     e == [call[t] EXCEPT !.count = n, !.pc = p]
                     f == [call[t] EXCEPT !.pc = "return"]
          <6>1. Segment(t, "count", e) \/ Segment(t, "count", f)
            BY <4>1 DEF Count
          <6>2. p \in {"begin", "return"}
            BY DEF LoopTest
          <6> HIDE DEF p, n
          <6>3. e.pc = p /\ f.pc = "return"
            BY <1>0 DEF CallRecords
          <6> HIDE DEF e, f
          <6> QED BY <6>1, <6>2, <6>3
        <5> QED BY <1>0, <2>6, <5>1 DEF Segment
      <4> QED BY <4>2 DEF Breaks
    <3>3. CASE call[t].pc # "count"
      BY <3>1, <3>3 DEF Breaks, Early
    <3> QED BY <3>2, <3>3
  <2>8. d.pc # "rogue" /\ d.arg = call[t].arg
    BY <2>3, <2>5, <2>7
    DEF Effect, Walks, Breaks, Measures, Rejects, Sends, Stores, Returns, Starts,
        Same, LoopTest, Early
  <2> QED BY <1>0, <2>3, <2>6, <2>8 DEF Quiet
<1> QED BY <1>2, <1>3, <1>4, <1>5 DEF Next

(* With a network that never fails, lists of strings that only grow and     *)
(* descriptors for every call, none of the error paths of lines 100-218 is  *)
(* taken: the process lives and the lock is never lost.                     *)
THEOREM TameIsWell == Spec => []WellBehaved
<1>1. Init => (Tame => Quiet)
  <2> SUFFICES ASSUME Init PROVE Quiet
    OBVIOUS
  <2> QED BY DEF Init, Quiet, NewCall
<1>2. IInv /\ IInv' /\ ListedInv /\ FdInv /\ (Tame => Quiet) /\ [Next]_vars
        => (Tame => Quiet)'
  <2>1. ASSUME Quiet, UNCHANGED vars PROVE Quiet'
    BY <2>1 DEF Quiet, vars, shared
  <2>2. Tame' <=> Tame
    BY DEF Tame
  <2> QED BY <2>1, <2>2, QuietStep
<1>3. (Tame => Quiet) => WellBehaved
  BY DEF Tame, Quiet, WellBehaved
<1> QED BY <1>1, <1>2, <1>3, Invariance, ListedInvariance, FdInvariance, PTL
        DEF Spec

=============================================================================
