----------------------------- MODULE PythonRefs -----------------------------
(***************************************************************************)
(* The references and heap blocks of execute_ssh_instructions              *)
(* (src/wrapper.c, lines 183-297): who owns which Python object while the  *)
(* result is put together, and what the calling program may do with a      *)
(* result meanwhile, in the gaps where the interpreter lock is released.   *)
(*                                                                         *)
(* An object is named by where it is made: <<c>> is py_response of the     *)
(* c-th call, <<c, k>> is py_command_response of its k-th turn of the      *)
(* loop, <<c, k, s>> the string or int made for slot s of that tuple.      *)
(* None is the shared object of line 281.  A string or int that CPython    *)
(* shares (an empty string, a small int) comes with a reference of its     *)
(* own, so each one handed out counts here as an object.                   *)
(***************************************************************************)
EXTENDS Integers, FiniteSets, Functions, FiniteSetsExt

CONSTANTS MaxCalls,       \* bound: calls made by the program
          MaxRuns,        \* bound: turns of the loop in one call
          MaxLen,         \* bound: commands in a list
          MaxHeld,        \* bound: references the program takes for itself
          IndexModulus,   \* values of the loop index, an unsigned char (256)
          NoneRefs,       \* references to None held elsewhere in the process
          None,           \* Py_None
          Null            \* an empty slot of a tuple

ASSUME RefsAssumption ==
  /\ {MaxCalls, MaxRuns, MaxLen, MaxHeld} \subseteq Nat
  /\ {IndexModulus, NoneRefs} \subseteq Nat \ {0}

VARIABLES up,       \* FALSE once CPython gave up: "deallocating None"
          refs,     \* ob_refcnt of every object, 0 when it does not exist
          content,  \* the slots of every tuple
          local,    \* objects of which a C variable owns a reference
          lost,     \* the same after an error return dropped the variables
          held,     \* references owned by the program
          stored,   \* history: times None was put in a slot
          blocks,   \* heap blocks of the call that are not freed
          pc, call, count, turn

vars == <<up, refs, content, local, lost, held, stored, blocks,
          pc, call, count, turn>>

Calls   == 1 .. MaxCalls
Turns   == 0 .. MaxRuns - 1
Tuples  == {<<c>> : c \in Calls} \cup (Calls \X Turns)
Objects == Tuples \cup (Calls \X Turns \X (0 .. 3)) \cup {None}
Blocks  == {"stdout", "stderr", "signal"} \X Calls \X Turns

\* None and an empty slot are not objects that a call makes.
ASSUME NamesAssumption ==
  /\ None \notin Tuples \cup (Calls \X Turns \X (0 .. 3))
  /\ Null \notin Objects

py_response         == <<call>>
py_command_response == <<call, turn>>

\* The index of the loop: turn counts its turns, i is what the C type keeps.
i == turn % IndexModulus

-----------------------------------------------------------------------------
(* CPython 2.7: tuples and reference counts.                               *)

\* The tuples that are freed when object o loses a reference: o itself, and
\* the entries only o refers to.
Doomed(r, o) ==
  IF o \notin Tuples \/ r[o] > 1 THEN {}
  ELSE {o} \cup {e \in Range(content[o]) \cap Tuples : r[e] = 1}

\* The slots of the tuples in D that hold o.
SlotsWith(D, o) ==
  {s \in D \X (0 .. MaxLen + 3) : s[2] \in DOMAIN content[s[1]] /\ content[s[1]][s[2]] = o}

\* The counts after o lost a reference and with it every tuple that is freed.
Decref(r, o) ==
  [x \in Objects |-> r[x] - (IF x = o THEN 1 ELSE 0)
                          - Cardinality(SlotsWith(Doomed(r, o), x))]

\* The counts after a new object was made.
New(o) == [refs EXCEPT ![o] = 1]

Empty(n) == [s \in 0 .. n - 1 |-> Null]

PyTuple_New(t, n) ==
  /\ refs' = New(t)
  /\ content' = [content EXCEPT ![t] = Empty(n)]

\* A freed tuple has no slots.
Freed(D) == [t \in Tuples |-> IF t \in D THEN <<>> ELSE content[t]]

\* none_dealloc is a fatal error.
Survives == up' = (refs'[None] > 0)

\* PyTuple_SetItem takes over the caller's reference to o, also when it
\* fails, and gives up the slot's earlier item.  It fails for a tuple that
\* somebody else can see and for an index that is out of range.
PyTuple_SetItem(r, t, s, o) ==
  LET fits == r[t] = 1 /\ s \in DOMAIN content[t]
      gone == IF fits THEN content[t][s] ELSE o
      D    == Doomed(r, gone)
  IN  /\ refs' = Decref(r, gone)
      /\ content' = IF fits THEN [Freed(D) EXCEPT ![t][s] = o] ELSE Freed(D)
      /\ Survives

-----------------------------------------------------------------------------
Init ==
  /\ up = TRUE
  /\ refs = [o \in Objects |-> IF o = None THEN NoneRefs ELSE 0]
  /\ content = [t \in Tuples |-> <<>>]
  /\ local = {} /\ lost = {} /\ blocks = {} /\ stored = 0
  /\ held = [o \in Objects |-> 0]
  /\ pc = "idle" /\ call = 0 /\ count = 0 /\ turn = 0

At(here, there) == up /\ pc = here /\ pc' = there

\* Lines 183-187: the list is measured and the result made.  What is not a
\* list measures -1, and PyTuple_New then returns no tuple.
Call ==
  /\ At("idle", "loop")
  /\ call < MaxCalls
  /\ call' = call + 1 /\ turn' = 0
  /\ count' \in -1 .. MaxLen
  /\ IF count' < 0
       THEN UNCHANGED <<refs, content, local>>
       ELSE PyTuple_New(<<call'>>, count') /\ local' = {<<call'>>}
  /\ UNCHANGED <<up, lost, held, stored, blocks>>

\* Mutant: the loop stops before the last command.
LoopTest_Short == i + 1 < count

\* Line 189.
LoopTest == i < count

\* Lines 191-195.
Begin ==
  /\ At("loop", "exec")
  /\ LoopTest
  /\ turn < MaxRuns
  /\ PyTuple_New(py_command_response, 4)
  /\ local' = local \cup {py_command_response}
  /\ UNCHANGED <<up, lost, held, stored, blocks, call, count, turn>>

\* Lines 197-227: the command runs, and the block for its output is made.
Exec ==
  /\ At("exec", "out")
  /\ blocks' = blocks \cup {<<"stdout", call, turn>>}
  /\ UNCHANGED <<up, refs, content, local, lost, held, stored, call, count, turn>>

\* Lines 199-203 and 213-218: the call returns NULL and forgets both tuples.
Fail ==
  /\ At("exec", "idle")
  /\ lost' = lost \cup local
  /\ local' = {}
  /\ UNCHANGED <<up, refs, content, held, stored, blocks, call, count, turn>>

\* Mutant: a reference is added before PyTuple_SetItem takes one over.
SetNew_Incref(s) ==
  LET o == <<call, turn, s>>
  IN  PyTuple_SetItem([refs EXCEPT ![o] = 2], py_command_response, s, o)

\* PyString_FromString or PyInt_FromLong for a slot of the entry.
SetNew(s) ==
  LET o == <<call, turn, s>>
  IN  PyTuple_SetItem(New(o), py_command_response, s, o)

\* Lines 237-247.
SetOut ==
  /\ At("out", "err")
  /\ SetNew(0)
  /\ blocks' = (blocks \ {<<"stdout", call, turn>>}) \cup {<<"stderr", call, turn>>}
  /\ UNCHANGED <<local, lost, held, stored, call, count, turn>>

\* Lines 256-261.
SetErr ==
  /\ At("err", "close")
  /\ SetNew(1)
  /\ blocks' = blocks \ {<<"stderr", call, turn>>}
  /\ UNCHANGED <<local, lost, held, stored, call, count, turn>>

\* Lines 263-270 and libssh2_channel_get_exit_signal: the name of a signal is
\* copied to a block of the caller's.  Without a signal, or when the close
\* failed, exit_signal stays NULL.
Close ==
  /\ At("close", "code")
  /\ blocks' \in {blocks, blocks \cup {<<"signal", call, turn>>}}
  /\ UNCHANGED <<up, refs, content, local, lost, held, stored, call, count, turn>>

\* Lines 272-275.
SetCode ==
  /\ At("code", "signal")
  /\ SetNew(2)
  /\ UNCHANGED <<local, lost, held, stored, blocks, call, count, turn>>

\* Mutant: the reference given to PyTuple_SetItem is released as well.
SetSignal_Decref ==
  /\ At("signal", "store")
  /\ IF <<"signal", call, turn>> \in blocks
       THEN SetNew(3) /\ UNCHANGED stored
       ELSE /\ PyTuple_SetItem(Decref(refs, None), py_command_response, 3, None)
            /\ stored' = stored + 1
  /\ UNCHANGED <<local, lost, held, blocks, call, count, turn>>

\* Lines 277-282: None is put in the slot as it is, without Py_INCREF.
SetSignal ==
  /\ At("signal", "store")
  /\ IF <<"signal", call, turn>> \in blocks
       THEN SetNew(3) /\ UNCHANGED stored
       ELSE /\ PyTuple_SetItem(refs, py_command_response, 3, None)
            /\ stored' = stored + 1
  /\ UNCHANGED <<local, lost, held, blocks, call, count, turn>>

\* Lines 286-291 and the increment of line 189.
Store ==
  /\ At("store", "loop")
  /\ PyTuple_SetItem(refs, py_response, i, py_command_response)
  /\ local' = local \ {py_command_response}
  /\ turn' = turn + 1
  /\ UNCHANGED <<lost, held, stored, blocks, call, count>>

\* Lines 296-297: the caller becomes the owner of the result, if there is one.
Return ==
  /\ At("loop", "idle")
  /\ ~LoopTest
  /\ held' = [o \in Objects |-> held[o] + IF o \in local THEN 1 ELSE 0]
  /\ local' = {}
  /\ UNCHANGED <<up, refs, content, lost, stored, blocks, call, count, turn>>

\* What the program can get at through the references it owns.
Reachable ==
  LET Direct == {o \in Objects : held[o] > 0}
      Inside(S) == UNION {Range(content[t]) : t \in S \cap Tuples}
  IN  Direct \cup Inside(Direct) \cup Inside(Inside(Direct))

\* The program takes a reference to a part of a result, an entry or an item.
Keep ==
  /\ up
  /\ MapThenSumSet(LAMBDA o : held[o], Objects) < MaxHeld
  /\ \E o \in Reachable \ {Null} :
       /\ refs' = [refs EXCEPT ![o] = @ + 1]
       /\ held' = [held EXCEPT ![o] = @ + 1]
  /\ UNCHANGED <<up, content, local, lost, stored, blocks, pc, call, count, turn>>

\* The program gives a reference back.
Drop ==
  /\ up
  /\ \E o \in Objects :
       /\ held[o] > 0
       /\ held' = [held EXCEPT ![o] = @ - 1]
       /\ refs' = Decref(refs, o)
       /\ content' = Freed(Doomed(refs, o))
  /\ Survives
  /\ UNCHANGED <<local, lost, stored, blocks, pc, call, count, turn>>

Next == \/ Call \/ Begin \/ Exec \/ Fail \/ SetOut \/ SetErr \/ Close
        \/ SetCode \/ SetSignal \/ Store \/ Return \/ Keep \/ Drop

Spec == Init /\ [][Next]_vars


-----------------------------------------------------------------------------
(* Properties.                                                             *)

\* The counts, the slots, the owners and the C variables have their types
\* (lines 183-297); a result has a slot for each command and an entry four.
TypeOK ==
  /\ up \in BOOLEAN
  /\ refs \in [Objects -> Int]
  /\ DOMAIN content = Tuples
  /\ \A t \in Tuples : /\ Range(content[t]) \subseteq Objects \cup {Null}
                       /\ DOMAIN content[t] \in IF t \in Calls \X Turns THEN {{}, 0 .. 3}
                                              ELSE {0 .. n - 1 : n \in 0 .. MaxLen}
  /\ local \subseteq Tuples /\ lost \subseteq Tuples
  /\ held \in [Objects -> Nat]
  /\ stored \in Nat
  /\ blocks \subseteq Blocks
  /\ pc \in {"idle", "loop", "exec", "out", "err", "close", "code", "signal", "store"}
  /\ call \in 0 .. MaxCalls /\ count \in -1 .. MaxLen /\ turn \in 0 .. MaxRuns

Owners(o) == held[o] + Cardinality(SlotsWith(Tuples, o))
             + (IF o \in local THEN 1 ELSE 0) + (IF o \in lost THEN 1 ELSE 0)

\* Every object but None has exactly as many references as it has owners: the
\* program, the slots of living tuples, the variables of the running call and
\* the variables that the error returns of lines 202 and 217 forgot.  So
\* nothing is freed while it can be reached, and what is never freed was
\* forgotten by a call that failed.
CountsMatchOwners ==
  up => \A o \in Objects \ {None} : refs[o] = Owners(o)

\* Line 281: every None in a slot was put there without a reference of its
\* own, so each result that is freed takes away one reference per command
\* without a signal.  The process survives as long as fewer were put in slots
\* than there are elsewhere.
NoneShortage ==
  /\ up => refs[None] = NoneRefs + Owners(None) - stored
  /\ ~up => stored >= NoneRefs

\* What the program can reach is whole: every tuple has its slots, all filled,
\* and every object is alive, while calls run, fail and replace entries (lines
\* 242, 258, 275, 282 and 290).
HeldIsWhole ==
  up => \A o \in Reachable : /\ o # Null
                             /\ refs[o] > 0
                             /\ o \in Calls \X Turns => DOMAIN content[o] = 0 .. 3
=============================================================================
