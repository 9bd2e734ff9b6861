------------------------------ MODULE SshCalls ------------------------------
(***************************************************************************)
(* What execute_ssh_instructions promises a Python program, without the    *)
(* interpreter lock, the network and the loop that keep it: a call runs    *)
(* its commands one after the other, each once, and either answers for all *)
(* of them, in order, or does not answer.  ExecuteSsh implements this.     *)
(***************************************************************************)
EXTENDS Naturals, Sequences

CONSTANTS
    Threads,   \* the callers
    Commands,  \* what a call can make the server run
    MaxLen,    \* bound on the number of commands of a call
    Limit      \* a list this long is never finished

VARIABLES
    alive,   \* the process
    state,   \* state[t]: where t's latest call is
    todo,    \* todo[t]: the number of commands, once it is known
    ran,     \* ran[t]: the commands the server confirmed to run, in order
    answer   \* answer[t]: whose output the entries of the result hold

vars == <<alive, state, todo, ran, answer>>

Open == {"asked", "counted"}

Init ==
    /\ alive = TRUE
    /\ state = [t \in Threads |-> "idle"]
    /\ todo = [t \in Threads |-> 0]
    /\ ran = [t \in Threads |-> <<>>]
    /\ answer = [t \in Threads |-> <<>>]

(* A call starts, or its arguments are refused at once.                     *)
Ask(t) ==
    /\ state[t] \in {"idle", "answered", "refused"}
    /\ \E s \in {"asked", "refused"} : state' = [state EXCEPT ![t] = s]
    /\ todo' = [todo EXCEPT ![t] = 0]
    /\ ran' = [ran EXCEPT ![t] = <<>>]
    /\ answer' = [answer EXCEPT ![t] = <<>>]
    /\ UNCHANGED alive

(* The commands are counted, once.                                          *)
Measure(t) ==
    /\ state[t] = "asked"
    /\ state' = [state EXCEPT ![t] = "counted"]
    /\ \E n \in 0..MaxLen : todo' = [todo EXCEPT ![t] = n]
    /\ UNCHANGED <<alive, ran, answer>>

(* The server runs the next command ...                                     *)
Run(t) ==
    /\ state[t] = "counted" /\ Len(ran[t]) < todo[t]
    /\ Len(ran[t]) < Limit
    /\ \E c \in Commands : ran' = [ran EXCEPT ![t] = Append(@, c)]
    /\ UNCHANGED <<alive, state, todo, answer>>

(* ... or, past the limit, an earlier one again.                            *)
Rerun(t) ==
    /\ state[t] = "counted" /\ Len(ran[t]) = Limit /\ todo[t] >= Limit
    /\ \E k \in DOMAIN ran[t], c \in Commands : ran' = [ran EXCEPT ![t][k] = c]
    /\ UNCHANGED <<alive, state, todo, answer>>

(* Entry k of the result is the output of command k.                        *)
Answer(t) ==
    /\ state[t] = "counted" /\ Len(ran[t]) = todo[t] /\ todo[t] < Limit
    /\ state' = [state EXCEPT ![t] = "answered"]
    /\ answer' = [answer EXCEPT ![t] = ran[t]]
    /\ UNCHANGED <<alive, todo, ran>>

(* An argument that is no list is refused when it is counted.               *)
Refuse(t) ==
    /\ state[t] = "asked"
    /\ state' = [state EXCEPT ![t] = "refused"]
    /\ UNCHANGED <<alive, todo, ran, answer>>

(* The call fails: it never answers, and its thread never calls again.      *)
Abandon(t) ==
    /\ state[t] \in Open
    /\ state' = [state EXCEPT ![t] = "abandoned"]
    /\ UNCHANGED <<alive, todo, ran, answer>>

Die ==
    /\ alive' = FALSE
    /\ UNCHANGED <<state, todo, ran, answer>>

Next ==
    /\ alive
    /\ \/ Die
       \/ \E t \in Threads :
             \/ Ask(t) \/ Measure(t) \/ Run(t) \/ Rerun(t)
             \/ Answer(t) \/ Refuse(t) \/ Abandon(t)

Spec == Init /\ [][Next]_vars

=============================================================================
