--------------------------- MODULE MCExecuteSsh ---------------------------
(* Two Python threads that call execute_ssh_instructions.                   *)
EXTENDS ExecuteSsh, TLC

ThreadSymmetry == Permutations(Threads)

=============================================================================
