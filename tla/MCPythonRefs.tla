---------------------------- MODULE MCPythonRefs ----------------------------
(* The references of a few calls on short lists, for TLC.                  *)
EXTENDS PythonRefs
=============================================================================
