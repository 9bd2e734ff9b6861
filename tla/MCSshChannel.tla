--------------------------- MODULE MCSshChannel ---------------------------
(* Small channels: a window of 4, a buffer of 1.                            *)
EXTENDS SshChannel

=============================================================================
