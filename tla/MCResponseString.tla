-------------------------- MODULE MCResponseString --------------------------
(* Chunks of up to three bytes, outputs of up to five.                        *)
EXTENDS ResponseString

=============================================================================
