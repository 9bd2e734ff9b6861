-------------------------- MODULE MCSessionSetup --------------------------
(* Every kind of server.                                                    *)
EXTENDS SessionSetup

AllServers == ServerKinds

=============================================================================
