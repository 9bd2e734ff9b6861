--------------------------- MODULE MCKeyExchange ---------------------------
(* Servers with one or two ciphers, and one without any in common.          *)
EXTENDS KeyExchange

ClientKex == <<"gex", "group">>
ClientCrypt == <<"aes", "des">>
AllOffers ==
    [kex : {{"gex", "group"}, {"group"}}, crypt : {{"aes", "des"}, {"des"}, {"rc4"}}]

=============================================================================
