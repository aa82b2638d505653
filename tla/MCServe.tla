------------------------------- MODULE MCServe -------------------------------
(* Configurations for Serve.tla: with TLS, with TLS and other roles and an          *)
(* anonymous reader, one whose certificate is missing, one for development, and one *)
(* that is not valid: for development on any address.                               *)
EXTENDS Serve

Good == [parses |-> TRUE, dataDir |-> TRUE, listen |-> "any", ui |-> "ok", metrics |-> "none", insecure |-> FALSE,
         certificate |-> "ok", cas |-> {"ca"}, anonymous |-> FALSE,
         rbac |-> {[role |-> "admin", names |-> {"amy"}], [role |-> "operator", names |-> {"amy", "bob"}]},
         duration |-> 1, maxBytes |-> 10, domains |-> <<"d">>,
         peers |-> <<[id |-> "p", domain |-> "d", address |-> "a", as |-> TRUE]>>]

MCFiles ==
    {Good, [Good EXCEPT !.anonymous = TRUE, !.rbac = {[role |-> "reader", names |-> {"amy"}]}],
     [Good EXCEPT !.certificate = "missing", !.rbac = {}],
     [Good EXCEPT !.insecure = TRUE, !.listen = "loopback", !.metrics = "ok", !.cas = {}, !.certificate = "none"],
     [Good EXCEPT !.insecure = TRUE, !.ui = "none"]}

MCCerts == {[ca |-> "ca", names |-> {"amy"}]}

MCCommands == {<<"peers", "add">>, <<"peers", "reset">>, <<"watch", "">>}
=============================================================================
