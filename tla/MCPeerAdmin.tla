----------------------------- MODULE MCPeerAdmin -----------------------------
(* Two peers; two addresses, one of which can be written in two ways; two   *)
(* requests at once.                                                        *)
EXTENDS PeerAdmin, TLC

Cfg(a, s) == [addr |-> a, domain |-> "d1", secret |-> s]

\* "A" is another text for the address "a", as 2001:DB8::1 is for 2001:db8::1.
MCCanon == [t \in {"a", "A", "b"} |-> IF t = "A" THEN "a" ELSE t]

MCConfigs == {Cfg("a", "s"), Cfg("A", ""), Cfg("b", "")}

MCYaml == <<[kind |-> "domain", id |-> "d1"],
            [kind |-> "peer", id |-> "p", config |-> Cfg("a", "s")]>>

MCImports ==
    {[peers |-> <<[id |-> "p", config |-> Cfg("b", "")], [id |-> "q", config |-> Cfg("a", "")]>>,
      replace |-> FALSE],
     [peers |-> <<[id |-> "p", config |-> Cfg("b", "")]>>, replace |-> TRUE]}

Symmetry == Permutations(Requests)
=============================================================================
