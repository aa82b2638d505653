---------------------------- MODULE MCReconciler ----------------------------
(* Model-checking instance of Reconciler: two peers of one domain that both  *)
(* advertise node A, the first of them also a prefix NLRI of two networks,   *)
(* the second one a link to the node and an NLRI of another type.            *)
EXTENDS Reconciler, TLC

CONSTANTS a, b, x, y, NodeA, NodeB

MCPreference == (1 :> 10) @@ (2 :> 20)

MCDomain == (1 :> "d") @@ (2 :> "d")

MCFields == {"name", "area", "address", "metric"}

Nlri(type, local, remote, networks) ==
    [type |-> type, protocol |-> "isis", identifier |-> 0, local |-> local, remote |-> remote,
     descriptor |-> [v4 |-> NoVal, v6 |-> a], networks |-> networks, topologies |-> {2, 0}]

A == Nlri("node", NodeA, NoDescriptor, <<>>)
BA == Nlri("link", NodeB, NodeA, <<>>)
XY == Nlri("prefix_v4", NodeA, NoDescriptor, <<x, y>>)
Other == Nlri("srv6_sid", NodeA, NoDescriptor, <<>>)

MCNlris == {A, BA, XY, Other}

Attrs(name, area) == [name |-> name, area |-> area, metric |-> NoVal]

Fresh(attrs) == [attrs |-> attrs, stale |-> FALSE]

Says1 == (A :> {[attrs |-> Attrs(a, NoVal), stale |-> TRUE]}) @@ (XY :> {Fresh(NoAttrs)})

Says2 == (A :> {Fresh(Attrs(b, b)), Fresh(Malformed)}) @@ (BA :> {Fresh([name |-> NoVal, area |-> NoVal, metric |-> b])})
         @@ (Other :> {Fresh(NoAttrs)})

MCOffers == [p \in Peers |-> [n \in Nlris |->
                LET s == IF p = 1 THEN Says1 ELSE Says2 IN IF n \in DOMAIN s THEN s[n] ELSE {}]]
=============================================================================
