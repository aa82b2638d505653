------------------------------ MODULE MCQueries ------------------------------
(* A small network for Listing.tla: four routers of one domain in a diamond      *)
(* with two ways of equal cost across it, and one router of a second domain.     *)
EXTENDS Listing, TLC

Meta(d, fresh) == [domain |-> d, fresh |-> fresh, sources |-> {"p"}, conflict |-> FALSE]

NodeOf(d, fresh, w) == Meta(d, fresh) @@ [word |-> w, names |-> {w, "r"}, protocol |-> "isis"]

LinkOf(a, b, cost, te, bw) ==
    Meta(1, "active") @@ [from |-> a, to |-> b, igp |-> cost, te |-> te, delay |-> cost, bandwidth |-> bw,
                          mt |-> 0, groups |-> {}, word |-> "l", names |-> {}]

PrefixOf(o, bits) ==
    Meta(1, "active") @@ [origin |-> o, bits |-> bits, covers |-> {"x"}, mt |-> 0, word |-> "p",
                          forward |-> "", names |-> {"x"}]

Nodes0 == <<NodeOf(1, "active", "a"), NodeOf(1, "active", "b"), NodeOf(1, "active", "c"), NodeOf(1, "active", "d"),
            NodeOf(2, "active", "e")>>

Links0 == <<LinkOf(1, 2, 1, 4, 2), LinkOf(2, 1, 1, 0, 1), LinkOf(2, 4, 1, 1, 2), LinkOf(1, 3, 1, 1, 2),
            LinkOf(3, 4, 1, 1, 2), LinkOf(3, 2, 1, 1, 1), LinkOf(4, 3, 1, 1, 1)>>

MCInit0 == [nodes |-> Nodes0, links |-> Links0, prefixes |-> <<PrefixOf(1, 8), PrefixOf(4, 16)>>,
            domains |-> <<1, 2>>, peers |-> <<1, 2>>]

Mutation(kind, id, value, d) == [kind |-> kind, id |-> id, value |-> value, domain |-> d]

MCMutations ==
    {Mutation("nodes", 2, NodeOf(1, "stale", "b"), 1), Mutation("nodes", 4, Absent, 1),
     Mutation("nodes", 6, NodeOf(2, "active", "f"), 2),
     Mutation("links", 8, LinkOf(1, 2, 1, 1, 1), 1),
     Mutation("links", 7, [LinkOf(4, 3, 0, 1, 1) EXCEPT !.mt = 2, !.groups = {1}, !.conflict = TRUE], 1),
     Mutation("peers", 3, 1, 1)}

AnyOf == [domains |-> {}, freshness |-> {}, sources |-> {}, conflictsOnly |-> FALSE, protocols |-> {},
        mts |-> {}, query |-> ""]

MCFilters == {NilFilter,
              [AnyOf EXCEPT !.domains = {1}, !.freshness = {"active", "stale"}, !.query = "r", !.sources = {"p", "q"}],
              [AnyOf EXCEPT !.mts = {2}, !.protocols = {"ospf"}, !.conflictsOnly = TRUE]}

\* All changes, the later ones, and the ones up to a revision.
MCWindows == {<<0, 0>>, <<1, 0>>, <<0, 2>>}

MCWithin == {<<"r", "a">>}

MCConstraints ==
    {NoConstraints, [NoConstraints EXCEPT !.bandwidth = 2], [NoConstraints EXCEPT !.include = <<3>>],
     [NoConstraints EXCEPT !.avoidNodes = {2}, !.exclude = {1}],
     [NoConstraints EXCEPT !.mt = 2, !.require = {1}, !.avoidLinks = {1}]}

MCFailures == {<<{}, {}>>, <<{2}, {}>>, <<{}, {2}>>, <<{}, {3, 5, 7}>>, <<{3}, {1, 2}>>}
=============================================================================
