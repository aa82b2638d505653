------------------------------- MODULE Decode -------------------------------
(***************************************************************************)
(* What handlePath (internal/bgp/collector.go) makes of a path GoBGP        *)
(* reports: the advertisements of the entities its NLRI describes, or an    *)
(* error.                                                                   *)
(*                                                                         *)
(* A path is the peer it comes from, its NLRI, and what is offered for it:  *)
(* NoAdvert for a withdrawal, or the link-state attribute and whether GoBGP *)
(* keeps the path only as stale.  The text of addresses, areas and TLVs is  *)
(* abstracted to the values themselves.                                     *)
(***************************************************************************)
EXTENDS Merge, Sequences

CONSTANTS
    Domain,        \* Domain[p]: the domain of the peer
    NoAdvert,      \* a withdrawal; nothing advertised
    NoAttrs,       \* a path without a link-state attribute
    Malformed,     \* an attribute whose extraction panics
    NoDescriptor   \* a node descriptor that is missing or of another type

ASSUME FieldsAssumption == Fields = {"name", "area", "address", "metric"}

-----------------------------------------------------------------------------
(* Identity: SHA-256, cut to 16 bytes, is taken to tell its inputs apart.   *)

StableID(parts) == parts

NodeID(domain, nlri, d) == StableID(<<"node", domain, nlri.protocol, nlri.identifier, d>>)

\* The code puts fmt.Sprint of the link descriptor in the id, that is what GoBGP's
\* descriptor prints; the model takes the text to tell all descriptors apart.
LinkID(domain, nlri) ==
    StableID(<<"link", domain, nlri.protocol, nlri.identifier,
               NodeID(domain, nlri, nlri.local), NodeID(domain, nlri, nlri.remote),
               nlri.descriptor>>)

\* Of several multi-topology ids only the lowest one counts.
FirstMT(ids) == IF ids = {} THEN 0 ELSE CHOOSE m \in ids : \A k \in ids : m <= k

PrefixID(domain, nlri, network) ==
    StableID(<<"prefix", domain, nlri.protocol, nlri.identifier,
               NodeID(domain, nlri, nlri.local), network, FirstMT(nlri.topologies)>>)

-----------------------------------------------------------------------------
(* Values.                                                                  *)

\* A field of the attribute; a nil one leaves the zero value.
Attribute(attrs, f) == IF attrs = NoAttrs THEN NoVal ELSE attrs[f]

\* OSPF has the area in the descriptor, IS-IS in the attribute.
AreaID(protocol, d, attrs) ==
    CASE protocol = "ospf" -> d.area
      [] protocol = "isis" -> Attribute(attrs, "area")
      [] OTHER -> NoVal

NodeFrom(nlri, attrs) ==
    [f \in Fields |-> CASE f = "name" -> Attribute(attrs, "name")
                        [] f = "area" -> AreaID(nlri.protocol, nlri.local, attrs)
                        [] OTHER -> NoVal]

FirstNonEmpty(v4, v6) == IF v4 # NoVal THEN v4 ELSE v6

LinkFrom(nlri, attrs) ==
    [f \in Fields |-> CASE f = "metric" -> Attribute(attrs, "metric")
                        [] f = "address" -> FirstNonEmpty(nlri.descriptor.v4, nlri.descriptor.v6)
                        [] OTHER -> NoVal]

\* The decoder never sets the metric or the forwarding address of a prefix.
NoMerged == [f \in Fields |-> NoVal]

DecodedAttributeTLVs(attrs) ==
    IF attrs = NoAttrs THEN {}
    ELSE {<<f, attrs[f]>> : f \in {g \in DOMAIN attrs : attrs[g] # NoVal}}

\* An advertisement of one entity; refs are the ids of the nodes it is attached to.
\* That a withdrawn entity has a value too is left out: Reconciler.Apply ignores it.
Advertisement(path, id, val, refs) ==
    [peer |-> path.peer, nlri |-> path.nlri, id |-> id,
     advert |-> IF path.offer = NoAdvert THEN NoAdvert
                ELSE [val |-> val, tlvs |-> DecodedAttributeTLVs(path.offer.attrs),
                      rest |-> [stale |-> path.offer.stale, refs |-> refs]]]

-----------------------------------------------------------------------------
(* handlePath; a panic is an error too, as safeHandlePath makes it one.     *)

Failed(class) == [error |-> class, adverts |-> <<>>]

Accepted(adverts) == [error |-> "none", adverts |-> adverts]

\* A withdrawal has no attribute.
AttrsOf(path) == IF path.offer = NoAdvert THEN NoAttrs ELSE path.offer.attrs

DecodeNode(path, nlri, domain) ==
    IF nlri.local = NoDescriptor THEN Failed("missing_descriptor")
    ELSE Accepted(<<Advertisement(path, NodeID(domain, nlri, nlri.local),
                                  NodeFrom(nlri, AttrsOf(path)), <<>>)>>)

\* Mutant: the remote end is taken from the local descriptor.
DecodeLinkLocal(path, nlri, domain) ==
    IF NoDescriptor \in {nlri.local, nlri.remote} THEN Failed("missing_descriptor")
    ELSE Accepted(<<Advertisement(path, LinkID(domain, nlri), LinkFrom(nlri, AttrsOf(path)),
                        <<NodeID(domain, nlri, nlri.local), NodeID(domain, nlri, nlri.local)>>)>>)

DecodeLink(path, nlri, domain) ==
    IF NoDescriptor \in {nlri.local, nlri.remote} THEN Failed("missing_descriptor")
    ELSE Accepted(<<Advertisement(path, LinkID(domain, nlri), LinkFrom(nlri, AttrsOf(path)),
                        <<NodeID(domain, nlri, nlri.local), NodeID(domain, nlri, nlri.remote)>>)>>)

\* applyPrefixes makes an entity of every network of the NLRI.
DecodePrefixes(path, nlri, domain) ==
    IF nlri.local = NoDescriptor THEN Failed("missing_descriptor")
    ELSE Accepted([i \in DOMAIN nlri.networks |->
            Advertisement(path, PrefixID(domain, nlri, nlri.networks[i]), NoMerged,
                          <<NodeID(domain, nlri, nlri.local)>>)])

Decode(path) ==
    LET nlri == path.nlri
        domain == Domain[path.peer]
    IN  IF nlri.type = "unexpected" THEN Failed("unexpected_nlri")
        ELSE IF AttrsOf(path) = Malformed THEN Failed("malformed_decoded_path")
        ELSE CASE nlri.type = "node" -> DecodeNode(path, nlri, domain)
               [] nlri.type = "link" -> DecodeLink(path, nlri, domain)
               [] nlri.type \in {"prefix_v4", "prefix_v6"} -> DecodePrefixes(path, nlri, domain)
               [] OTHER -> Failed("unsupported_nlri")
=============================================================================
