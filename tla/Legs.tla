-------------------------------- MODULE Legs --------------------------------
(* One leg of a reflector: the filter that feeds it, the classifier, and what      *)
(* on_packet makes of a packet (src/src/reflector/simple.rs, reflector.rs and the   *)
(* classifiers of mdns.rs, ssdp.rs, wsd.rs, wol.rs and udp.rs).                     *)
(*                                                                                *)
(* A destination is a name for a class of addresses, a payload the kind of message  *)
(* a parser makes of it and what a rewrite tells apart: the services and addresses  *)
(* it names, a DIAL location.  Peers, and the addresses of an interface, are sets   *)
(* of IP versions.  An Option is the empty set for None and a singleton for Some.   *)
EXTENDS FiniteSets

NoMac == "no_mac"       \* a frame of a link without MACs
None == {}
Some(x) == {x}

MDNS_PORT == "mdns"
SSDP_PORT == "ssdp"
WSD_PORT == "wsd"

\* The destinations: SSDP and WSD share 239.255.255.250 (c4) and ff02::c (c6).
V4Groups == {"mdns4", "c4", "g4"}
V6Groups == {"mdns6", "c6", "site6"}
V4 == V4Groups \union {"limited", "directed", "own4"}
V6 == V6Groups \union {"own6"}
Version(dest) == IF dest \in V4 THEN "v4" ELSE "v6"

(* ------------------------------- families --------------------------------- *)

AddressFamilies == {"default", "dual", "ipv4", "ipv6"}

uses(family) ==
    CASE family \in {"default", "dual"} -> {"v4", "v6"}
      [] family = "ipv4" -> {"v4"}
      [] family = "ipv6" -> {"v6"}

requires(family) == IF family = "default" THEN {"v4"} ELSE uses(family)

(* -------------------------------- filters --------------------------------- *)

\* Filter::default with the port every filter sets.
FilterOn(ports) ==
    [dst_port |-> ports, dst_ip |-> None, src_port |-> None, src_mac |-> None,
     broadcast |-> FALSE, dst_own |-> {}]

\* An unset field admits every value.
Admits(option, value) == \A set \in option : value \in set

\* Filter::matches, over the ingress's addresses.
matches(filter, p, addrs) ==
    /\ filter.broadcast => p.dest \in {"limited", "directed"}
    /\ \/ Admits(filter.dst_ip, p.dest)
       \/ p.dest \in {"own4", "own6"} /\ Version(p.dest) \in filter.dst_own \intersect addrs
    /\ \A port \in filter.src_port : p.src_port = port
    /\ p.port \in filter.dst_port
    /\ Admits(filter.src_mac, p.src_mac)

(* ------------------------------- classifiers ------------------------------ *)

Kinds(protocol) ==
    CASE protocol = "Mdns" -> {"mdns_query", "mdns_response"}
      [] protocol = "Ssdp" -> {"ssdp_search", "ssdp_advertisement"}
      [] protocol = "Wsd" -> {"wsd_search", "wsd_announcement"}

directional_verdict(protocol, reflect, p) ==
    IF p.kind = reflect THEN "Reflect" ELSE IF p.kind \in Kinds(protocol) THEN "Skip" ELSE "Junk"

\* WakeClassifier::classify; a wake is for one device.
WakeVerdict(macs, family, p) ==
    IF p.kind # "wake" THEN "Junk"
    ELSE IF Admits(macs, p.wakes) /\ Version(p.dest) \in uses(family) THEN "Reflect" ELSE "Excluded"

classify(leg, p) ==
    CASE leg.protocol = "Udp" -> "Reflect"
      [] leg.protocol = "Wol" -> WakeVerdict(leg.macs, leg.family, p)
      [] OTHER -> directional_verdict(leg.protocol, leg.kind, p)

(* ------------------------------- rewriting -------------------------------- *)

\* ServiceGate::judge, an entry's allow-list: every service, some or none of a message is on it.
ServiceGate(p) ==
    CASE p.services = "garbled" -> "Unreadable"
      [] p.services = "other" -> "Refused"
      [] p.services = "both" -> "Replaced"
      [] p.services = "listed" -> "Verbatim"

\* ResponseGate::judge: the allow-list, then the strip of unreachable addresses beside usable ones.
ResponseGate(leg, p) ==
    LET judged == IF leg.services THEN ServiceGate(p) ELSE "Verbatim"
    IN  IF judged \in {"Refused", "Unreadable"} THEN judged
        ELSE IF p.addresses = "both" THEN "Replaced" ELSE judged

\* DialRewrite: a location a proxy is placed for (DialRegistry), which takes an IPv4 address on both
\* sides.
DialRewrite(p, addrs, there) ==
    IF p.dial /\ "v4" \in addrs \intersect there THEN "Replaced" ELSE "Verbatim"

\* The rewrite a leg was built with; searches and relayed datagrams have none.
rewrite(leg, p, addrs, there) ==
    CASE leg.kind = "mdns_response" -> ResponseGate(leg, p)
      [] leg.kind = "mdns_query" /\ leg.services -> ServiceGate(p)
      [] leg.dial -> DialRewrite(p, addrs, there)
      [] OTHER -> "Verbatim"

\* advertises_only_unreachable, of the payload that goes out: no strip leaves only these.
suppress(leg, p) ==
    /\ leg.kind \in {"mdns_response", "ssdp_advertisement", "wsd_announcement"}
    /\ p.addresses = "unreachable"

\* A rewrite that splices in our own listener is not checked.
Checked(leg, rewritten) == rewritten = "Verbatim" \/ ~leg.dial

(* ------------------------------ destinations ------------------------------ *)

\* Delivery::destination: is there anyone to send to?
HasDestination(delivery, dest) == Admits(delivery, Version(dest))

\* link_destination: "Nowhere" is none.
link_destination(leg, dest, addrs) ==
    IF dest \in V4Groups \union V6Groups \union {"limited"} THEN dest
    ELSE CASE leg.unicast = "Nowhere" -> "Nowhere"
           [] leg.unicast = "Broadcast" ->
                IF Version(dest) = "v6" THEN "all_nodes"
                ELSE IF "v4" \in addrs THEN "directed" ELSE "limited"
           [] leg.unicast = "Group" -> IF Version(dest) = "v4" THEN "mdns4" ELSE "mdns6"

egress_sources(addrs, dest) == Version(dest) \in addrs

(* -------------------------------- on_packet ------------------------------- *)

\* SimpleReflector::on_packet, and SearchReflector::on_packet for a search leg, over the addresses of
\* the egress and of the ingress; "sent" says whether the send, or the session it needs, succeeds.
on_packet(leg, p, addrs, there, sent) ==
    LET verdict == classify(leg, p)
        dest == IF leg.search THEN p.dest ELSE link_destination(leg, p.dest, addrs)
        rewritten == rewrite(leg, p, addrs, there)
    IN  IF verdict = "Skip" THEN "Skipped"
        ELSE IF verdict \in {"Excluded", "Junk"} THEN "Filtered"
        ELSE IF ~HasDestination(leg.delivery, p.dest) \/ dest = "Nowhere" THEN "Filtered"
        ELSE IF ~egress_sources(addrs, p.dest) THEN "Stalled"
        ELSE IF leg.search THEN (IF sent THEN "Reflected" ELSE "Dropped")
        ELSE IF rewritten = "Refused" THEN "Refused"
        ELSE IF rewritten = "Unreadable" THEN "Dropped"
        ELSE IF Checked(leg, rewritten) /\ suppress(leg, p) THEN "Dropped"
        ELSE IF sent THEN "Reflected" ELSE "Dropped"

=============================================================================
