------------------------------- MODULE Entries -------------------------------
(* From configuration entries to the legs that reflect packets: the environment's   *)
(* variables (src/src/config/env.rs), the rules for one entry and for two            *)
(* (config.rs, config/conflict.rs), the fallback of a host without IPv6, the build   *)
(* of every leg (lib.rs, reflector.rs, reflector/*.rs), and the switch to the        *)
(* account that runs them (Privileges).                                            *)
(*                                                                                *)
(* One entry comes from the environment, its variables in any order, and one from    *)
(* the file.  Every error ends the program, so the errors are not told apart beyond  *)
(* the step that reports them.                                                     *)
EXTENDS Legs, Privileges, Sequences

CONSTANTS
    EnvEntries,     \* entries the environment may spell out
    FileEntries,    \* entries the file may hold
    Respelled,      \* parameters the environment may hold twice, in two cases
    UserSettings(_, _), \* "user" settings beside an entry and the file's entries
    Hosts,          \* what the host has when the daemon starts
    Packets         \* what may arrive on either interface

VARIABLES
    wanted,     \* the entry the environment spells out
    env,        \* its variables: a parameter and the case it is written in
    unread,     \* variables not yet read
    slots,      \* the PartialReflector: variables stored
    stage,      \* how far startup is
    reflectors, \* Config::reflectors
    host,
    user,       \* Config::user
    legs        \* what the dispatcher has registered

startupVars == <<wanted, env, unread, slots, stage, reflectors, host, user, legs, privilegeVars>>

(* ------------------------------- environment ------------------------------ *)

Default ==
    [source_if |-> "none", target_if |-> "none", source_peers |-> None, target_peers |-> None,
     macs |-> None, address_family |-> "default", wol |-> FALSE, wol_ports |-> None,
     mdns |-> FALSE, mdns_services |-> FALSE, ssdp |-> FALSE, dial |-> FALSE, wsd |-> FALSE,
     bidirectional |-> FALSE, udp_ports |-> None, udp_groups |-> None, udp_broadcast |-> FALSE]

Params == DOMAIN Default

ASSUME EntriesAssumption ==
    \A entry \in EnvEntries \union FileEntries :
        /\ entry = [param \in Params |-> entry[param]]
        /\ UNION entry.udp_groups \subseteq V4Groups \union V6Groups

\* The variables that spell an entry out, one per parameter that is set.
Spelled(entry) == {param \in Params : entry[param] # Default[param]} \X {"upper"}

\* Fault: the last variable read wins.
PutLast(variable) ==
    /\ slots' = {stored \in slots : stored[1] # variable[1]} \union {variable}
    /\ UNCHANGED stage

\* PartialReflector::set: a slot is written once, whatever the case of the variable.
put(variable) ==
    IF variable[1] \notin Params \/ \E stored \in slots : stored[1] = variable[1]
    THEN stage' = "env refused" /\ UNCHANGED slots
    ELSE slots' = slots \union {variable} /\ UNCHANGED stage

ReadVariable(variable) ==
    /\ stage = "env"
    /\ variable \in unread
    /\ unread' = unread \ {variable}
    /\ put(variable)
    /\ UNCHANGED <<wanted, env, reflectors, host, user, legs, privilegeVars>>

\* The value a second spelling of a parameter carries.
Other ==
    [Default EXCEPT !.source_if = "b", !.target_if = "a", !.address_family = "ipv6", !.mdns = FALSE,
                    !.bidirectional = FALSE]

\* PartialReflector::into_raw, when both interfaces are named.
into_raw ==
    [param \in Params |->
        IF <<param, "upper">> \in slots THEN wanted[param]
        ELSE IF <<param, "lower">> \in slots THEN Other[param]
        ELSE Default[param]]

Named(param) == \E stored \in slots : stored[1] = param

(* ------------------------------ one entry --------------------------------- *)

Peers(raw) == UNION (raw.source_peers \union raw.target_peers)
IsRelay(raw) == raw.udp_ports # None \/ raw.udp_groups # None \/ raw.udp_broadcast
Discovers(raw) == raw.wol \/ raw.mdns \/ raw.ssdp \/ raw.wsd

\* peer_of_unused_family and the errors of Reflector::try_from, but for the last.
BadEntry(raw) ==
    LET used == uses(raw.address_family) IN
    \/ ~(Peers(raw) \subseteq used)
    \/ raw.source_if = raw.target_if
    \/ IsRelay(raw) /\ raw.udp_ports = None
    \/ IsRelay(raw) /\ raw.udp_groups = None /\ ~raw.udp_broadcast
    \/ raw.udp_broadcast /\ "v4" \notin used
    \/ \E group \in UNION raw.udp_groups : Version(group) \notin used
    \/ ~Discovers(raw) /\ ~IsRelay(raw)
    \/ raw.wol_ports # None /\ ~raw.wol
    \/ raw.mdns_services /\ ~raw.mdns
    \/ raw.macs # None /\ ~Discovers(raw)
    \/ raw.dial /\ ~raw.ssdp
    \/ raw.dial /\ "v4" \notin used

\* The entry once its Wake-on-LAN ports have their default.
Reflector(raw) ==
    IF raw.wol /\ raw.wol_ports = None THEN [raw EXCEPT !.wol_ports = Some({"wake"})] ELSE raw

\* Reflector::reversed
reversed(r) ==
    [r EXCEPT !.source_if = r.target_if, !.target_if = r.source_if,
              !.source_peers = r.target_peers, !.target_peers = r.source_peers]

(* --------------------------------- flows ---------------------------------- *)

GroupsOf(protocol) ==
    CASE protocol = "Mdns" -> {"mdns4", "mdns6"}
      [] protocol = "Ssdp" -> {"c4", "c6", "site6"}
      [] protocol = "Wsd" -> {"c4", "c6"}

PortOf(protocol) ==
    CASE protocol = "Mdns" -> MDNS_PORT [] protocol = "Ssdp" -> SSDP_PORT [] protocol = "Wsd" -> WSD_PORT

\* group_addrs: the groups of the families the entry uses.
group_addrs(protocol, family) == {g \in GroupsOf(protocol) : Version(g) \in uses(family)}

Discoveries(r) ==
    (IF r.mdns THEN {"Mdns"} ELSE {}) \union (IF r.ssdp THEN {"Ssdp"} ELSE {})
        \union (IF r.wsd THEN {"Wsd"} ELSE {})

directions(r) ==
    {<<r.source_if, r.target_if>>}
        \union (IF r.bidirectional THEN {<<r.target_if, r.source_if>>} ELSE {})

\* Reach, as the destinations it stands for.
AnyUsed(family) == {dest \in V4 \union V6 : Version(dest) \in uses(family)}
BroadcastReach == {"limited", "directed"}

\* UdpRelay::destinations
destinations(r) ==
    (UNION r.udp_ports)
        \X ({{group} : group \in UNION r.udp_groups} \union (IF r.udp_broadcast THEN {BroadcastReach} ELSE {}))

FlowsOf(protocol, ways, targets) ==
    {[protocol |-> protocol, way |-> way, port |-> t[1], reach |-> t[2]] : way \in ways, t \in targets}

\* Reflector::flows
flows(r) ==
    (UNION {FlowsOf(d, {<<r.source_if, r.target_if>>, <<r.target_if, r.source_if>>},
                    {PortOf(d)} \X {{g} : g \in group_addrs(d, r.address_family)}) : d \in Discoveries(r)})
    \union FlowsOf("Wol", directions(r), (UNION r.wol_ports) \X {AnyUsed(r.address_family)})
    \union FlowsOf("Udp", directions(r), destinations(r))

Overlaps(mine, other) ==
    mine.way = other.way /\ mine.port = other.port /\ mine.reach \intersect other.reach # {}

relay_overlap(r, others) ==
    \E mine \in flows(r), other \in others : mine.protocol = "Udp" /\ Overlaps(mine, other)

relay_duplicates(r) == relay_overlap(r, {f \in flows(r) : f.protocol # "Udp"})

\* Reflector::try_from
Refused(raw) == BadEntry(raw) \/ relay_duplicates(Reflector(raw))

(* -------------------------------- conflicts ------------------------------- *)

\* Fault: an entry for any device is taken to share none with an entry for some.
MacsShared(a, b) == \E mine \in a, theirs \in b : mine \intersect theirs # {}

macs_overlap(a, b) == \A mine \in a, theirs \in b : mine \intersect theirs # {}

families_overlap(a, b) == uses(a) \intersect uses(b) # {}

shared_protocol(r, other) ==
    /\ directions(r) \intersect directions(other) # {}
    /\ macs_overlap(r.macs, other.macs)
    /\ families_overlap(r.address_family, other.address_family)
    /\ \/ \E mine \in r.wol_ports, theirs \in other.wol_ports : mine \intersect theirs # {}
       \/ Discoveries(r) \intersect Discoveries(other) # {}

conflicts_with(r, other) ==
    \/ shared_protocol(r, other)
    \/ relay_overlap(r, flows(other))
    \/ relay_overlap(other, flows(r))

(* ---------------------------------- load ---------------------------------- *)

Stop(where) ==
    /\ stage' = where
    /\ UNCHANGED <<wanted, env, unread, slots, reflectors, host, user, legs, privilegeVars>>

\* The end of parse_env, merge_env with the file's entries, and Config::try_from; a tag that is also
\* a key of the file collides, and the environment's user goes before the file's.
LoadConfig(fromFile, sameKey, envUser, fileUser) ==
    LET raws == <<into_raw>> \o fromFile
        parsed == [i \in DOMAIN raws |-> Reflector(raws[i])]
    IN  /\ stage = "env" /\ unread = {}
        /\ IF ~Named("source_if") \/ ~Named("target_if") THEN Stop("env refused")
           ELSE IF sameKey THEN Stop("duplicate")
           ELSE IF \E i \in DOMAIN raws : Refused(raws[i]) THEN Stop("entry refused")
           ELSE /\ reflectors' = parsed
                /\ stage' = IF \E i, j \in DOMAIN parsed : i < j /\ conflicts_with(parsed[i], parsed[j])
                            THEN "conflict" ELSE "loaded"
                /\ user' = IF envUser # None THEN envUser ELSE fileUser
                /\ UNCHANGED <<wanted, env, unread, slots, host, legs, privilegeVars>>

(* ---------------------------------- fit ----------------------------------- *)

ipv4_part(option) == {set \intersect (V4 \union {"v4"}) : set \in option}

\* Fault: the IPv6 groups and peers stay.
FallBackFamily(r) == IF r.address_family = "default" THEN [r EXCEPT !.address_family = "ipv4"] ELSE r

\* fall_back_to_ipv4, of one entry; "None" of ipv4_part is an empty list, which becomes no list.
FallBack(r) ==
    IF r.address_family # "default" THEN r
    ELSE [r EXCEPT !.address_family = "ipv4",
                   !.udp_groups = ipv4_part(r.udp_groups) \ {{}},
                   !.source_peers = ipv4_part(r.source_peers),
                   !.target_peers = ipv4_part(r.target_peers)]

\* Ipv6OnlyRelay and Ipv6OnlyPeers.
NothingLeft(r) ==
    /\ r.address_family = "default"
    /\ \/ {} \in ipv4_part(r.udp_groups) /\ ~r.udp_broadcast
       \/ {} \in ipv4_part(r.source_peers) \union ipv4_part(r.target_peers)

fit_to_host(onHost) ==
    /\ stage = "loaded"
    /\ host' = onHost
    /\ IF onHost.ipv6 THEN stage' = "fitted" /\ UNCHANGED reflectors
       ELSE IF \E i \in DOMAIN reflectors : NothingLeft(reflectors[i])
            THEN stage' = "unfit" /\ UNCHANGED reflectors
       ELSE /\ stage' = "fitted"
            /\ reflectors' = [i \in DOMAIN reflectors |-> FallBack(reflectors[i])]
    /\ UNCHANGED <<wanted, env, unread, slots, user, legs, privilegeVars>>

\* The account, "resolved before any capture opens"; it may not be found, or be root's.
ResolveUser(readable) ==
    /\ stage = "fitted"
    /\ credentials' = UNION {resolve(run_as) : run_as \in {r \in user : readable \/ ~LooksUp(r)}}
    /\ stage' = IF user # None /\ credentials' = {} THEN "no account" ELSE "resolved"
    /\ UNCHANGED <<wanted, env, unread, slots, reflectors, host, user, legs, process, drop>>

(* --------------------------------- build ---------------------------------- *)

Leg(protocol, kind, way, filter, peers, r) ==
    [protocol |-> protocol, kind |-> kind, ingress |-> way[1], egress |-> way[2], filter |-> filter,
     delivery |-> peers, macs |-> r.macs, family |-> r.address_family, unicast |-> "Nowhere",
     services |-> FALSE, dial |-> FALSE, search |-> FALSE, of |-> r]

Forth(r) == <<r.source_if, r.target_if>>
Back(r) == <<r.target_if, r.source_if>>

\* mdns::build: queries to the target, responses back, also those sent to this host.
MdnsLegs(r) ==
    LET to == [FilterOn({MDNS_PORT}) EXCEPT !.dst_ip = Some(group_addrs("Mdns", r.address_family))]
        answers == [to EXCEPT !.src_port = Some(MDNS_PORT), !.src_mac = r.macs,
                              !.dst_own = uses(r.address_family)]
    IN  {[Leg("Mdns", "mdns_query", Forth(r), to, r.target_peers, r)
            EXCEPT !.services = r.mdns_services],
         [Leg("Mdns", "mdns_response", Back(r), answers, r.source_peers, r)
            EXCEPT !.services = r.mdns_services, !.unicast = "Group"]}

\* build_pair: announcements to the source, searches to the target.
SearchLegs(protocol, announcement, search, r) ==
    LET to == [FilterOn({PortOf(protocol)})
                 EXCEPT !.dst_ip = Some(group_addrs(protocol, r.address_family))]
    IN  {[Leg(protocol, announcement, Back(r), [to EXCEPT !.src_mac = r.macs], r.source_peers, r)
            EXCEPT !.dial = protocol = "Ssdp" /\ r.dial],
         [Leg(protocol, search, Forth(r), to, r.target_peers, r) EXCEPT !.search = TRUE]}

\* wol::build
WolLegs(r) ==
    {[Leg("Wol", "wake", Forth(r), FilterOn(ports), r.target_peers, r) EXCEPT !.unicast = "Broadcast"] :
        ports \in r.wol_ports}

\* udp::build: one filter for the groups, one for the broadcasts.
UdpLegs(r) ==
    LET on == FilterOn(UNION r.udp_ports)
        filters == {[on EXCEPT !.dst_ip = Some(groups)] : groups \in r.udp_groups}
                     \union (IF r.udp_broadcast THEN {[on EXCEPT !.broadcast = TRUE]} ELSE {})
    IN  {[Leg("Udp", "datagram", Forth(r), filter, r.target_peers, r) EXCEPT !.unicast = "Broadcast"] :
            filter \in filters}

\* build_reflector
OneWay(r) ==
    WolLegs(r) \union UdpLegs(r)
      \union (IF r.mdns THEN MdnsLegs(r) ELSE {})
      \union (IF r.ssdp THEN SearchLegs("Ssdp", "ssdp_advertisement", "ssdp_search", r) ELSE {})
      \union (IF r.wsd THEN SearchLegs("Wsd", "wsd_announcement", "wsd_search", r) ELSE {})

LegsOf(r) == OneWay(r) \union (IF r.bidirectional THEN OneWay(reversed(r)) ELSE {})

\* Fault: the source of a discovery protocol is not looked at.
BuildFailsTarget(r, onHost) == ~(requires(r.address_family) \subseteq onHost.addrs[r.target_if])

\* require_egress_family, require_both_sides_family and require_macs_matchable.
BuildFails(r, onHost) ==
    LET lacks(interface) == ~(requires(r.address_family) \subseteq onHost.addrs[interface]) IN
    \/ lacks(r.target_if)
    \/ Discoveries(r) # {} /\ (lacks(r.source_if) \/ (r.macs # None /\ ~onHost.ethernet[r.target_if]))

\* The loop of reflect over the entries.  A join that fails ends it too.
Build(joined) ==
    /\ stage = "resolved"
    /\ IF \/ ~joined
          \/ \E i \in DOMAIN reflectors :
                \/ BuildFails(reflectors[i], host)
                \/ reflectors[i].bidirectional /\ BuildFails(reversed(reflectors[i]), host)
       THEN stage' = "not built" /\ UNCHANGED legs
       ELSE stage' = "built" /\ legs' = UNION {LegsOf(reflectors[i]) : i \in DOMAIN reflectors}
    /\ UNCHANGED <<wanted, env, unread, slots, reflectors, host, user, privilegeVars>>

Dials == \E i \in DOMAIN reflectors : reflectors[i].dial

\* drop_privileges, and the loop that runs after it.
DropPrivileges ==
    /\ stage = "built" /\ credentials # {}
    /\ drop_to(Dials)
    /\ UNCHANGED <<wanted, env, unread, slots, stage, reflectors, host, user, legs>>

Run ==
    /\ stage = "built"
    /\ credentials # {} => drop = "done"
    /\ Stop("running")

(* ------------------------------- behaviours ------------------------------- *)

NoHost == [ipv6 |-> FALSE, addrs |-> <<>>, ethernet |-> <<>>]

StartupInit ==
    /\ wanted \in EnvEntries
    /\ \E twice \in {{}} \union {{param} : param \in Respelled} :
          env = Spelled(wanted) \union (twice \X {"lower"})
    /\ unread = env
    /\ slots = {}
    /\ stage = "env"
    /\ reflectors = <<>>
    /\ host = NoHost
    /\ user = None
    /\ legs = {}
    /\ PrivilegeInit

StartupNext ==
    \/ \E variable \in unread : ReadVariable(variable)
    \/ \E fromFile \in {<<>>} \union {<<raw>> : raw \in FileEntries}, sameKey \in BOOLEAN :
          \E envUser, fileUser \in UserSettings(wanted, fromFile) :
             (sameKey => fromFile # <<>>) /\ LoadConfig(fromFile, sameKey, envUser, fileUser)
    \/ \E onHost \in Hosts : fit_to_host(onHost)
    \/ \E readable \in BOOLEAN : ResolveUser(readable)
    \/ \E joined \in BOOLEAN : Build(joined)
    \/ DropPrivileges
    \/ Run

StartupSpec == StartupInit /\ [][StartupNext]_startupVars

(* ------------------------------- properties ------------------------------- *)

\* The packets a leg reflects on a host with every address.
Reflected(leg, addrs) ==
    {p \in Packets : /\ matches(leg.filter, p, addrs)
                     /\ on_packet(leg, p, addrs, addrs, TRUE) = "Reflected"}

\* Entries for different devices both pass the questions on, and each takes its devices' answers.
BothAsk(leg, other) ==
    /\ leg.kind \in {"mdns_query", "ssdp_search", "wsd_search"}
    /\ ~macs_overlap(leg.macs, other.macs)

Twice(r, other) ==
    \E leg \in LegsOf(r), theirs \in LegsOf(other) :
        /\ leg.ingress = theirs.ingress /\ leg.egress = theirs.egress
        /\ ~BothAsk(leg, theirs)
        /\ Reflected(leg, {"v4", "v6"}) \intersect Reflected(theirs, {"v4", "v6"}) # {}

\* Two entries are accepted together exactly when there is no packet that both would reflect to the
\* same interface (config/conflict.rs:1, "no two entries may reflect the same packet twice"): the
\* flows of the rule cover every leg that is built, and refuse no entries that get along.  The rule
\* does not look at peers, whose families may keep two entries apart that it refuses.
ConflictsExact ==
    Len(reflectors) = 2 =>
        /\ stage = "loaded" => ~Twice(reflectors[1], reflectors[2])
        /\ (stage = "conflict" /\ \A i \in 1..2 : Peers(reflectors[i]) = {}) =>
              Twice(reflectors[1], reflectors[2])

\* The IPv4 packets an entry reflects, and where to, on a host without IPv6.
V4Reflected(r) ==
    UNION {{<<leg.egress, p>> : p \in {q \in Reflected(leg, {"v4"}) : Version(q.dest) = "v4"}} :
              leg \in LegsOf(r)}

\* On a host without IPv6, what fall_back_to_ipv4 leaves of an entry is one "the validation would
\* accept" (config.rs:258), beside the other entry too, and it reflects every IPv4 packet it did.
FallbackFits ==
    /\ (stage = "fitted" /\ ~host.ipv6) =>
          /\ \A i \in DOMAIN reflectors : ~Refused(reflectors[i])
          /\ \A i, j \in DOMAIN reflectors : i < j => ~conflicts_with(reflectors[i], reflectors[j])
    /\ (stage = "loaded" /\ DOMAIN reflectors = {1} /\ ~NothingLeft(reflectors[1])) =>
          V4Reflected(FallBack(reflectors[1])) = V4Reflected(reflectors[1])

\* The order of the environment's variables picks no winner (config/env.rs:41): when all are read,
\* each is in effect, and a parameter spelled twice has been refused.
AsSpelled ==
    (stage = "env" /\ unread = {}) =>
        /\ slots = env
        /\ \A one, other \in env : one[1] = other[1] => one = other

\* A daemon that runs serves what its entries require: no leg is left without a source address of a
\* family its entry requires, or with a device filter that the link cannot match (reflector.rs:239).
RunsWhatItRequires ==
    stage = "running" =>
        \A leg \in legs :
            /\ \A p \in Packets :
                  (matches(leg.filter, p, host.addrs[leg.ingress]) /\ Version(p.dest) \in requires(leg.family)) =>
                      on_packet(leg, p, host.addrs[leg.egress], host.addrs[leg.ingress], TRUE) # "Stalled"
            /\ leg.filter.src_mac # None => host.ethernet[leg.ingress]

\* A daemon with a "user" setting runs as that account or not at all (privileges.rs:150): whatever it
\* was started as, and whichever call fails or is ignored, it is the account's, root cannot come
\* back, no capability is left but CAP_NET_RAW for a DIAL entry, and that one is left if the kernel
\* asks for it.
RunsAsAccount == (stage = "running" /\ user # None) => Switched(Dials)

=============================================================================
