------------------------------ MODULE MCEntries ------------------------------
(* A small set of entries, packets and hosts for Entries. *)
EXTENDS Entries, TLC

Entry(changes) == [param \in Params |-> IF param \in DOMAIN changes THEN changes[param] ELSE Default[param]]

\* What an entry may be set up to reflect, some of it refused.
Shapes ==
    {[wol |-> TRUE], [wol |-> TRUE, wol_ports |-> Some({"other", "mdns"})], [wol_ports |-> Some({"wake"})],
     [mdns |-> TRUE], [mdns |-> TRUE, mdns_services |-> TRUE], [mdns_services |-> TRUE],
     [ssdp |-> TRUE], [ssdp |-> TRUE, dial |-> TRUE], [wsd |-> TRUE], [wsd |-> TRUE, dial |-> TRUE],
     [udp_ports |-> Some({"ssdp"}), udp_groups |-> Some({"c4", "c6"})],
     [udp_ports |-> Some({"other", "mdns"}), udp_groups |-> Some({"site6"})],
     [udp_ports |-> Some({"wake"}), udp_broadcast |-> TRUE],
     [udp_ports |-> Some({"wsd"}), udp_groups |-> Some({"site6"}), udp_broadcast |-> TRUE],
     [udp_ports |-> Some({"mdns"}), udp_groups |-> Some({"mdns4"}), mdns |-> TRUE],
     [udp_ports |-> Some({"ssdp"}), udp_groups |-> Some({"g4"}), ssdp |-> TRUE],
     [udp_groups |-> Some({"g4"})], [udp_ports |-> Some({"other"})]}

Ways ==
    {[source_if |-> "a", target_if |-> "b"], [source_if |-> "b", target_if |-> "a"],
     [source_if |-> "a", target_if |-> "b", bidirectional |-> TRUE]}

Same == [source_if |-> "a", target_if |-> "a", mdns |-> TRUE]

Limits ==
    {<<>>} \union [{"address_family"} -> AddressFamilies \ {"default"}]
           \union [{"macs"} -> {Some({"m1"}), Some({"m2"})}]

Merged(f, g, h) == Entry(f @@ g @@ h)

SmallEnv ==
    {Entry(Same)} \union {Merged(shape, way, limit) : shape \in Shapes, way \in Ways, limit \in Limits}
        \union {Merged(shape, [source_if |-> "a", target_if |-> "b"], peers) :
                   shape \in Shapes,
                   peers \in [{"target_peers"} -> {Some({"v4"}), Some({"v6"}), Some({"v4", "v6"})}]}

SmallFile ==
    {e \in {Merged(shape, way, limit) : shape \in Shapes,
               way \in {[source_if |-> "a", target_if |-> "b"]},
               limit \in {<<>>, [address_family |-> "ipv6"], [macs |-> Some({"m1"})]}} : ~Refused(e)}

SmallHosts ==
    {[ipv6 |-> FALSE, addrs |-> [i \in {"a", "b"} |-> {"v4"}], ethernet |-> [i \in {"a", "b"} |-> TRUE]],
     [ipv6 |-> TRUE, addrs |-> [i \in {"a", "b"} |-> {"v4", "v6"}], ethernet |-> [i \in {"a", "b"} |-> i = "a"]],
     [ipv6 |-> TRUE, addrs |-> [i \in {"a", "b"} |-> IF i = "a" THEN {"v4"} ELSE {"v6", "v4"}],
      ethernet |-> [i \in {"a", "b"} |-> TRUE]]}

\* The account is set beside two entries alone, one of them with DIAL.
Id(id) == [is |-> "Id", id |-> id, name |-> ""]
Name(name) == [is |-> "Name", id |-> 0, name |-> name]
RunAs(principal, group) == Some([user |-> principal, group |-> group])

WithUser ==
    {Merged(shape, [source_if |-> "a", target_if |-> "b"], <<>>) :
        shape \in {[mdns |-> TRUE], [ssdp |-> TRUE, dial |-> TRUE]}}

SmallUserSettings(entry, fromFile) ==
    IF entry \notin WithUser \/ fromFile # <<>> THEN {None}
    ELSE {None, RunAs(Name("net"), None), RunAs(Name("nobody"), None), RunAs(Name("root"), None),
          RunAs(Name("net"), Some(Name("wheel"))), RunAs(Id(5), None), RunAs(Id(7), None),
          RunAs(Id(7), Some(Id(8)))}

SmallAccounts == [net |-> [uid |-> 5, gid |-> 6], root |-> [uid |-> 0, gid |-> 0]]
SmallGroupNames == [net |-> 6, wheel |-> 0]

Process(platform, uid, gid, permitted, needs_raw, ignores) ==
    [platform |-> platform, uid |-> uid, gid |-> gid, groups |-> {0}, permitted |-> permitted,
     effective |-> permitted, inheritable |-> permitted \ {CAP_SETUID}, keep_caps |-> FALSE,
     no_new_privs |-> FALSE, ignores |-> ignores, pin_needs_raw |-> needs_raw,
     was_root |-> uid.effective = 0, started_with |-> permitted]

AllCaps == {CAP_SETUID, CAP_SETGID, CAP_NET_RAW, "sys_admin"}

\* Root with and without all capabilities, the account with some, and with root as its saved id.
SmallProcesses ==
    {Process("linux", Ids(0), Ids(0), caps, needs_raw, ignores) :
        caps \in {AllCaps, AllCaps \ {CAP_NET_RAW}, AllCaps \ {CAP_SETGID}}, needs_raw \in BOOLEAN,
        ignores \in {{}, {"capset"}, {"no_new_privs"}}}
    \union {Process("linux", Ids(5), Ids(6), caps, TRUE, {}) : caps \in {{}, {CAP_NET_RAW, "sys_admin"}}}
    \union {Process(platform, uid, Ids(6), {}, FALSE, {}) :
               platform \in {"linux", "freebsd", "macos"}, uid \in {[Ids(5) EXCEPT !.saved = 0], Ids(9)}}
    \union {Process(platform, Ids(0), Ids(0), {}, FALSE, {}) : platform \in {"freebsd", "macos"}}

\* What is sent: to each group and to this host on a port, as the protocol of the port sends it.
Datagram(dest, port, from, kind, device) ==
    [dest |-> dest, port |-> port, src_port |-> from, src_mac |-> device, kind |-> kind,
     wakes |-> device, services |-> "listed", addresses |-> "usable", dial |-> FALSE]

Sent ==
    {<<"mdns", "mdns_query">>, <<"mdns", "mdns_response">>, <<"ssdp", "ssdp_search">>,
     <<"ssdp", "ssdp_advertisement">>, <<"wsd", "wsd_search">>, <<"wsd", "wsd_announcement">>,
     <<"wake", "wake">>, <<"mdns", "wake">>, <<"other", "wake">>, <<"other", "data">>, <<"wsd", "data">>}

\* Messages whose content a rewrite or the check of advertised addresses acts on.
Answer(dest) == Datagram(dest, "mdns", "mdns", "mdns_response", "m1")
Notify(dest) == Datagram(dest, "ssdp", "ssdp", "ssdp_advertisement", "m1")

Contents(dest) ==
    {[Answer(dest) EXCEPT !.services = s, !.addresses = a] :
        s \in {"listed", "both", "other", "garbled"}, a \in {"usable", "both", "unreachable"}}
    \union {[Notify(dest) EXCEPT !.addresses = a, !.dial = d] :
               a \in {"usable", "unreachable"}, d \in BOOLEAN}

SmallPackets ==
    {Datagram(dest, sent[1], sent[1], sent[2], device) :
        dest \in (V4 \union V6) \ {"limited"}, sent \in Sent, device \in {"m1", "m2"}}
    \union UNION {Contents(dest) : dest \in {"mdns4", "mdns6", "c4", "c6", "own4"}}

=============================================================================
