----------------------------- MODULE NetworkSheets -----------------------------
(***************************************************************************)
(* The options that the pages of the network and the firewall list, as     *)
(* OptionForm has them.                                                    *)
(***************************************************************************)
EXTENDS OptionForm

-----------------------------------------------------------------------------
(***************************************************************************)
(* The options of an interface that depend on its protocol:                *)
(* renderFormOptions() of each protocol handler, on a router with IPv6.    *)
(***************************************************************************)

LinkIpv6 == Select("ipv6", <<"auto", "0", "1">>, "auto")
Route == <<ToggleOn("defaultroute")>>
RouteMetric == <<ToggleOn("defaultroute"), Given(Field("metric"), "defaultroute")>>
PeerDns == <<ToggleOn("peerdns"), If(Field("dns"), "peerdns", {"0"})>>

StaticOptions ==
  <<By(Entry("_notation", "flag", <<"0", "1">>, "0"), "CIDR"),
    Chosen("ipaddr", <<"addr", "addr/24">>, ""), If(Field("netmask"), "_notation", {"0"})>>
  \o TextFields(<<"gateway", "broadcast", "dns">>)
  \o <<Chosen("ip6assign", <<"48", "64">>, ""), If(Field("ip6hint"), "ip6assign", {"48", "64"})>>
  \o AllIf(TextFields(<<"ip6addr", "ip6gw", "ip6prefix">>), "ip6assign", {""})
  \o TextFields(<<"ip6ifaceid", "macaddr", "mtu", "metric">>)
DhcpOptions ==
  <<Field("hostname"), Toggle("broadcast")>> \o Route \o PeerDns
  \o TextFields(<<"metric", "clientid", "vendorid", "macaddr", "mtu">>)
Dhcpv6Options ==
  <<Select("reqaddress", <<"try", "force", "none">>, "try"),
    Chosen("reqprefix", <<"auto", "no", "60">>, "auto")>>
  \o Route \o <<Field("ip6prefix")>> \o PeerDns \o TextFields(<<"clientid", "macaddr", "mtu">>)

PppOptions ==
  <<Must(Field("device")), Field("username"), Field("password"), LinkIpv6>>
  \o Route \o PeerDns \o <<Field("metric")>> \o KeepaliveFields \o TextFields(<<"demand", "mtu">>)
PppoaOptions ==
  <<Select("encaps", <<"vc", "llc">>, ""), Chosen("atmdev", <<"0", "1">>, "0"),
    Chosen("vci", <<"35", "x">>, "35"), Chosen("vpi", <<"8", "x">>, "8"),
    Field("username"), Field("password"), LinkIpv6>>
  \o Route \o PeerDns \o <<Field("metric")>> \o KeepaliveFields \o TextFields(<<"demand", "mtu">>)
PppoeOptions ==
  TextFields(<<"username", "password", "ac", "service">>) \o <<LinkIpv6>>
  \o Route \o PeerDns \o <<Field("metric")>> \o KeepaliveFields
  \o TextFields(<<"host_uniq", "demand", "mtu">>)
PptpOptions ==
  TextFields(<<"server", "username", "password">>) \o <<LinkIpv6>>
  \o Route \o PeerDns \o <<Field("metric")>> \o KeepaliveFields \o TextFields(<<"demand", "mtu">>)
L2tpOptions ==
  TextFields(<<"server", "username", "password">>) \o <<LinkIpv6>>
  \o Route \o PeerDns \o TextFields(<<"metric", "mtu">>)
PpposshOptions ==
  <<Must(Field("sshuser")), Must(Field("server"))>>
  \o TextFields(<<"port", "ssh_options", "identity", "ipaddr", "peeraddr">>) \o <<Toggle("ipv6")>>
  \o Route \o PeerDns \o <<Field("metric")>> \o KeepaliveFields \o <<Field("demand")>>

CellularOptions == \* 3g
  <<Must(Field("device")), Chosen("service", <<"umts", "evdo">>, "")>>
  \o TextFields(<<"apn", "pincode", "username", "password", "dialnumber">>) \o <<LinkIpv6, Field("delay")>>
  \o RouteMetric \o PeerDns \o KeepaliveFields \o <<Field("demand")>>
NcmOptions ==
  <<Must(Field("device")), Chosen("service", <<"lte", "auto">>, ""),
    Select("pdptype", <<"IP", "IPV4V6", "IPV6">>, "IP")>>
  \o TextFields(<<"apn", "pincode", "username", "password", "dialnumber">>) \o <<LinkIpv6, Field("delay")>>
  \o RouteMetric \o PeerDns
QmiOptions ==
  <<Must(Field("device")), Field("apn"), Field("pincode"),
    Select("auth", <<"both", "pap", "chap", "none">>, "none")>>
  \o AllIf(TextFields(<<"username", "password">>), "auth", {"pap", "chap", "both"})
  \o <<Toggle("ipv6"), Field("delay"), Field("mtu"),
       Select("pdptype", <<"ipv4v6", "ipv4", "ipv6">>, "ipv4v6")>>

\* The certificates are files of the protocol's own.
OpenconnectOptions ==
  TextFields(<<"server", "port", "serverhash", "authgroup", "usergroup", "username", "password", "password2">>)
  \o <<By(Field("usercert"), "file"), By(Field("userkey"), "file"), By(Field("ca"), "file")>>
  \o RouteMetric \o <<Field("mtu")>>
VpncOptions ==
  TextFields(<<"server", "local_addr", "local_port", "interface", "mtu", "username", "password",
           "hexpassword", "authgroup", "passgroup", "hexpassgroup", "domain", "vendor">>)
  \o <<Select("dh_group", <<"dh2", "dh1", "dh5">>, ""),
       Select("pfs", <<"server", "nopfs", "dh1", "dh2", "dh5">>, ""),
       Select("natt_mode", <<"natt", "none", "force-natt", "cisco-udp">>, ""),
       Toggle("enable_no_enc"), Toggle("enable_single_des"), Field("dpd_idle"), Field("target_network"),
       Select("defaultroute", <<"0", "1">>, "")>>
WireguardOptions ==
  <<Must(Field("private_key")), Field("listen_port"), Field("addresses"), Toggle("nohostroute")>>
  \o TextFields(<<"metric", "mtu", "fwmark">>)
\* allowed_ips refuses an empty list.
PeerOptions ==
  <<Field("description"), Must(Field("public_key")), Field("preshared_key"), Must(Field("allowed_ips")),
    Toggle("route_allowed_ips")>> \o TextFields(<<"endpoint_host", "endpoint_port", "persistent_keepalive">>)

HeOptions == \* 6in4
  <<Field("ipaddr"), Must(Field("peeraddr")), Field("ip6addr"), Field("ip6prefix"),
    By(Toggle("_update"), "any tunnelid")>>
  \o AllIf(TextFields(<<"tunnelid", "username", "password">>), "_update", {"1"})
  \o RouteMetric \o TextFields(<<"ttl", "mtu">>)
SixrdOptions ==
  <<Field("ipaddr"), Must(Field("peeraddr")), Must(Field("ip6prefix")), Field("ip6prefixlen"),
    Field("ip4prefixlen")>>
  \o RouteMetric \o TextFields(<<"ttl", "mtu">>)
SixtofourOptions == <<Field("ipaddr")>> \o RouteMetric \o TextFields(<<"ttl", "mtu">>)
DsliteOptions ==
  <<Must(Field("peeraddr")), Field("ip6addr"), Field("tunlink"),
    Must(Select("encaplimit", <<"ignore", "0", "4">>, "ignore"))>>
  \o RouteMetric \o <<Field("mtu")>>
MapOptions ==
  <<Select("type", <<"map-e", "map-t", "lw4o6">>, ""), Must(Field("peeraddr")), Field("ipaddr"),
    Field("ip4prefixlen"),
    Must(Field("ip6prefix"))>> \o TextFields(<<"ip6prefixlen", "ealen", "psidlen", "offset", "tunlink">>)
  \o RouteMetric \o TextFields(<<"ttl", "mtu">>)
XlatOptions == TextFields(<<"ip6prefix", "tunlink">>) \o RouteMetric \o <<Field("mtu")>>
IpipOptions == TextFields(<<"peeraddr", "ipaddr", "tunlink", "mtu", "ttl", "tos">>) \o <<Toggle("df")>>
HnetOptions ==
  <<Select("mode", <<"auto", "external", "internal", "leaf", "guest", "adhoc", "hybrid">>, "auto"),
    Chosen("ip6assign", <<"64", "x">>, "64"), Field("link_id"), Chosen("ip4assign", <<"24", "x">>, "24"),
    Chosen("dnsname", <<"name", "x">>, "name"), Field("macaddr"), Field("mtu")>>
RelayOptions ==
  <<Field("ipaddr"), Field("network"), ToggleOn("forward_bcast"), ToggleOn("forward_dhcp"),
    Given(Field("gateway"), "forward_dhcp")>> \o TextFields(<<"expiry", "retry", "table">>)

ProtocolForms ==
  "static" :> StaticOptions @@ "dhcp" :> DhcpOptions @@ "dhcpv6" :> Dhcpv6Options @@ "ppp" :> PppOptions
  @@ "pppoa" :> PppoaOptions @@ "pppoe" :> PppoeOptions @@ "pptp" :> PptpOptions @@ "l2tp" :> L2tpOptions
  @@ "pppossh" :> PpposshOptions @@ "3g" :> CellularOptions @@ "ncm" :> NcmOptions @@ "qmi" :> QmiOptions
  @@ "openconnect" :> OpenconnectOptions @@ "vpnc" :> VpncOptions @@ "wireguard" :> WireguardOptions
  @@ "wireguard peer" :> PeerOptions @@ "6in4" :> HeOptions @@ "6rd" :> SixrdOptions
  @@ "6to4" :> SixtofourOptions
  @@ "dslite" :> DsliteOptions @@ "map" :> MapOptions @@ "464xlat" :> XlatOptions @@ "ipip" :> IpipOptions
  @@ "hnet" :> HnetOptions @@ "relay" :> RelayOptions

-----------------------------------------------------------------------------
(***************************************************************************)
(* The forms of the firewall application: zones, port forwards, traffic    *)
(* and NAT rules.  A protocol is chosen from a list, and those with ports  *)
(* bring the fields for them.                                              *)
(***************************************************************************)

CBIProtocolSelect(preset) ==
  By(Select("proto", <<"tcp udp", "udp", "icmp", "all">>, preset), "default loaded")
WithPorts(o) == If(o, "proto", {"tcp udp", "udp"})
ZoneSelect(n) == Select(n, <<"", "lan", "*">>, "")

\* In tools/firewall.js; the last protocol cannot be taken out.  What a rule sets may
\* not be empty, what it matches may.
addDSCPOption(is_target) ==
  IF is_target THEN If(Must(Select("set_dscp", <<"CS0", "AF11">>, "")), "target", {"DSCP"}) ELSE Field("dscp")
addMarkOption(is_target) ==
  CASE is_target = 0 -> Field("mark")
    [] is_target = 1 -> If(Must(Field("set_mark")), "target", {"MARK_SET"})
    [] is_target = 2 -> If(Must(Field("set_xmark")), "target", {"MARK_XOR"})
addLimitOptions == <<Field("limit"), If(Field("limit_burst"), "limit", {"x"})>>
TimeOptions ==
  TextFields(<<"weekdays", "monthdays", "start_time", "stop_time", "start_date", "stop_date">>)
  \o <<Toggle("utc_time")>>

Policies(ns, d) == [i \in DOMAIN ns |-> Select(ns[i], <<"REJECT", "DROP", "ACCEPT">>, d)]
DefaultsOptions ==
  <<Toggle("syn_flood"), Toggle("drop_invalid")>> \o Policies(<<"input", "output", "forward">>, "")
  \o <<Toggle("flow_offloading"), Given(Toggle("flow_offloading_hw"), "flow_offloading")>>
\* "in" and "out" stand for the sections of forwardings from and to the zone.
ZoneGeneral ==
  <<Must(Field("name"))>> \o Policies(<<"input", "output", "forward">>, "DROP")
  \o <<Toggle("masq"), Given(Toggle("fullcone"), "masq"), Toggle("mtu_fix"),
       By(Chosen("network", <<"lan", "lan guest">>, ""), "networks added")>>
ZoneFurther ==
  TextFields(<<"device", "subnet">>) \o <<Select("family", <<"", "ipv4", "ipv6">>, "")>>
  \o AllIf(TextFields(<<"masq_src", "masq_dest">>), "family", {"", "ipv4"})
  \o <<Toggle("masq_allow_invalid"), ToggleOn("auto_helper"), If(Field("helper"), "auto_helper", {"0"}),
       Toggle("log"), Given(Field("log_limit"), "log"),
       By(Chosen("extra_src", <<"x", "y">>, ""), "extra"),
       By(Chosen("extra_dest", <<"x", "y">>, ""), "extra")>>
  \o TextFields(<<"out", "in">>)

RedirectOptions ==
  <<Field("name"), ToggleOn("enabled"), CBIProtocolSelect("tcp udp"),
    Must(Select("src", <<"lan", "wan">>, "wan"))>>
  \o TextFields(<<"src_mac", "src_ip">>)
  \o <<WithPorts(Field("src_port")), Field("src_dip"), WithPorts(Must(Field("src_dport"))),
       Select("dest", <<"", "lan", "wan">>, "lan"), Field("dest_ip"), WithPorts(Field("dest_port")),
       ToggleOn("reflection"),
       Given(By(Select("reflection_src", <<"internal", "external">>, ""), "first unset"), "reflection")>>
  \o <<Field("helper"), addMarkOption(0)>> \o addLimitOptions \o <<Field("extra")>>

RuleMatches ==
  <<Field("name"), ToggleOn("enabled"), Select("direction", <<"", "in", "out">>, ""),
    If(Must(Field("device")), "direction", {"in", "out"}), Select("family", <<"", "ipv4", "ipv6">>, ""),
    CBIProtocolSelect("tcp udp"), If(Field("icmp_type"), "proto", {"icmp"}),
    ZoneSelect("src"), Field("src_mac"), Field("src_ip"), WithPorts(Field("src_port")),
    ZoneSelect("dest"), Field("dest_ip"), WithPorts(Field("dest_port"))>>
RuleTarget ==
  <<By(Select("target", <<"DROP", "ACCEPT", "REJECT", "NOTRACK", "HELPER", "MARK_SET", "MARK_XOR", "DSCP">>,
              "ACCEPT"), "mark target"),
    addMarkOption(1), addMarkOption(2), addDSCPOption(TRUE),
    If(Select("set_helper", <<"ftp", "sip">>, ""), "target", {"HELPER"}),
    Field("helper"), addMarkOption(0), addDSCPOption(FALSE)>>
  \o addLimitOptions \o <<Field("extra")>> \o TimeOptions

NatOptions ==
  <<Field("name"), ToggleOn("enabled"), CBIProtocolSelect("all"),
    Must(Select("src", <<"lan", "*">>, "lan")),
    Field("src_ip"), WithPorts(Field("src_port")), Field("dest_ip"), WithPorts(Field("dest_port")),
    Select("target", <<"SNAT", "MASQUERADE", "ACCEPT">>, "SNAT"),
    If(By(Field("snat_ip"), "unless port"), "target", {"SNAT"}), WithPorts(Field("snat_port")),
    Field("device"),
    addMarkOption(0)>>
  \o addLimitOptions \o <<Field("extra")>> \o TimeOptions

FirewallForms ==
  "firewall defaults" :> DefaultsOptions @@ "zone" :> ZoneGeneral \o ZoneFurther @@ "redirect" :> RedirectOptions
  @@ "rule" :> RuleMatches \o RuleTarget @@ "nat" :> NatOptions

-----------------------------------------------------------------------------
(***************************************************************************)
(* The forms of the network pages: what an interface has whatever its      *)
(* protocol, its DHCP pool, the resolver, the radio and what a wireless    *)
(* interface has besides its security, routes, the switch, lines.          *)
(***************************************************************************)

\* "static" stands for the protocols over a device, "wireguard" for the virtual ones;
\* the zone is in the configuration of the firewall.
InterfaceOptions ==
  <<Select("proto", <<"static", "dhcp", "wireguard">>, ""), ToggleOn("auto"),
    If(By(Entry("type", "flag", <<"", "bridge">>, "0"), "bridge"), "proto", {"static", "dhcp"})>>
  \o [i \in {1, 2} |-> Needing(Toggle(<<"stp", "igmp_snooping">>[i]),
                              "type" :> {"bridge"} @@ "proto" :> {"static", "dhcp"})]
  \o <<Needing(As(By(Chosen("ifname_single", <<"eth0", "eth1">>, ""), "first device"), "ifname"),
               "type" :> {""} @@ "proto" :> {"static", "dhcp"}),
       Needing(As(By(Chosen("ifname_multi", <<"eth0", "eth0 eth1">>, ""), "devices"), "ifname"),
               "type" :> {"bridge"} @@ "proto" :> {"static", "dhcp"}),
       Select("_zone", <<"", "lan", "wan">>, ""), ToggleOn("delegate"),
       By(Toggle("force_link"), "default of protocol")>>

Served == {"server", "hybrid"}
DhcpPoolOptions ==
  <<Toggle("ignore")>>
  \o AllIf(<<Chosen("start", <<"100", "x">>, "100"), Chosen("limit", <<"150", "x">>, "150"),
             Chosen("leasetime", <<"12h", "x">>, "12h"), ToggleOn("dynamicdhcp"), Toggle("force"),
             Field("netmask"), Field("dhcp_option")>>, "ignore", {"0"})
  \o <<Select("ra", <<"", "server", "relay", "hybrid">>, ""),
       Select("dhcpv6", <<"", "server", "relay", "hybrid">>, ""),
       Select("ndp", <<"", "relay", "hybrid">>, ""), If(Toggle("master"), "dhcpv6", {"relay", "hybrid"}),
       If(Select("ra_management", <<"0", "1", "2">>, "1"), "dhcpv6", Served),
       If(Toggle("ra_default"), "ra", Served)>>
  \o TextFields(<<"dns", "domain">>)

LineOptions == \* sections globals, dsl and atm-bridge
  <<Field("ula_prefix"), Select("annex", <<"a", "b">>, ""), Select("tone", <<"", "a", "b">>, ""),
    Select("xfer_mode", <<"", "atm", "ptm">>, ""), Select("line_mode", <<"", "adsl", "vdsl">>, ""),
    Select("ds_snr_offset", <<"-5", "0", "5">>, "0")>>
  \o TextFields(<<"firmware", "vci", "vpi">>) \o <<Select("encaps", <<"llc", "vc">>, "")>>
  \o TextFields(<<"atmdev", "unit">>) \o <<Select("payload", <<"bridged", "routed">>, "")>>

DnsmasqServer ==
  Toggles(<<"domainneeded", "authoritative", "readethers">>)
  \o <<Field("leasefile"), Toggle("noresolv"), If(Field("resolvfile"), "noresolv", {"0"}),
       Toggle("nohosts"), Field("addnhosts"), Toggle("quietdhcp"), Toggle("sequential_ip"),
       ToggleOn("boguspriv"), Toggle("filterwin2k"), Toggle("localise_queries"),
       Toggle("dnssec"), ToggleOn("dnsseccheckunsigned"), Field("local"), Field("domain"),
       Toggle("expandhosts"), Toggle("nonegcache")>>
DnsmasqForwarding ==
  <<Field("serversfile"), Toggle("strictorder"), Toggle("allservers"), Field("bogusnxdomain"),
    Toggle("logqueries"), Field("server"), Field("address"), Must(Toggle("rebind_protection")),
    Given(Toggle("rebind_localhost"), "rebind_protection"),
    Given(Field("rebind_domain"), "rebind_protection")>>
DnsmasqLimits ==
  TextFields(<<"port", "queryport", "dhcpleasemax", "ednspacket_max", "dnsforwardmax", "cachesize">>)
  \o <<By(Field("_tmpl"), "file"), Toggle("enable_tftp")>>
  \o AllIf(TextFields(<<"tftp_root", "dhcp_boot">>), "enable_tftp", {"1"})
  \o <<Must(Toggle("localservice")), ToggleOn("nonwildcard"), Field("interface"), Field("notinterface")>>
LeaseOptions == \* two addresses are written with a blank between them
  <<Field("name"), By(Chosen("mac", <<"A", "A B">>, ""), "one address"),
    By(Field("ip"), "unless name or mac")>>
  \o TextFields(<<"leasetime", "duid", "hostid">>)

RadioOptions ==
  TextFields(<<"txpower", "country">>) \o <<ToggleOn("legacy_rates")>>
  \o TextFields(<<"distance", "frag", "rts">>)
  \o <<Toggle("noscan"), Field("beacon_int")>>
Meshed(o) == If(o, "mode", {"mesh"})
Serving(o) == If(o, "mode", {"ap", "ap-wds"})
WifiIfaceOptions ==
  <<Select("mode", <<"ap", "sta", "adhoc", "mesh", "ap-wds">>, ""), Meshed(Field("mesh_id")),
    Meshed(Must([Toggle("mesh_fwding") EXCEPT !.default = "1"])),
    Meshed(Must(Chosen("mesh_rssi_threshold", <<"0", "1">>, "0"))),
    If(Field("ssid"), "mode", {"ap", "sta", "adhoc", "ap-wds"}),
    If(Field("bssid"), "mode", {"adhoc", "sta"}),
    Serving(Select("macfilter", <<"", "allow", "deny">>, "")),
    If(Field("maclist"), "macfilter", {"allow", "deny"}),
    Serving(Toggle("hidden")), Serving(ToggleOn("wmm")), Serving(Toggle("isolate")),
    Field("ifname"), ToggleOn("short_preamble"),
    Field("dtim_period"), Field("wpa_group_rekey"), Toggle("skip_inactivity_poll"), Field("max_inactivity"),
    Field("max_listen_interval"), ToggleOn("disassoc_low_ack")>>

RouteOptions ==
  <<Must(Select("interface", <<"lan", "wan">>, "")), Must(Field("target"))>>
  \o TextFields(<<"netmask", "gateway", "metric", "mtu">>)
  \o <<Select("type", <<"", "local", "blackhole">>, ""),
       By(Chosen("table", <<"local", "main">>, "main"), "default loaded"),
       Field("source"), Toggle("onlink")>>
HostOptions == TextFields(<<"name", "ip">>)

Mirrored(o) == Given(Given(o, "enable_mirror_rx"), "enable_mirror_tx")
SwitchOptions ==
  <<Toggle("enable_vlan"), ToggleOn("enable_learning"), Entry("jumbo", "flag", <<"0", "3">>, "0"),
    Toggle("enable_mirror_rx"), Toggle("enable_mirror_tx"),
    Mirrored(Select("mirror_source_port", <<"0", "1">>, "")),
    Mirrored(Select("mirror_monitor_port", <<"0", "1">>, ""))>>

NetworkForms ==
  "interface" :> InterfaceOptions @@ "dhcp pool" :> DhcpPoolOptions @@ "lines" :> LineOptions
  @@ "dnsmasq" :> DnsmasqServer \o DnsmasqForwarding \o DnsmasqLimits
  @@ "lease" :> LeaseOptions @@ "radio" :> RadioOptions
  @@ "wifi-iface" :> WifiIfaceOptions @@ "route" :> RouteOptions @@ "host" :> HostOptions
  @@ "switch" :> SwitchOptions
=============================================================================
