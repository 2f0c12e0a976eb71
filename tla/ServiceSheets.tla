---------------------------- MODULE ServiceSheets ----------------------------
(***************************************************************************)
(* The forms of the system pages and of the applications.                  *)
(***************************************************************************)
EXTENDS OptionForm

YesNo(n, d) == Entry(n, "flag", <<"no", "yes">>, d)
OnOff(n, d) == Entry(n, "flag", <<"off", "on">>, d)
MustToggles(ns) == [i \in DOMAIN ns |-> Must(Toggle(ns[i]))]
TextFile(n) == By(Field(n), "file") \* a TextValue that is read from and written to a file

-----------------------------------------------------------------------------
(* System pages *)

SystemOptions == \* the language and the theme are in another configuration
  <<Field("hostname"), Select("zonename", <<"UTC", "zone">>, "")>>
  \o TextFields(<<"log_size", "log_ip", "log_port">>)
  \o <<Select("log_proto", <<"udp", "tcp">>, ""), Field("log_file"),
       Select("conloglevel", <<"8", "1">>, ""),
       Select("cronloglevel", <<"5", "8", "9">>, "8"), Field("zram_size_mb"),
       Select("zram_comp_algo", <<"lzo", "lz4", "deflate">>, "lzo"), Field("zram_comp_streams"),
       As(Select("_lang", <<"auto", "en">>, ""), "lang"),
       As(Select("_mediaurlbase", <<"a", "b">>, ""), "mediaurlbase")>>
\* While the service is enabled in the system.
TimeserverOptions ==
  <<Must(By(Toggle("enabled"), "on unless 0")), Given(Toggle("enable_server"), "enabled"),
    Given(ToggleOn("use_dhcp"), "enabled"), Given(Field("server"), "enabled")>>

MountGlobalOptions ==
  MustToggles(<<"anon_swap", "anon_mount">>)
  \o <<Must(ToggleOn("auto_swap")), Must(ToggleOn("auto_mount")), Must(Toggle("check_fs"))>>
Volume ==
  <<Must(Toggle("enabled")), Field("uuid"), If(Field("label"), "uuid", {""}),
    Needing(Field("device"), "uuid" :> {""} @@ "label" :> {""})>>
MountOptions ==
  Volume \o <<Must(Chosen("target", <<"/", "/overlay">>, "")), If(Note("__notice"), "target", {"/"}),
              Select("fstype", <<"", "ext4">>, ""), Field("options"), Toggle("enabled_fsck")>>
SwapOptions == Volume

LedOptions == \* both devices are in "dev"
  <<Field("name"), Select("sysfs", <<"green", "red">>, ""), Must(Toggle("default")),
    Select("trigger", <<"none", "timer", "netdev", "usbdev", "usbport", "switch0">>, "")>>
  \o AllIf(TextFields(<<"delayon", "delayoff">>), "trigger", {"timer"})
  \o <<If(As(By(Chosen("_net_dev", <<"eth0">>, ""), "device"), "dev"), "trigger", {"netdev"}),
       If(Field("mode"), "trigger", {"netdev"}),
       If(As(By(Select("_usb_dev", <<"", "1-1">>, ""), "device"), "dev"), "trigger", {"usbdev"}),
       If(Field("port"), "trigger", {"usbport"})>>
  \o AllIf(TextFields(<<"port_mask", "speed_mask">>), "trigger", {"switch0"})
DropbearOptions ==
  <<Field("Interface"), Field("Port"), Must(OnOff("PasswordAuth", "on")), OnOff("RootPasswordAuth", "on"),
    OnOff("GatewayPorts", "off")>>

-----------------------------------------------------------------------------
(* Applications *)

SmartdnsFirst ==
  <<Toggle("enabled"), Chosen("server_name", <<"smartdns", "x">>, "smartdns"),
    Chosen("port", <<"6053", "x">>, "6053"),
    Must(ToggleOn("tcp_server")), Must(ToggleOn("ipv6_server"))>>
  \o MustToggles(<<"dualstack_ip_selection", "prefetch_domain", "serve_expired">>)
  \o <<Select("redirect", <<"none", "dnsmasq-upstream", "redirect">>, "none")>>
  \o TextFields(<<"cache_size", "rr_ttl">>)
  \o <<Chosen("rr_ttl_min", <<"300", "x">>, "300"), Field("rr_ttl_max")>>
SmartdnsSecond ==
  <<Toggle("seconddns_enabled"), Chosen("seconddns_port", <<"6553", "x">>, "6553"),
    Must(ToggleOn("seconddns_tcp_server")), Field("seconddns_server_group")>>
  \o MustToggles(<<"seconddns_no_speed_check", "seconddns_no_rule_addr", "seconddns_no_rule_nameserver",
                 "seconddns_no_rule_ipset", "seconddns_no_rule_soa", "seconddns_no_dualstack_selection",
                 "seconddns_no_cache", "force_aaaa_soa">>)
  \o <<TextFile("custom_conf"), Must(Toggle("coredump"))>>
SmartdnsFiles == <<TextFile("address_conf"), TextFile("blackip_ip_conf")>>
Encrypted(o) == If(o, "type", {"tls", "https"})
SmartdnsServerOptions ==
  <<Must(ToggleOn("enabled")), Field("name"), Must(Field("ip")),
    If(Field("port"), "type", {"udp", "tcp", "tls"}),
    Select("type", <<"udp", "tcp", "tls", "https">>, "udp"), Field("server_group"),
    Must(Toggle("blacklist_ip")),
    Encrypted(Field("tls_host_verify")), Encrypted(Must(Toggle("no_check_certificate"))),
    Encrypted(Field("host_name")),
    If(Field("http_host"), "type", {"https"}), Encrypted(Field("spki_pin")), Field("addition_arg")>>

AdblockGeneral ==
  <<Must(Toggle("adb_enabled")), Field("adb_trigger"),
    Must(Toggle("adb_forcedns")), Given(Field("adb_portlist"), "adb_forcedns"),
    Must(Toggle("adb_safesearch")), Given(Field("adb_safesearchlist"), "adb_safesearch"),
    Given(Toggle("adb_safesearchmod"), "adb_safesearch"), Must(Toggle("adb_report")),
    Must(Toggle("adb_mail")), Given(Field("adb_mailreceiver"), "adb_mail")>>
AdblockFurther ==
  <<Must(Toggle("adb_debug")), Entry("adb_nice", "flag", <<"0", "10">>, "0"),
    Field("adb_triggerdelay"), Must(Select("adb_maxqueue", <<"4", "8">>, "")), Field("adb_tmpbase"),
    Must(ToggleOn("adb_backup")), Given(Field("adb_backupdir"), "adb_backup"),
    Must(Select("adb_fetchutil", <<"uclient-fetch", "curl">>, "")), Field("adb_fetchparm")>>
AdblockLists ==
  <<Must(Select("adb_dns", <<"dnsmasq", "unbound">>, ""))>>
  \o TextFields(<<"adb_dnsdir", "adb_dnstimeout", "adb_lookupdomain">>)
  \o <<Must(Toggle("adb_dnsfilereset")), Toggle("adb_dnsflush"), Toggle("adb_dnsallow"), Toggle("adb_jail"),
       Given(Field("adb_jaildir"), "adb_jail"), If(Toggle("adb_dnsinotify"), "adb_dnsflush", {"0"})>>
  \o TextFields(<<"adb_repiface", "adb_reportdir", "adb_repchunkcnt", "adb_repchunksize", "adb_replisten",
              "adb_mailsender", "adb_mailtopic", "adb_mailprofile", "adb_mailcnt">>)
  \o <<Must(Field("adb_sources"))>>

SambaOptions ==
  <<Toggle("enable")>> \o TextFields(<<"interface", "workgroup", "description">>)
  \o Toggles(<<"allow_legacy_protocols", "disable_async_io", "macos", "disable_netbios",
                "disable_ad_dc", "disable_winbind">>)
  \o <<TextFile("_tmpl")>>
Masks ==
  <<Must(Chosen("create_mask", <<"0666", "x">>, "0666")),
    Must(Chosen("dir_mask", <<"0777", "x">>, "0777"))>>
SharedOptions ==
  TextFields(<<"name", "path">>)
  \o <<YesNo("browseable", "yes"), Must(YesNo("read_only", "no")), Toggle("force_root"),
       Field("users"), Must(YesNo("guest_ok", "yes"))>>
SambaShareOptions ==
  SharedOptions \o <<YesNo("guest_only", "no"), YesNo("inherit_owner", "no")>> \o Masks
  \o <<Field("vfs_objects"), Toggle("timemachine"), Field("timemachine_maxsize")>>
KsmbdOptions ==
  <<Toggle("enable")>> \o TextFields(<<"interface", "workgroup", "description">>)
  \o <<Toggle("allow_legacy_protocols"), TextFile("_tmpl")>>
KsmbdShareOptions == SharedOptions \o <<YesNo("inherit_owner", "no"), YesNo("hide_dot_files", "yes")>> \o Masks

TtydOptions ==
  <<ToggleOn("enable")>> \o TextFields(<<"port", "interface", "credential", "uid", "gid", "signal">>)
  \o <<Toggle("url_arg"), Toggle("readonly"), Field("client_option"), Field("terminal_type"),
       Toggle("check_origin"),
       Field("max_clients"), Toggle("once"), Field("index"), Toggle("ipv6"), Toggle("ssl")>>
  \o AllIf(TextFields(<<"ssl_cert", "ssl_key", "ssl_ca">>), "ssl", {"1"})
  \o TextFields(<<"debug", "command">>)
NextdnsOptions ==
  <<Must(ToggleOn("enabled")), Field("config"), Must(ToggleOn("report_client_info"))>>
  \o MustToggles(<<"hardened_privacy", "log_queries">>)
OmcproxyOptions ==
  <<Select("scope", <<"", "global", "site">>, ""), Must(Select("uplink", <<"lan", "wan">>, "")),
    Must(Field("downlink"))>>
WrtbwmonOptions ==
  <<Toggle("enabled"), Must(Chosen("path", <<"/tmp/usage.db", "/etc/usage.db">>, "/tmp/usage.db"))>>

\* shadowsocks-libev.js
options_common ==
  <<Select("mode", <<"tcp_only", "udp_only", "tcp_and_udp">>, "tcp_and_udp")>>
  \o TextFields(<<"mtu", "timeout", "user">>)
  \o Toggles(<<"use_syslog", "verbose", "ipv6_first", "fast_open", "no_delay", "reuse_port">>)
options_client == <<Select("server", <<"s1", "s2">>, ""), Field("local_address"), Field("local_port")>>
options_server ==
  TextFields(<<"server", "server_port">>) \o <<Select("method", <<"table", "rc4">>, "")>>
  \o TextFields(<<"password", "key", "plugin", "plugin_opts">>)
ShadowServerOptions == <<Toggle("disabled")>> \o options_server
InstanceOptions(stype) ==
  <<Toggle("disabled")>> \o options_common
  \o (IF stype = "ss_server" THEN options_server \o <<Field("bind_address")>> ELSE options_client)
  \o (IF stype = "ss_tunnel" THEN <<Field("tunnel_address")>> ELSE <<>>)
Action(n) == Select(n, <<"bypass", "forward", "checkdst">>, "")
ShadowRulesOptions ==
  <<Toggle("disabled"), Select("redir_tcp", <<"", "r1">>, ""),
    Select("redir_udp", <<"", "r1">>, ""), Action("local_default")>>
  \o TextFields(<<"ifnames", "ipt_args", "src_ips_bypass", "src_ips_forward", "src_ips_checkdst">>)
  \o <<Action("src_default")>>
  \o TextFields(<<"dst_ips_bypass", "dst_ips_forward", "dst_ips_bypass_file", "dst_ips_forward_file">>)
  \o <<Select("dst_default", <<"bypass", "forward">>, ""), Toggle("dst_forward_recentrst")>>

SystemForms ==
  "system" :> SystemOptions @@ "timeserver" :> TimeserverOptions @@ "mounts" :> MountGlobalOptions
  @@ "mount" :> MountOptions @@ "swap" :> SwapOptions @@ "led" :> LedOptions
  @@ "dropbear" :> DropbearOptions
ApplicationForms ==
  "smartdns" :> SmartdnsFirst \o SmartdnsSecond \o SmartdnsFiles
  @@ "smartdns server" :> SmartdnsServerOptions 
  @@ "adblock" :> AdblockGeneral \o AdblockFurther \o AdblockLists
  @@ "samba" :> SambaOptions @@ "samba share" :> SambaShareOptions @@ "ksmbd" :> KsmbdOptions
  @@ "ksmbd share" :> KsmbdShareOptions @@ "ttyd" :> TtydOptions @@ "nextdns" :> NextdnsOptions
  @@ "omcproxy" :> OmcproxyOptions @@ "wrtbwmon" :> WrtbwmonOptions @@ "ss server" :> ShadowServerOptions
  @@ "ss rules" :> ShadowRulesOptions
  @@ [t \in {"ss_local", "ss_redir", "ss_server", "ss_tunnel"} |-> InstanceOptions(t)]
=============================================================================
