---------------------------- MODULE MCNativeLibrary ----------------------------
(***************************************************************************)
(* Inputs for TLC: links of each scheme with each kind of missing or wrong *)
(* part, all connection options for two links, short subscription texts,   *)
(* imported configurations with up to two TUN inbounds and two rules, and  *)
(* outbound groups of three tags.                                          *)
(***************************************************************************)
EXTENDS NativeLibrary

AnyLink == [scheme |-> "vless", user |-> "u", host |-> "example", port |-> "443",
            type |-> "", security |-> "tls", pbk |-> "", method |-> "aes",
            plugin |-> "", up |-> 10, down |-> 10, obfs |-> "", obfsPassword |-> "",
            hostHeader |-> "cdn", alpn |-> <<"h2">>, remark |-> "My VPN"]

Types == {"", "ws", "h2", "quic", "xhttp", "kcp"}
Remarks == {"My VPN", "host", "security", "port", "serverPorts", "add", "singBoxConfigJson",
            "xrayConfigJson", ControlText}

UriLinks == {[AnyLink EXCEPT !.scheme = s, !.type = t, !.security = m, !.pbk = k]
               : s \in {"vless", "trojan", "vmess"}, t \in Types,
                 m \in {"", "tls", "reality"}, k \in {"", "key"}}
NamedLinks == {[AnyLink EXCEPT !.scheme = s, !.remark = r, !.user = u, !.up = 20]
                 : s \in {"vless", "trojan", "vmess", "ss", "hysteria", "hysteria2"},
                   r \in Remarks, u \in {"u", "", " ", "method"}}
ServerLinks == {[AnyLink EXCEPT !.scheme = s, !.host = h, !.port = p]
                  : s \in {"vless", "vmess", "ss", "hysteria", "hy2", "wg"},
                    h \in {"", "ip4", "ip6", "port", "singBoxConfigJson"}, p \in {"", "443", "x", "1000-2000,3000"}}
HysteriaLinks == {[AnyLink EXCEPT !.scheme = s, !.up = u, !.obfs = o, !.obfsPassword = q]
                    : s \in {"hysteria", "hysteria2"}, u \in {0, 10},
                      o \in {"", "salamander"}, q \in {"", " ", "q"}}
SsLinks == {[AnyLink EXCEPT !.scheme = "ss", !.method = m, !.plugin = p, !.port = "1000-2000,3000"]
              : m \in {"", "aes"}, p \in {"", "obfs-local"}}

Dns(scheme, host, form, port, path) ==
    [scheme |-> scheme, host |-> host, form |-> form, port |-> port, path |-> path]
DohTexts == {Dns(s, h[1], h[2], p, t) : s \in {"https", "HTTPS"},
             h \in {<<"dns", "plain">>, <<"::1", "bracketed">>}, p \in {0, 8443}, t \in {"", "/q"}}
DotTexts == {d \in {Dns(s, h[1], h[2], p, "") : s \in {"", "tls", "TLS"},
             h \in {<<"dns", "plain">>, <<"::1", "bracketed">>, <<"::1", "bare">>}, p \in {0, 8853}} :
               d.form = "bare" => d.port = 0}

Option(core, tun, ip, android) ==
    [core |-> core, tun |-> tun, ip |-> ip, android |-> android, windows |-> ~android,
     split |-> "off", apps |-> FALSE, domainSplit |-> "off", domains |-> FALSE,
     routeInterface |-> FALSE, dnsMode |-> "classic", dns |-> Dns("", "1.1.1.1", "plain", 0, "")]
FewOptions == {Option(c, t, "ipv4", FALSE) : c \in {"singBox", "xray"}, t \in BOOLEAN}
(* What the app asks for: on Android the applications are split by the VPN *)
(* service and xray gets its traffic from the SOCKS inbound; elsewhere a    *)
(* split mode switches the app to TUN mode.                                *)
AllOptions ==
    {o \in [core : {"singBox", "xray"}, tun : BOOLEAN, ip : IpModes, android : BOOLEAN,
            windows : {FALSE}, split : Modes, apps : BOOLEAN, domainSplit : Modes,
            domains : BOOLEAN, routeInterface : BOOLEAN, dnsMode : {"classic"},
            dns : {Dns("", "1.1.1.1", "plain", 0, "")}] :
        /\ o.android => /\ o.tun = (o.core = "singBox")
                        /\ o.split = "off" /\ ~o.apps /\ ~o.routeInterface
        /\ ~o.android /\ ~o.tun => o.split = "off" /\ o.domainSplit = "off"}

MCLinks == [link : UriLinks \cup NamedLinks \cup ServerLinks \cup HysteriaLinks \cup SsLinks,
            options : FewOptions]
           \cup [link : {AnyLink},
                 options : {[o EXCEPT !.dnsMode = "doh", !.dns = d] : o \in FewOptions, d \in DohTexts}
                           \cup {[o EXCEPT !.dnsMode = "dot", !.dns = d] : o \in FewOptions, d \in DotTexts}]
           \cup [link : {[AnyLink EXCEPT !.host = "ip6"]}, options : AllOptions]

MCTexts ==
    LET tokens == [link : {AnyLink, [AnyLink EXCEPT !.scheme = "ss"], [AnyLink EXCEPT !.host = ""],
                           [AnyLink EXCEPT !.scheme = "https"]},
                   before : {"line", "space", "nothing"}]
    IN  BoundedSeq(tokens, 3)

Tun(tag, address, route) ==
    [tag |-> tag, address |-> address, legacy |-> {}, route |-> route, exclude |-> {},
     mtu |-> 0, named |-> FALSE, strict |-> TRUE, stack |-> "system"]
MCTuns == {<<>>} \cup {<<Tun(t, a, r)>> : t \in {"", "t1"}, a \in SUBSET {"v4", "v6"},
                                      r \in {{}, {"v6"}}}
          \cup {<<Tun("t1", {"v4"}, {}), [Tun(t, {}, {}) EXCEPT !.legacy = {"v4", "v6"}]>>
                  : t \in {"", "t2"}}
MCRules ==
    LET rules == {[PlainRule(a, i) EXCEPT !.narrow = (a # "hijack-dns")]
                    : a \in {"sniff", "resolve", "route", "hijack-dns"},
                      i \in {AnyInbound, {"t1"}, {"t1", "t2"}}}
                 \cup {[PlainRule("resolve", AnyInbound) EXCEPT !.generic = FALSE],
                       [PlainRule("hijack-dns", AnyInbound) EXCEPT !.narrow = TRUE]}
    IN  BoundedSeq(rules, 2)
MCLabels == {"label", "singBoxConfigJson"}
MCImports ==
    LET shown(label) == [EmptyProfile EXCEPT !.protocol = "trojan", !.server = "s",
                                             !.password = "p", !.remark = label]
    IN  {[config |-> [tuns |-> t, autoDetect |-> FALSE, dnsStrategy |-> "no dns", rules |-> r],
          options |-> Option("singBox", TRUE, ip, a), shown |-> shown("label")]
            : t \in MCTuns, r \in MCRules, ip \in IpModes, a \in BOOLEAN}
        \cup {[config |-> [tuns |-> t, autoDetect |-> FALSE, dnsStrategy |-> "no dns", rules |-> <<>>],
               options |-> Option("singBox", TRUE, "ipv4", FALSE),
               shown |-> [shown("singBoxConfigJson") EXCEPT !.userId = u]]
                : t \in MCTuns, u \in {"", "u"}}

MCGraphs ==
    LET tags == {"a", "b", "c"}
        nodes == {[type |-> "proxy", children |-> <<>>], [type |-> "direct", children |-> <<>>]}
                 \cup {[type |-> "selector", children |-> <<x>>] : x \in tags}
                 \cup {[type |-> "selector", children |-> <<x, y>>] : x \in tags, y \in tags \cup {"z"}}
    IN  [outbounds : [tags -> nodes], order : {<<"a", "b", "c">>}, final : {"", "a", "z"}]

Target(key, valid, addresses) == [key |-> key, valid |-> valid, addresses |-> addresses]
MCRequests ==
    {<<Target("p", TRUE, a), Target("q", FALSE, <<"open">>), Target("r", TRUE, b),
       Target("s", TRUE, <<"refused", "open">>)>>
       : a \in BoundedSeq(Answers, 2), b \in {<<>>, <<"open">>, <<"silent", "open">>}}

=============================================================================
