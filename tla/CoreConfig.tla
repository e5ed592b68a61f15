------------------------------ MODULE CoreConfig ------------------------------
(***************************************************************************)
(* The configuration builder of src/native/share_link_parser.cpp: what     *)
(* entropy_build_core_config returns for a profile and the connection      *)
(* options, up to the decisions the core takes from it.  A configuration   *)
(* is a record; a routing rule is the set of connections it matches and    *)
(* what it does with them; a rule list decides by its first match.         *)
(*                                                                         *)
(* Texts are abstracted: a process is "listed" (its name, its path or its  *)
(* directory matches the list of applications) or "other", and so is the   *)
(* domain of a connection.                                                 *)
(***************************************************************************)
EXTENDS Naturals, FiniteSets, SequencesExt

Modes == {"off", "whitelist", "blacklist"}
IpModes == {"ipv4", "ipv6", "dualStack"}

(* What the routing rules of the two cores look at.  "from" is the inbound *)
(* of a connection: the user's traffic, or a query that the core's own DNS *)
(* client sends.                                                           *)
Flow == [from: {"user", "core"}, app: {"listed", "other"},
               domain: {"listed", "other"}, dns: BOOLEAN, quic: BOOLEAN,
               private: BOOLEAN]

Where(P(_)) == {c \in Flow : P(c)}

(* The connections of the listed applications: by name (with and without   *)
(* case and extension), by path, or as a program of the same directory.    *)
process_matcher == Where(LAMBDA c : c.app = "listed")
domain_matcher == Where(LAMBDA c : c.domain = "listed")
dns_matcher == Where(LAMBDA c : c.dns)
quic_matcher == Where(LAMBDA c : c.quic)
private_matcher == Where(LAMBDA c : c.private)

Rule(on, do) == <<[on |-> on, do |-> do]>>
When(cond, rules) == IF cond THEN rules ELSE <<>>

(* sniff and resolve rules annotate a connection and let it go on; any     *)
(* other rule decides it.                                                  *)
Decides(rule) == rule.do \notin {"sniff", "resolve"}

(* What a rule list does with a connection: its first deciding match, or   *)
(* the final outbound.                                                     *)
Outcome(rules, final, c) ==
    LET hit == SelectInSeq(rules, LAMBDA r : Decides(r) /\ c \in r.on)
    IN  IF hit = 0 THEN final ELSE rules[hit].do

(***************************************************************************)
(* Options.                                                                *)
(***************************************************************************)

HasWhitelist(o) == "whitelist" \in {o.split, o.domainSplit}
HasBlacklist(o) == "blacklist" \in {o.split, o.domainSplit}
Apps(o, mode) == o.split = mode /\ o.apps
Domains(o, mode) == o.domainSplit = mode /\ o.domains

(* Mutant: the mode of the domain list is forgotten. *)
BugRouteFinal(o) == IF o.split = "whitelist" THEN "direct" ELSE "proxy"

route_final(o) == IF HasWhitelist(o) THEN "direct" ELSE "proxy"

dns_strategy(ip) == CASE ip = "dualStack" -> "prefer_ipv4"
                      [] ip = "ipv6" -> "ipv6_only"
                      [] OTHER -> "ipv4_only"

(* The address families of the TUN adapter and of the routes it announces; *)
(* an empty set of routes leaves the choice to the core.                   *)
tun_addresses(ip) == CASE ip = "dualStack" -> {"v4", "v6"}
                       [] ip = "ipv6" -> {"v6"}
                       [] OTHER -> {"v4"}
tun_route_addresses(ip) == IF ip = "dualStack" THEN {} ELSE tun_addresses(ip)

(* The host route that keeps the server outside of the tunnel: only for a  *)
(* server given as an address.                                             *)
tun_route_excludes(server) == CASE server = "ip6" -> {"v6"}
                                [] server = "ip4" -> {"v4"}
                                [] OTHER -> {}

(***************************************************************************)
(* DNS servers.  The text of a server is [scheme, host, form, port, path]: *)
(* its form is "plain" (a name or an IPv4 address), "bracketed" or "bare"  *)
(* (an IPv6 address), its port 0 when the text gives none.                 *)
(***************************************************************************)

parse_doh_server(d) ==
    [host |-> d.host, port |-> IF d.form = "bare" \/ d.port = 0 THEN 443 ELSE d.port,
     path |-> IF d.path = "" THEN "/dns-query" ELSE d.path]

(* Mutant: the default port of the other protocol. *)
BugParseDotServer(d) ==
    [host |-> d.host, port |-> IF d.form = "bare" \/ d.port = 0 THEN 443 ELSE d.port,
     path |-> ""]

parse_dot_server(d) ==
    [host |-> d.host, port |-> IF d.form = "bare" \/ d.port = 0 THEN 853 ELSE d.port,
     path |-> ""]

(* What sing-box is told to ask. *)
write_sing_box_dns_server(mode, d) ==
    CASE mode = "doh" -> parse_doh_server(d)
      [] mode = "dot" -> parse_dot_server(d)
      [] OTHER -> [host |-> d.host, port |-> 53, path |-> ""]

(* xray gets a URL: a scheme is put before the text unless it begins with  *)
(* the scheme in lower case, and brackets around a bare address unless it  *)
(* has a scheme.  What xray reads of it: a scheme before the scheme hides  *)
(* the host, and the end of a bare address counts as a port.               *)
xray_dns_entry(mode, d) ==
    LET known == d.scheme = (IF mode = "doh" THEN "https" ELSE "tls")
        url == [host |-> CASE d.scheme # "" /\ ~known -> d.scheme
                           [] d.form = "bare" /\ (known \/ mode = "doh") -> "truncated"
                           [] OTHER -> d.host,
                port |-> IF d.port # 0 THEN d.port ELSE IF mode = "doh" THEN 443 ELSE 853,
                path |-> d.path]
    IN  IF mode = "classic" THEN [host |-> d.host, port |-> 53, path |-> ""] ELSE url

(***************************************************************************)
(* The rules written for sing-box in TUN mode.                             *)
(***************************************************************************)

append_sing_box_route_rules(o) ==
    LET direct(on) == Rule(on, "direct")
        hijack == Rule(dns_matcher, "hijack-dns")
        noQuic == Rule(quic_matcher, "reject")
        blacklisted == When(Apps(o, "blacklist"), direct(process_matcher))
                       \o When(Domains(o, "blacklist"), direct(domain_matcher))
        whitelisted(of(_)) ==
            When(Apps(o, "whitelist"), of(process_matcher))
            \o When(Domains(o, "whitelist"), of(domain_matcher))
        hijackOf(on) == Rule(on \cap dns_matcher, "hijack-dns")
        proxyOf(on) == Rule(on, "proxy")
    IN  Rule(Flow, "sniff") \o Rule(Flow, "resolve")
        \o CASE HasWhitelist(o) ->
                  noQuic \o direct(private_matcher) \o blacklisted
                  \o whitelisted(hijackOf) \o whitelisted(proxyOf)
             [] ~HasWhitelist(o) /\ HasBlacklist(o) ->
                  direct(private_matcher) \o blacklisted \o hijack \o noQuic
             [] OTHER -> hijack \o noQuic \o direct(private_matcher)

(* A field the core cannot do without: the builder throws when there is    *)
(* nothing in it but white space.                                          *)
Blank == {"", " "}
require_value(value) == value \notin Blank

sing_box_transport_ok(p) == p.transport # "xhttp"
sing_box_tls_ok(p) == p.tlsMode = "reality" => require_value(p.publicKey)

(* Which profiles the sing-box outbound can express.  The profile is the   *)
(* record of ShareLink.                                                    *)
sing_box_outbound_ok(p) ==
    /\ CASE p.protocol \in {"vless", "vmess"} -> require_value(p.userId)
         [] p.protocol = "trojan" -> require_value(p.password)
         [] p.protocol = "shadowsocks" -> require_value(p.method) /\ require_value(p.password)
         [] p.protocol = "hysteria" -> p.uploadMbps > 0 /\ p.downloadMbps > 0
         [] p.protocol = "hysteria2" ->
              (p.obfs # "" \/ p.obfsPassword # "") => require_value(p.obfsPassword)
         [] OTHER -> FALSE
    /\ p.protocol \in {"vless", "vmess", "trojan"} => sing_box_transport_ok(p)
    /\ sing_box_tls_ok(p)

(* The stream of xray: no QUIC, a REALITY key if there is REALITY, and for *)
(* HTTP/2, which was removed from xray, XHTTP.                             *)
xray_stream_ok(p) ==
    p.transport # "quic" /\ (p.tlsMode = "reality" => require_value(p.publicKey))
xray_network(transport) == IF transport = "http" THEN "xhttp" ELSE transport

(* Which profiles the xray outbound can express. *)
xray_outbound_ok(p) ==
    /\ CASE p.protocol \in {"vless", "vmess"} -> require_value(p.userId)
         [] p.protocol = "trojan" -> require_value(p.password)
         [] p.protocol = "shadowsocks" ->
              p.plugin = "" /\ require_value(p.method) /\ require_value(p.password)
         [] OTHER -> FALSE
    /\ xray_stream_ok(p)

(***************************************************************************)
(* Imported sing-box configurations: the settings of the app are applied   *)
(* to their TUN inbounds and to their rules.  An inbound is                *)
(*   [tag, address, legacy, route, exclude, mtu, named, stack]             *)
(* with the address families of its lists (the empty set: no such field)   *)
(* and a rule is [action, inbound, dns, narrow, generic, strategy], where  *)
(* inbound is the set of inbound tags the rule asks for, AnyInbound when   *)
(* it asks for none; dns says that it looks at the protocol or port of DNS *)
(* (rule_matches_dns), and narrow that it asks for something else besides. *)
(***************************************************************************)

AnyInbound == {"*"}

build_tun_inbound_matcher(tuns) ==
    IF \E i \in DOMAIN tuns : tuns[i].tag = "" THEN AnyInbound
    ELSE {tuns[i].tag : i \in DOMAIN tuns}

rule_inbound_matches(asked, matcher) ==
    IF matcher = AnyInbound THEN asked = AnyInbound
    ELSE asked = AnyInbound \/ (asked # {} /\ asked = matcher)

(* Mutant: a rule without an inbound is not taken for one that holds. *)
BugIsDnsHijackRule(rule, matcher) ==
    rule.action = "hijack-dns" /\ rule.inbound = matcher /\ rule.dns

is_dns_hijack_rule(rule, matcher) ==
    /\ rule.action = "hijack-dns"
    /\ rule_inbound_matches(rule.inbound, matcher)
    /\ rule.dns

is_generic_resolve_rule(rule, matcher) ==
    /\ rule.action = "resolve"
    /\ rule_inbound_matches(rule.inbound, matcher)
    /\ rule.generic

PlainRule(action, matcher) ==
    [action |-> action, inbound |-> matcher, dns |-> action = "hijack-dns",
     narrow |-> FALSE, generic |-> TRUE, strategy |-> ""]

(* The strategy of the selected IP mode goes into the first resolve rule   *)
(* that holds for the whole TUN; without one, a resolve rule is inserted   *)
(* after the first sniff rule, or both at the front.                       *)
ensure_resolve_rule_after_sniff(rules, ip, matcher) ==
    LET resolve == [PlainRule("resolve", matcher) EXCEPT !.strategy = dns_strategy(ip)]
        present == SelectInSeq(rules, LAMBDA r : is_generic_resolve_rule(r, matcher))
        sniff == SelectInSeq(rules, LAMBDA r : r.action = "sniff"
                                        /\ rule_inbound_matches(r.inbound, matcher))
    IN  CASE present # 0 -> [rules EXCEPT ![present].strategy = dns_strategy(ip)]
          [] present = 0 /\ sniff # 0 -> InsertAt(rules, sniff + 1, resolve)
          [] OTHER -> <<PlainRule("sniff", matcher), resolve>> \o rules

(* A rule that takes the DNS queries of the TUN, if there is none yet:     *)
(* after the first resolve rule, else after the first sniff rule, else at  *)
(* the front.                                                              *)
ensure_dns_hijack_rule_after_resolve(rules, matcher) ==
    LET first(action) ==
            SelectInSeq(rules, LAMBDA r : r.action = action
                                   /\ rule_inbound_matches(r.inbound, matcher))
        present == \E i \in DOMAIN rules : is_dns_hijack_rule(rules[i], matcher)
        after == IF first("resolve") # 0 THEN first("resolve") ELSE first("sniff")
    IN  IF present THEN rules
        ELSE InsertAt(rules, after + 1, PlainRule("hijack-dns", matcher))

(* The lists of an inbound keep the addresses of the selected family; an   *)
(* inbound left without an address gets the one of the app.                *)
apply_tun_ip_mode_to_inbound(in, ip) ==
    LET keep == tun_addresses(ip)
        filtered == IF in.address = {} THEN {}
                    ELSE IF in.address \cap keep = {} THEN keep
                    ELSE in.address \cap keep
    IN  IF ip = "dualStack" THEN in
        ELSE [in EXCEPT !.address = IF filtered \cup (in.legacy \cap keep) = {}
                                    THEN keep ELSE filtered,
                        !.legacy = @ \cap keep,
                        !.route = @ \cap keep,
                        !.exclude = @ \cap keep]

apply_android_tun_compatibility(in) ==
    [in EXCEPT !.named = FALSE, !.strict = FALSE, !.stack = "gvisor"]

(* What is returned for an imported configuration: its own text when it    *)
(* has no TUN inbound.                                                     *)
apply_native_sing_box_tun_settings(config, o) ==
    LET matcher == build_tun_inbound_matcher(config.tuns)
        inbound(in) ==
            LET named == IF o.windows THEN [in EXCEPT !.named = TRUE] ELSE in
            IN  apply_tun_ip_mode_to_inbound(
                    IF o.android
                    THEN apply_android_tun_compatibility([named EXCEPT !.mtu = 1400])
                    ELSE named, o.ip)
    IN  IF config.tuns = <<>> THEN config
        ELSE [config EXCEPT
                !.tuns = [i \in DOMAIN @ |-> inbound(@[i])],
                !.autoDetect = @ \/ o.android,
                !.dnsStrategy = IF @ = "no dns" THEN @ ELSE dns_strategy(o.ip),
                !.rules = ensure_dns_hijack_rule_after_resolve(
                            ensure_resolve_rule_after_sniff(@, o.ip, matcher), matcher)]

(***************************************************************************)
(* build_core_config.  The result is a configuration record or Failed.     *)
(***************************************************************************)

Failed == [core |-> "none"]

(* A text that stood in the place of an imported configuration             *)
(* (json_config_value): sing-box takes a number for a configuration and    *)
(* finds no JSON in other texts; xray gets any text.                       *)
IsStray(text) == "stray" \in DOMAIN text

(* sing-box: without a TUN there are no rules and the mixed inbound; with  *)
(* one, queries taken by hijack-dns go to dns-remote, whose detour is the  *)
(* proxy.  On Android the VPN service opens the TUN, so neither its name   *)
(* nor strict routing is asked for.                                        *)
build_sing_box_config(p, o) ==
    IF p.singBoxConfigJson # <<>>
    THEN LET text == p.singBoxConfigJson[1]
         IN  IF IsStray(text) /\ text.stray # "digits" THEN Failed
             ELSE [core |-> "singBox", imported |-> TRUE,
                   config |-> IF IsStray(text) THEN text
                              ELSE apply_native_sing_box_tun_settings(text, o)]
    ELSE IF ~sing_box_outbound_ok(p) THEN Failed
    ELSE [core |-> "singBox", imported |-> FALSE, outbound |-> p,
          inbound |-> IF o.tun THEN "tun-in" ELSE "mixed-in",
          strategy |-> IF o.tun THEN dns_strategy(o.ip) ELSE "no dns",
          named |-> o.tun /\ ~o.android,
          stack |-> IF o.android THEN "gvisor" ELSE "mixed",
          strict |-> o.tun /\ ~o.android /\ ~HasWhitelist(o),
          address |-> IF o.tun THEN tun_addresses(o.ip) ELSE {},
          route |-> IF o.tun THEN tun_route_addresses(o.ip) ELSE {},
          exclude |-> IF o.tun THEN tun_route_excludes(p.server) ELSE {},
          detour |-> IF o.tun THEN "proxy" ELSE "none",
          asks |-> write_sing_box_dns_server(o.dnsMode, o.dns),
          resolver |-> IF o.tun /\ ~o.android THEN "dns-local" ELSE "none",
          autoDetect |-> ~o.tun \/ o.android \/ ~o.routeInterface,
          bound |-> o.tun /\ ~o.android /\ o.routeInterface,
          rules |-> IF o.tun THEN append_sing_box_route_rules(o) ELSE <<>>,
          final |-> route_final(o)]

(* xray: DNS is taken from the TUN, or on Android from the SOCKS inbound   *)
(* that the VPN service feeds.  Only the TUN configuration tags the        *)
(* queries of xray's own DNS client and routes them to the proxy.  The     *)
(* list of applications is not used; the first outbound is the proxy.      *)
build_xray_config(p, o) ==
    LET hev == o.android /\ ~o.tun
        own == Where(LAMBDA c : c.from = "core")
        user == Where(LAMBDA c : c.from = "user")
    IN  IF p.xrayConfigJson # <<>>
        THEN [core |-> "xray", imported |-> TRUE, config |-> p.xrayConfigJson[1]]
        ELSE IF ~xray_outbound_ok(p) THEN Failed
        ELSE [core |-> "xray", imported |-> FALSE, outbound |-> p,
              inbound |-> IF o.tun THEN "tun-in" ELSE "socks-in",
              network |-> xray_network(p.transport),
              dns |-> hev \/ o.tun,
              asks |-> xray_dns_entry(o.dnsMode, o.dns),
              rules |-> When(hev \/ o.tun, Rule(user \cap dns_matcher, "hijack-dns"))
                        \o When(o.tun, Rule(own, "proxy") \o Rule(quic_matcher, "reject"))
                        \o When(Domains(o, "whitelist"), Rule(domain_matcher, "proxy"))
                        \o When(Domains(o, "blacklist"), Rule(domain_matcher, "direct"))
                        \o When(o.domainSplit = "whitelist" /\ (hev \/ o.tun \/ o.domains),
                                Rule(Flow, "direct")),
              final |-> "proxy"]

build_core_config(p, o) ==
    CASE o.core = "singBox" -> build_sing_box_config(p, o)
      [] o.core = "xray" -> build_xray_config(p, o)
      [] OTHER -> Failed

(***************************************************************************)
(* What the built rules promise.                                           *)
(***************************************************************************)

(* The traffic the user wants in the tunnel: not on a blacklist, and on a  *)
(* whitelist if there is one.                                              *)
Wanted(o, c) ==
    LET on(mode) == (o.split = mode /\ o.apps /\ c.app = "listed")
                    \/ (o.domainSplit = mode /\ o.domains /\ c.domain = "listed")
    IN  ~on("blacklist") /\ (HasWhitelist(o) => on("whitelist"))

=============================================================================
