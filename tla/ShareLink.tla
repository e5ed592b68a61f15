------------------------------- MODULE ShareLink -------------------------------
(***************************************************************************)
(* The share links of src/native/share_link_parser.cpp: a link becomes a   *)
(* profile, a profile travels between Dart and the native library as JSON, *)
(* and a configuration that the user imports becomes a profile again.      *)
(*                                                                         *)
(* A link is the record of its parts after URL and Base64 decoding; texts  *)
(* that the code only copies are single values.                            *)
(***************************************************************************)
EXTENDS CoreConfig, Lists

EmptyProfile ==
    [protocol |-> "", server |-> "", port |-> 0, transport |-> "raw",
     tlsMode |-> "none", remark |-> "", userId |-> "", password |-> "",
     method |-> "", security |-> "", alpn |-> <<>>, host |-> "",
     publicKey |-> "", plugin |-> "", serverPorts |-> <<>>, uploadMbps |-> 0,
     downloadMbps |-> 0, obfs |-> "", obfsPassword |-> "",
     singBoxConfigJson |-> <<>>, xrayConfigJson |-> <<>>]

NotParsed == EmptyProfile

(***************************************************************************)
(* Parsing one link.                                                       *)
(***************************************************************************)

(* The port of a URI: a number, a list of ranges (hysteria), or a text     *)
(* that is no number and counts as 0.                                      *)
range_start(item) == CASE item = "1000-2000" -> 1000
                       [] item = "3000" -> 3000
                       [] OTHER -> 0
first_server_port(ports) ==
    LET first == SelectInSeq(ports, LAMBDA item : range_start(item) > 0)
    IN  IF first = 0 THEN 0 ELSE range_start(ports[first])
parse_int(text) == CASE text = "443" -> 443 [] text = "70000" -> 70000 [] OTHER -> 0
uri_ports(text) == IF text = "1000-2000,3000" THEN <<"1000-2000", "3000">> ELSE <<>>
uri_port(text) == IF uri_ports(text) = <<>> THEN parse_int(text)
                  ELSE first_server_port(uri_ports(text))

parse_transport(type) ==
    CASE type \in {"", "tcp", "raw"} -> "raw"
      [] type \in {"h2", "http"} -> "http"
      [] type \in {"httpupgrade", "http-upgrade"} -> "httpUpgrade"
      [] type \in {"xhttp", "splithttp", "split-http"} -> "xhttp"
      [] type \in {"ws", "grpc", "quic"} -> type
      [] OTHER -> "unsupported"

parse_tls_mode(security) ==
    CASE security \in {"tls", "xtls"} -> "tls"
      [] security = "reality" -> "reality"
      [] OTHER -> "none"

Endpoint(l, protocol, port) ==
    [EmptyProfile EXCEPT !.protocol = protocol, !.server = l.host, !.port = port,
                         !.remark = l.remark]

(* A VLESS or Trojan link needs a host, a port and a user; without a       *)
(* security parameter Trojan means TLS.                                    *)
parse_vless_or_trojan(l) ==
    LET trojan == l.scheme = "trojan"
        p == Endpoint(l, l.scheme, uri_port(l.port))
    IN  IF l.host = "" \/ p.port = 0 \/ l.user = ""
           \/ parse_transport(l.type) = "unsupported"
        THEN NotParsed
        ELSE [p EXCEPT !.transport = parse_transport(l.type),
                       !.tlsMode = parse_tls_mode(IF l.security = "" /\ trojan
                                                  THEN "tls" ELSE l.security),
                       !.password = IF trojan THEN l.user ELSE "",
                       !.userId = IF trojan THEN "" ELSE l.user,
                       !.security = IF trojan THEN "" ELSE "none",
                       !.publicKey = l.pbk, !.host = l.hostHeader, !.alpn = l.alpn]

(***************************************************************************)
(* JSON texts, which the library reads without a parser: a field is found  *)
(* by the first occurrence of its quoted name, which may be the text of a  *)
(* field before it, and its value is what follows the next colon, then the *)
(* value of the field after that text.  "order" are the names in the order *)
(* they are written, and "written" the texts that each one's value holds;  *)
(* these hold no colon and no bracket.                                     *)
(***************************************************************************)

(* The field whose value is read for a name; 0 when there is none.         *)
ReadAt(order, written, key) ==
    LET n == SelectInSeq(order, LAMBDA k : k = key \/ key \in written[k])
    IN  IF n = 0 \/ order[n] = key THEN n ELSE n + 1

(* The escape of a control character is read without its backslash; the    *)
(* others are undone.                                                      *)
ControlText == "with a control character"
Unescaped(text) == IF text = ControlText THEN "with u00XX" ELSE text

OrElse(value, default) == IF value = "" THEN default ELSE value

(* The JSON of a VMess link, its fields in the order of v2rayN.            *)
VmessOrder == <<"v", "ps", "add", "port", "id", "aid", "scy", "net", "host",
                "path", "tls", "sni", "alpn", "fp">>
VmessTexts(l) ==
    [v |-> "2", ps |-> l.remark, add |-> l.host, port |-> l.port, id |-> l.user,
     aid |-> "0", scy |-> "", net |-> l.type, host |-> l.hostHeader, path |-> "",
     tls |-> l.security, sni |-> "", alpn |-> IF l.alpn = <<>> THEN "" ELSE l.alpn[1],
     fp |-> ""]
vmess_value(l, key) ==
    LET texts == VmessTexts(l)
        at == ReadAt(VmessOrder, [k \in DOMAIN texts |-> {texts[k]}], key)
    IN  IF at \in DOMAIN VmessOrder THEN Unescaped(texts[VmessOrder[at]]) ELSE ""

(* A VMess link is such a text in Base64: the port must be there, not be a *)
(* number; the REALITY key is not read.                                    *)
parse_vmess(l) ==
    LET value(key) == vmess_value(l, key)
        transport == parse_transport(OrElse(value("net"), value("type")))
        tls == OrElse(value("tls"), value("security"))
    IN  IF "" \in {value("add"), value("port"), value("id")} \/ transport = "unsupported"
        THEN NotParsed
        ELSE [EmptyProfile EXCEPT
                !.protocol = "vmess", !.server = value("add"),
                !.port = parse_int(value("port")), !.remark = value("ps"),
                !.userId = value("id"), !.transport = transport,
                !.tlsMode = IF tls \in {"tls", "reality"} THEN tls ELSE "none",
                !.security = OrElse(OrElse(value("scy"), value("security")), "auto"),
                !.host = value("host"),
                !.alpn = IF value("alpn") \in Blank THEN <<>> ELSE <<value("alpn")>>]

(* Credentials of a Shadowsocks link are method:password, the method not   *)
(* empty; the password may be.                                             *)
parse_shadowsocks(l) ==
    IF l.method = "" \/ l.host = "" \/ uri_port(l.port) = 0 THEN NotParsed
    ELSE [Endpoint(l, "shadowsocks", uri_port(l.port)) EXCEPT
            !.method = l.method, !.password = l.user, !.plugin = l.plugin]

(* Hysteria 2 has a default port and takes the user part as its password;  *)
(* Hysteria needs both bandwidths.                                         *)
parse_hysteria(l) ==
    LET version2 == l.scheme \in {"hysteria2", "hy2"}
        port == IF version2 /\ uri_port(l.port) = 0 THEN 443 ELSE uri_port(l.port)
    IN  IF l.host = "" \/ port = 0 \/ (~version2 /\ (l.up = 0 \/ l.down = 0))
        THEN NotParsed
        ELSE [Endpoint(l, IF version2 THEN "hysteria2" ELSE "hysteria", port) EXCEPT
                !.serverPorts = uri_ports(l.port), !.transport = "quic",
                !.tlsMode = "tls", !.alpn = l.alpn,
                !.uploadMbps = l.up, !.downloadMbps = l.down,
                !.obfs = l.obfs, !.obfsPassword = l.obfsPassword,
                !.password = l.user]

parse_profile(l) ==
    CASE l.scheme \in {"vless", "trojan"} -> parse_vless_or_trojan(l)
      [] l.scheme = "vmess" -> parse_vmess(l)
      [] l.scheme = "ss" -> parse_shadowsocks(l)
      [] l.scheme \in {"hysteria", "hysteria2", "hy2"} -> parse_hysteria(l)
      [] OTHER -> NotParsed

(***************************************************************************)
(* The links of a subscription text.  The text is a sequence of            *)
(* [link, before], where before is what stands between the link and the    *)
(* text before it: "line" (a line break), "space" (or another separator)   *)
(* or "nothing".  A link with nothing before it is no link of its own; it  *)
(* and the texts of other schemes become the tail of the link before them  *)
(* in the line.  Links here end in a fragment, which takes the tail.       *)
(***************************************************************************)

is_share_link_scheme(scheme) ==
    scheme \in {"hysteria2", "hysteria", "vless", "vmess", "trojan", "hy2", "ss"}

is_likely_share_link_boundary(text, i) == i = 1 \/ text[i].before # "nothing"

extract_share_links(text) ==
    LET starts(i) == /\ is_likely_share_link_boundary(text, i)
                     /\ is_share_link_scheme(text[i].link.scheme)
        next(r, i) ==
            CASE starts(i) -> [links |-> Append(r.links, text[i].link), open |-> TRUE]
              [] ~starts(i) /\ r.open /\ text[i].before # "line" ->
                   [r EXCEPT !.links[Len(r.links)].remark = "with a tail"]
              [] OTHER -> [r EXCEPT !.open = FALSE]
        read[i \in 0..Len(text)] ==
            IF i = 0 THEN [links |-> <<>>, open |-> FALSE] ELSE next(read[i - 1], i)
    IN  read[Len(text)].links

(* The profiles of a text: each link once, those that do not parse left    *)
(* out.                                                                    *)
parse_share_links_json(text) ==
    LET links == extract_share_links(text)
        seen(i) == \E j \in 1..(i - 1) : links[j] = links[i]
        kept == Picked(links, {i \in DOMAIN links :
                                 ~seen(i) /\ parse_profile(links[i]) # NotParsed})
    IN  [i \in DOMAIN kept |-> parse_profile(kept[i])]

(***************************************************************************)
(* The profile as JSON.  Dart writes every field, in this order; numbers   *)
(* and missing values are not in quotes.  Of the fields that are not       *)
(* modelled only the place matters.                                        *)
(***************************************************************************)

JsonOrder == <<"protocol", "server", "port", "transport", "tlsMode", "remark",
               "userId", "password", "method", "security", "alterId", "flow",
               "sni", "alpn", "host", "path", "serviceName", "authority",
               "fingerprint", "publicKey", "shortId", "spiderX",
               "allowInsecure", "plugin", "pluginOpts", "serverPorts",
               "uploadMbps", "downloadMbps", "hysteriaNetwork", "obfs",
               "obfsPassword", "singBoxOutboundType", "singBoxConfigJson",
               "singBoxConfigDirectory", "xrayOutboundProtocol",
               "xrayConfigJson", "xrayConfigDirectory">>
NumberFields == {"port", "uploadMbps", "downloadMbps"}
ArrayFields == {"alpn", "serverPorts"}
ConfigFields == {"singBoxConfigJson", "xrayConfigJson"}
TextFields == DOMAIN EmptyProfile \ (NumberFields \cup ArrayFields \cup ConfigFields)

(* The quotes in the text of a configuration are escaped: it holds no name.*)
Written(p) ==
    [k \in ToSet(JsonOrder) |->
        CASE k \in TextFields -> {p[k]}
          [] k \in ArrayFields -> ToSet(p[k])
          [] OTHER -> {}]

(* The field whose value is read for a name.                               *)
Found(p, key) == JsonOrder[ReadAt(JsonOrder, Written(p), key)]

json_string_value(p, key) ==
    CASE Found(p, key) \in TextFields -> Unescaped(p[Found(p, key)])
      [] Found(p, key) \in NumberFields \cup {"alterId"} -> "digits"
      [] OTHER -> "another field"

json_int_value(p, key) ==
    IF Found(p, key) \in NumberFields THEN p[Found(p, key)]
    ELSE parse_int(json_string_value(p, key))

(* An array is what follows the next bracket. *)
json_string_array_value(p, key) ==
    LET at == ReadAt(JsonOrder, Written(p), key)
        array == IF \E n \in DOMAIN JsonOrder : n >= at /\ JsonOrder[n] = "alpn"
                 THEN p.alpn ELSE p.serverPorts
    IN  [i \in DOMAIN array |-> Unescaped(array[i])]

(* The text of a configuration: its own, or the text that was read instead.*)
json_config_value(p, key) ==
    LET text == json_string_value(p, key)
    IN  IF Found(p, key) = key THEN p[key]
        ELSE IF text = "" THEN <<>> ELSE <<[stray |-> text]>>

(* Mutant: a field is not read back. *)
BugProfileFromJson(p) == [p EXCEPT !.serverPorts = <<>>]

profile_from_json(p) ==
    LET read(f) == CASE f = "transport" -> OrElse(json_string_value(p, f), "raw")
                     [] f = "tlsMode" -> OrElse(json_string_value(p, f), "none")
                     [] f \in NumberFields -> json_int_value(p, f)
                     [] f \in ArrayFields -> json_string_array_value(p, f)
                     [] f \in ConfigFields -> json_config_value(p, f)
                     [] OTHER -> json_string_value(p, f)
    IN  [f \in DOMAIN EmptyProfile |-> read(f)]

(***************************************************************************)
(* Importing a configuration: which core it is for, and the endpoint that  *)
(* the app shows for it.  An outbound of an imported sing-box              *)
(* configuration is [type, server, children].                              *)
(***************************************************************************)

(* The keys of a configuration of this app that the scores look at.        *)
ConfigKeys(c) ==
    IF c.core = "xray"
    THEN [root |-> {"inbounds", "outbounds"} \cup (IF c.rules = <<>> THEN {} ELSE {"routing"}),
          route |-> IF c.rules = <<>> THEN {} ELSE {"domainStrategy", "rules"},
          items |-> When(c.inbound = "socks-in", <<{"protocol"}>>)
                    \o <<{"protocol"}, {"protocol", "streamSettings"}>>
                    \o When(c.dns, <<{"protocol"}>>) \o <<{"protocol"}, {"protocol"}>>]
    ELSE [root |-> {"inbounds", "outbounds", "route"},
          route |-> {"final", "auto_detect_interface"}
                    \cup (IF c.rules = <<>> THEN {} ELSE {"rules"})
                    \cup (IF c.resolver = "none" THEN {} ELSE {"default_domain_resolver"})
                    \cup (IF c.bound THEN {"default_interface"} ELSE {}),
          items |-> <<IF c.inbound = "tun-in" THEN {"type"} ELSE {"type", "listen_port"},
                      {"type", "server_port"}
                      \cup (IF c.outbound.transport = "raw" THEN {} ELSE {"transport"})
                      \cup (IF c.outbound.tlsMode = "none" THEN {} ELSE {"tls"}),
                      {"type"}>>]

Score(keys, root, route, item, kind) ==
    LET typed == {i \in DOMAIN keys.items : kind \in keys.items[i]}
        known == {at \in (DOMAIN keys.items) \X item : at[2] \in keys.items[at[1]]}
    IN  3 * Cardinality(keys.root \cap root) + 2 * Cardinality(keys.route \cap route)
        + 6 * Cardinality(typed) + 2 * Cardinality(known)

config_score_xray(keys) ==
    Score(keys, {"routing", "api", "policy", "transport", "stats"},
          {"rules", "balancers", "domainStrategy", "domainMatcher"} \cap
              (IF "routing" \in keys.root THEN keys.route ELSE {}),
          {"streamSettings", "sendThrough", "proxySettings", "mux", "targetStrategy"},
          "protocol")
config_score_sing_box(keys) ==
    Score(keys, {"route", "ntp", "certificate", "endpoints", "services", "experimental"},
          {"rules", "rule_set", "final", "auto_detect_interface", "default_interface",
           "default_domain_resolver"} \cap (IF "route" \in keys.root THEN keys.route ELSE {}),
          {"listen_port", "server_port", "tls", "transport", "dialer"}, "type")

(* Back from the names of the xray stream. *)
fill_xray_stream(p, network) ==
    [p EXCEPT !.transport = network, !.publicKey = ""]

Shown(p) ==
    [EmptyProfile EXCEPT !.protocol = p.protocol, !.server = p.server, !.port = p.port,
        !.userId = p.userId, !.password = p.password, !.method = p.method,
        !.transport = p.transport, !.tlsMode = p.tlsMode, !.alpn = p.alpn,
        !.host = p.host, !.publicKey = p.publicKey]

(* xray writes the REALITY key as "password" and it is read back from      *)
(* "publicKey", so that it is lost; so is the security of a shadowsocks    *)
(* or trojan user.                                                         *)
endpoint_from_xray_outbound(c) ==
    fill_xray_stream([Shown(c.outbound) EXCEPT
        !.security = IF c.outbound.protocol = "vless"
                     THEN OrElse(c.outbound.security, "none")
                     ELSE IF c.outbound.protocol = "vmess"
                     THEN OrElse(c.outbound.security, "auto") ELSE ""], c.network)

(* sing-box has no security for VLESS and shows the transport of the QUIC  *)
(* protocols as raw; a server with a list of ports has no port of its own; *)
(* the password of Hysteria is read from a field that is not written.      *)
endpoint_from_sing_box_outbound(c) ==
    LET p == c.outbound
        ports == IF p.protocol = "hysteria2" THEN p.serverPorts ELSE <<>>
    IN  [Shown(p) EXCEPT
            !.serverPorts = ports,
            !.port = IF ports = <<>> THEN p.port ELSE first_server_port(ports),
            !.password = IF p.protocol = "hysteria" THEN "" ELSE p.password,
            !.security = IF p.protocol = "vmess" THEN OrElse(p.security, "auto") ELSE "",
            !.transport = IF p.protocol \in {"vless", "vmess", "trojan"} THEN p.transport
                          ELSE "raw",
            !.uploadMbps = p.uploadMbps, !.downloadMbps = p.downloadMbps,
            !.obfs = IF p.protocol = "hysteria2" /\ p.obfsPassword # ""
                     THEN OrElse(p.obfs, "salamander") ELSE "",
            !.obfsPassword = p.obfsPassword]

(* Groups (selectors) are followed from the final outbound, depth first,   *)
(* each tag once; "seen" stops at cycles.  A path holds no tag twice, so   *)
(* that it is no longer than there are tags: "depth" is what is left.      *)
HasServer(out) == out.type = "proxy"

GraphTags(outbounds, final) ==
    {final} \cup DOMAIN outbounds
    \cup UNION {ToSet(outbounds[t].children) : t \in DOMAIN outbounds}

(* The children of a group one after another, until one leads to a server. *)
TriedChildren(children, resolve, seen) ==
    LET tried[i \in 0..Len(children)] ==
            IF i = 0 THEN [found |-> "", seen |-> seen]
            ELSE IF tried[i - 1].found # "" THEN tried[i - 1]
            ELSE resolve[tried[i - 1].seen][children[i]]
    IN  tried[Len(children)]

resolve_sing_box_outbound(outbounds, tags) ==
    LET visit(resolve, seen, tag) ==
            IF tag \in seen THEN [found |-> "", seen |-> seen]
            ELSE IF tag \notin DOMAIN outbounds THEN [found |-> "", seen |-> seen \cup {tag}]
            ELSE IF HasServer(outbounds[tag]) THEN [found |-> tag, seen |-> seen \cup {tag}]
            ELSE TriedChildren(outbounds[tag].children, resolve, seen \cup {tag})
        resolved[depth \in 0..Cardinality(tags)] ==
            [seen \in SUBSET tags |-> [tag \in tags |->
                IF depth = 0 THEN [found |-> "", seen |-> seen]
                ELSE visit(resolved[depth - 1], seen, tag)]]
    IN  resolved[Cardinality(tags)]

(* Mutant: the final outbound is not looked at. *)
BugExtractSingBoxEndpoint(outbounds, order, final) ==
    LET first == SelectInSeq(order, LAMBDA t : HasServer(outbounds[t]))
    IN  IF first # 0 THEN order[first] ELSE ""

(* The outbound an imported sing-box configuration is shown with: the one  *)
(* its final outbound leads to, else the first with a server (in "order",  *)
(* the order of the outbounds).                                            *)
extract_sing_box_endpoint(outbounds, order, final) ==
    LET resolve == resolve_sing_box_outbound(outbounds, GraphTags(outbounds, final))
        resolved == resolve[{}][final].found
        first == SelectInSeq(order, LAMBDA t : HasServer(outbounds[t]))
    IN  IF final # "" /\ resolved # "" THEN resolved
        ELSE IF first # 0 THEN order[first] ELSE ""

(* The text of a configuration of this app, as the TUN settings see it.    *)
AsImported(c) ==
    [tuns |-> When(c.inbound = "tun-in",
                   <<[tag |-> "tun-in", address |-> c.address, legacy |-> {},
                      route |-> c.route, exclude |-> c.exclude, mtu |-> 1400,
                      named |-> c.named, strict |-> c.strict, stack |-> c.stack]>>),
     autoDetect |-> c.autoDetect, dnsStrategy |-> c.strategy,
     rules |-> [i \in DOMAIN c.rules |->
                  [action |-> IF c.rules[i].do \in {"direct", "proxy"} THEN "route"
                              ELSE c.rules[i].do,
                   inbound |-> AnyInbound, dns |-> c.rules[i].on \subseteq dns_matcher,
                   narrow |-> c.rules[i].on # dns_matcher,
                   generic |-> TRUE,
                   strategy |-> IF c.rules[i].do = "resolve" THEN c.strategy ELSE ""]]]

(* The profile of an imported configuration: the endpoint to show, the     *)
(* label it was imported with, and the text itself, which is what is run.  *)
core_config_profile(c, label) ==
    LET keys == ConfigKeys(c)
    IN  CASE config_score_sing_box(keys) > config_score_xray(keys) ->
               [endpoint_from_sing_box_outbound(c) EXCEPT
                  !.remark = label, !.singBoxConfigJson = <<AsImported(c)>>]
          [] config_score_xray(keys) > config_score_sing_box(keys) ->
               [endpoint_from_xray_outbound(c) EXCEPT
                  !.remark = label, !.xrayConfigJson = <<c>>]
          [] OTHER -> NotParsed

=============================================================================
