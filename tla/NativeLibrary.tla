----------------------------- MODULE NativeLibrary -----------------------------
(***************************************************************************)
(* The calls the app makes into the native library, one after another, on  *)
(* what the calls before returned: a link is parsed, the profile is built  *)
(* into a configuration, the user copies the configuration and imports it  *)
(* again, and it is built once more.  Beside it run the pings of TcpPing.  *)
(* Each entry point catches every exception and answers with an error.     *)
(***************************************************************************)
EXTENDS ShareLink, TcpPing

CONSTANTS Links,     (* links to parse, each with the options: [link, options] *)
          Texts,     (* subscription texts *)
          Imports,   (* imported configurations: [config, options, shown], *)
                     (* shown the profile without its text *)
          Labels,    (* the labels of imports: a file name, or one typed in *)
          Graphs     (* outbounds of imported configurations *)

(* What the app asks for: outside of TUN mode there is no split tunnel but *)
(* on Android, where xray is fed from SOCKS.  DNS servers are valid for    *)
(* their mode: DoH takes https URLs, in which only an IPv6 address stands  *)
(* in brackets; a bare IPv6 address has no port.                           *)
ValidServer(mode, d) ==
    CASE mode = "doh" -> d.scheme \in {"https", "HTTPS"} /\ d.form \in {"plain", "bracketed"}
      [] mode = "dot" -> d.scheme \in {"", "tls", "TLS"} /\ (d.form = "bare" => d.port = 0)
      [] mode = "classic" -> d.scheme = "" /\ d.port = 0
      [] OTHER -> FALSE
ConfigOptions(o) ==
    /\ o.core \in {"singBox", "xray"} /\ o.split \in Modes /\ o.domainSplit \in Modes
    /\ {o.tun, o.android, o.apps, o.domains} \subseteq BOOLEAN
    /\ ~o.tun /\ ~o.android => o.split = "off" /\ o.domainSplit = "off"
    /\ ValidServer(o.dnsMode, o.dns)

(* The outbounds by their tags, which are not empty, and in their order.   *)
OutboundGraph(g) ==
    /\ IsFiniteSet(DOMAIN g.outbounds) /\ "" \notin DOMAIN g.outbounds
    /\ g.order \in Seq(DOMAIN g.outbounds) /\ ToSet(g.order) = DOMAIN g.outbounds
    /\ \A t \in DOMAIN g.outbounds :
          g.outbounds[t].children \in Seq(ToSet(g.outbounds[t].children))

(* A sing-box configuration from elsewhere: what the settings of the app   *)
(* look at, with any values.                                               *)
TunFields == {"tag", "address", "legacy", "route", "exclude", "mtu", "named",
              "strict", "stack"}
TunInbound(in) == in = [f \in TunFields |-> in[f]]
ImportedConfig(c) ==
    /\ c = [f \in {"tuns", "autoDetect", "dnsStrategy", "rules"} |-> c[f]]
    /\ c.tuns \in Seq(ToSet(c.tuns)) /\ c.rules \in Seq(ToSet(c.rules))
    /\ \A i \in DOMAIN c.tuns : TunInbound(c.tuns[i])

ASSUME NativeLibraryAssumption ==
    /\ \A l \in Links : /\ ConfigOptions(l.options) /\ {l.link.up, l.link.down} \subseteq Nat
                        /\ l.link.alpn \in Seq(ToSet(l.link.alpn))
    /\ \A t \in Texts : t \in Seq(ToSet(t))
    /\ \A i \in Imports : /\ i.options.core = "singBox" /\ ImportedConfig(i.config)
                          /\ DOMAIN i.shown = DOMAIN EmptyProfile
    /\ \A g \in Graphs : OutboundGraph(g)

VARIABLES stage,     (* what the last call returned *)
          input,     (* the text given to the first call *)
          options,   (* of entropy_build_core_config *)
          profile,   (* the profile in Dart *)
          config,    (* the last configuration built *)
          copy       (* the profile made of it *)

libraryVars == <<stage, input, options, profile, config, copy>>
vars == <<libraryVars, pingVars>>

NoOptions == [core |-> "none"]

LibraryIdle == /\ stage = "idle" /\ input = <<>> /\ options = NoOptions
               /\ profile = NotParsed /\ config = Failed /\ copy = NotParsed

Starts(kind, text, asks) ==
    /\ stage = kind /\ input = <<text>> /\ options = asks
    /\ profile = NotParsed /\ config = Failed

(* An import from elsewhere is a profile in Dart already.                  *)
LibraryInit ==
    \/ \E l \in Links : Starts("link", l.link, l.options) /\ copy = NotParsed
    \/ \E t \in Texts : Starts("text", t, NoOptions) /\ copy = NotParsed
    \/ \E i \in Imports : /\ Starts("import", i.config, i.options)
                          /\ copy = [i.shown EXCEPT !.singBoxConfigJson = <<i.config>>]
    \/ \E g \in Graphs : Starts("graph", g, NoOptions) /\ copy = NotParsed

Init == \/ LibraryInit /\ PingIdle
        \/ LibraryIdle /\ PingInit

(* entropy_parse_share_link. *)
ParseShareLink ==
    /\ stage = "link"
    /\ profile' = parse_profile(input[1])
    /\ stage' = IF profile' = NotParsed THEN "error" ELSE "parsed"
    /\ UNCHANGED <<input, options, config, copy, pingVars>>

(* entropy_parse_share_links: no error, at most an empty list. *)
ParseShareLinks ==
    /\ stage = "text"
    /\ profile' = parse_share_links_json(input[1])
    /\ stage' = "listed"
    /\ UNCHANGED <<input, options, config, copy, pingVars>>

(* Where the library has its configuration from: the fields of a profile   *)
(* that was a link, the text of one that was imported; or a text of the    *)
(* profile, misread for the name of the field with that text.              *)
AsWritten(from, c) == IF from = "parsed" THEN ~c.imported
                      ELSE c.imported /\ ~IsStray(c.config)

(* entropy_build_core_config: the profile goes through its JSON text. *)
BuildCoreConfig(from, to) ==
    /\ stage = from
    /\ config' = build_core_config(
                   profile_from_json(IF from = "parsed" THEN profile ELSE copy), options)
    /\ stage' = CASE config' = Failed -> "error"
                  [] config' # Failed /\ AsWritten(from, config') -> to
                  [] OTHER -> "misread"
    /\ UNCHANGED <<input, options, profile, copy, pingVars>>

(* entropy_parse_core_config on a configuration of the app: the *)
(* options stay those of the core it was built for.                        *)
ParseCoreConfig ==
    /\ stage = "built"
    /\ \E label \in Labels : copy' = core_config_profile(config, label)
    /\ stage' = IF copy' = NotParsed THEN "error" ELSE "imported"
    /\ UNCHANGED <<input, options, profile, config, pingVars>>

(* The endpoint shown for a sing-box configuration from elsewhere: the     *)
(* outbound's tag.                                                         *)
ExtractEndpoint ==
    /\ stage = "graph"
    /\ copy' = [EmptyProfile EXCEPT !.server =
                  extract_sing_box_endpoint(input[1].outbounds, input[1].order, input[1].final)]
    /\ stage' = "extracted"
    /\ UNCHANGED <<input, options, profile, config, pingVars>>

LibraryNext ==
    \/ ParseShareLink \/ ParseShareLinks
    \/ BuildCoreConfig("parsed", "built") \/ ParseCoreConfig
    \/ BuildCoreConfig("imported", "rebuilt") \/ BuildCoreConfig("import", "applied")
    \/ ExtractEndpoint

Next == LibraryNext \/ (PingNext /\ UNCHANGED libraryVars)

Spec == Init /\ [][Next]_vars

(***************************************************************************)
(* Properties.                                                             *)
(***************************************************************************)

(* A profile no text of which is the name of a JSON field or holds a       *)
(* control character.                                                      *)
PlainTexts(p) ==
    \A k \in ToSet(JsonOrder) :
        Written(p)[k] \cap (ToSet(JsonOrder) \cup {ControlText}) = {}

Generated == stage \in {"built", "imported", "rebuilt"}

(* A subscription gives a profile for each valid link on a line of its     *)
(* own, whatever the other lines hold, and none for a link twice.          *)
SubscriptionKeepsLinks ==
    stage = "listed" =>
        LET text == input[1]
            alone == {i \in DOMAIN text : /\ i = 1 \/ text[i].before = "line"
                                          /\ i = Len(text) \/ text[i + 1].before = "line"}
        IN  /\ \A i \in alone : parse_profile(text[i].link) # NotParsed =>
                  Contains(profile, parse_profile(text[i].link))
            /\ alone = DOMAIN text =>
                  Len(profile) <= Cardinality({text[i].link : i \in alone})

(* The configuration that is run dials what the link said: the profile     *)
(* survives the two JSON conversions (unless a text of it is misread), and *)
(* a link the parser accepts is run by one of the cores, except for        *)
(* credentials that only a core asks for or that are white space; and a    *)
(* subscription keeps the links it holds.                                  *)
LinkIsDialled ==
    /\ SubscriptionKeepsLinks
    /\ Generated /\ PlainTexts(profile) /\ stage # "rebuilt" =>
          config.outbound = profile
    /\ stage = "misread" /\ copy = NotParsed => ~PlainTexts(profile)
    /\ stage = "error" /\ copy = NotParsed /\ profile # NotParsed /\ PlainTexts(profile) =>
          \/ options.core = "xray"
             /\ (profile.protocol \in {"hysteria", "hysteria2"} \/ profile.transport = "quic"
                 \/ profile.plugin # "" )
          \/ options.core = "singBox" /\ profile.transport = "xhttp"
          \/ profile.tlsMode = "reality" /\ profile.publicKey \in Blank
          \/ profile.protocol = "shadowsocks" /\ profile.password \in Blank
          \/ profile.obfs # "" /\ profile.obfsPassword \in Blank
          \/ " " \in {profile.userId, profile.password, profile.method,
                    profile.obfsPassword}

(* Traffic the user wants tunnelled never goes direct, except to private   *)
(* addresses, and what the user keeps out of the tunnel is never sent      *)
(* through it; a DNS query of tunnelled traffic to a public resolver is    *)
(* answered through the tunnel.  In a sing-box TUN for both lists, with    *)
(* xray for the list of domains: it has no list of applications.           *)
SplitTunnelHonoured ==
    stage = "built" =>
        \A c \in {d \in Flow : d.from = "user"} :
            LET does == Outcome(config.rules, config.final, c)
                lists == IF config.core = "xray" THEN [options EXCEPT !.split = "off"] ELSE options
                exempt == c.private /\ config.core = "singBox"
            IN  config.core = "xray" \/ options.tun =>
                /\ does = "direct" => ~Wanted(lists, c) \/ exempt
                /\ does = "proxy" => Wanted(lists, c)
                /\ Wanted(lists, c) /\ c.dns /\ ~c.quic /\ ~exempt =>
                       does = "hijack-dns" \/ (config.core = "xray" /\ ~config.dns)
                /\ does = "hijack-dns" => c.dns /\ (config.core = "singBox" => config.detour = "proxy")

(* The queries of xray's own DNS client go through the proxy, whatever the *)
(* lists say ("Without this an explicit catch-all ... would swallow them   *)
(* and leak DNS out the physical interface").                              *)
XrayDnsInTunnel ==
    stage = "built" /\ config.core = "xray" /\ config.dns =>
        \A c \in {d \in Flow : d.from = "core"} :
            Outcome(config.rules, config.final, c) = "proxy"

(* The resolver that is asked is the host and the port the user named,     *)
(* with either core; but xray misreads a scheme in capital letters and a   *)
(* bare IPv6 address after a scheme.                                       *)
ResolverAsNamed ==
    stage = "built" /\ options.tun =>
        LET d == options.dns
            default == CASE options.dnsMode = "doh" -> 443 [] options.dnsMode = "dot" -> 853
                         [] OTHER -> 53
            misread == \/ options.dnsMode # "classic" /\ d.scheme \in {"HTTPS", "TLS"}
                       \/ d.form = "bare" /\ d.scheme # ""
        IN  \/ options.core = "xray" /\ misread
            \/ /\ config.asks.host = d.host
               /\ config.asks.port = IF d.port = 0 THEN default ELSE d.port

NarrowHijack(c) ==
    \E j \in DOMAIN c.rules :
        is_dns_hijack_rule(c.rules[j], build_tun_inbound_matcher(c.tuns)) /\ c.rules[j].narrow

(* After the settings of the app are applied to an imported configuration, *)
(* each TUN inbound has an address and, in a single-family mode, no        *)
(* address or route of the other family; a rule that asks for nothing but  *)
(* DNS takes all its queries that no rule before decides, unless the       *)
(* import has a rule for the whole TUN that takes some of them only; and   *)
(* applying the settings again, as each start does, changes nothing.       *)
ImportedTunSettings ==
    stage = "applied" =>
        LET c == config.config
            single == options.ip # "dualStack"
        IN  /\ \A i \in DOMAIN c.tuns : LET in == c.tuns[i] IN
                 /\ single => in.address \cup in.legacy # {}
                 /\ single => in.address \cup in.legacy \cup in.route \cup in.exclude
                              \subseteq tun_addresses(options.ip)
                 /\ \/ NarrowHijack(copy.singBoxConfigJson[1])
                    \/ \E j \in DOMAIN c.rules :
                          /\ c.rules[j].action = "hijack-dns"
                          /\ c.rules[j].dns /\ ~c.rules[j].narrow
                          /\ c.rules[j].inbound = AnyInbound \/ in.tag \in c.rules[j].inbound
            /\ apply_native_sing_box_tun_settings(c, options) = c

(* A configuration that is copied and imported again is known for its      *)
(* core, shows the same server (unless a text that is the name of a field  *)
(* made its list of ports misread), and runs with the same rules and       *)
(* addresses: the settings applied to imports take back nothing that the   *)
(* builder wrote, unless there is a whitelist with nothing on it; and they *)
(* make every import one that can be run.  An import is refused, or        *)
(* another text run in its place, only if a text of its profile is misread.*)
ImportRoundTrip ==
    /\ ImportedTunSettings
    /\ stage \in {"error", "misread"} /\ copy # NotParsed => ~PlainTexts(copy)
    /\ stage \in {"imported", "rebuilt"} =>
          copy.singBoxConfigJson # <<>> <=> options.core = "singBox"
    /\ stage = "imported" =>
          \A f \in {"protocol", "server", "port", "userId", "method", "serverPorts"} :
              \/ copy[f] = config.outbound[f]
              \/ f = "serverPorts" /\ copy.protocol # "hysteria2"
              \/ f = "port" /\ ~PlainTexts(profile)
    /\ stage = "rebuilt" /\ options.core = "xray" => <<config.config>> = copy.xrayConfigJson
    /\ stage = "rebuilt" /\ options.core = "singBox"
       /\ (HasWhitelist(options) => Apps(options, "whitelist") \/ Domains(options, "whitelist")) =>
          LET built == copy.singBoxConfigJson[1]
              run == config.config
          IN  /\ run.rules = built.rules /\ run.dnsStrategy = built.dnsStrategy
              /\ \A i \in DOMAIN run.tuns : /\ run.tuns[i].address = built.tuns[i].address
                                           /\ run.tuns[i].exclude \subseteq built.tuns[i].exclude

(* The server shown for an imported configuration is one its final         *)
(* outbound leads to, whenever it leads to one; groups that contain        *)
(* themselves do no harm.                                                  *)
ShownServerIsReached ==
    stage = "extracted" =>
        LET g == input[1]
            tags == DOMAIN g.outbounds
            holds(t) == HasServer(g.outbounds[t])
            closed(C) == \A t \in C \cap tags :
                            ~holds(t) => ToSet(g.outbounds[t].children) \subseteq C
            reached == {t \in tags : /\ holds(t)
                                     /\ \A C \in SUBSET GraphTags(g.outbounds, g.final) :
                                           g.final \in C /\ closed(C) => t \in C}
            shown == copy.server
        IN  IF reached # {} THEN shown \in reached
            ELSE shown = "" <=> \A t \in tags : ~holds(t)

=============================================================================
