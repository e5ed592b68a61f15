-------------------------- MODULE NativeLibraryProofs --------------------------
(***************************************************************************)
(* The calls of NativeLibrary and the pings beside them, for any links,    *)
(* subscriptions, imports, outbound graphs and ping requests: what the     *)
(* rules of a built configuration do with a connection                     *)
(* (SplitTunnelHonoured), the resolver it asks (ResolverAsNamed), what the *)
(* pings answer (PingsAreTheirTargets), the server shown for an imported   *)
(* configuration (ShownServerIsReached), the link that is dialled          *)
(* (LinkIsDialled) and what becomes of a configuration that is imported    *)
(* again (ImportRoundTrip).                                                *)
(*                                                                         *)
(* What a list, a rule list or a recursive function gives is proved once   *)
(* for every length: the sets of numbers for which it holds contain 0 and  *)
(* are closed under successor (Inductive).                                 *)
(***************************************************************************)
EXTENDS NativeLibrary, SequenceTheorems, FiniteSetTheorems, WellFoundedInduction, TLAPS

-----------------------------------------------------------------------------
(* Numbers: a set of them has a least one; one that holds 0 and every      *)
(* successor of its members holds them all.                                *)
LEMMA LeastNat == ASSUME NEW T, T \subseteq Nat, T # {}
  PROVE \E n \in T : \A m \in T : n <= m
<1> DEFINE R == {ss \in Nat \X Nat : ss[1] < ss[2]}
<1>1. IsWellFoundedOn(R, Nat)
  BY NatLessThanWellFounded DEF OpToRel
<1>2. \A m, n \in Nat : m < n => <<m, n>> \in R
  OBVIOUS
<1> HIDE DEF R
<1>3. \E n \in T : \A m \in T : ~(<<m, n>> \in R)
  BY <1>1, WFMin
<1>4. PICK n \in T : \A m \in T : ~(<<m, n>> \in R) BY <1>3
<1>5. n \in Nat /\ \A m \in T : m \in Nat /\ ~(m < n) BY <1>2, <1>4
<1>6. \A m \in T : n <= m BY <1>5
<1> QED BY <1>6

LEMMA Inductive ==
  ASSUME NEW S, 0 \in S, \A n \in Nat : n \in S => n + 1 \in S
  PROVE Nat \subseteq S
<1> DEFINE T == Nat \ S
<1> SUFFICES ASSUME T # {} PROVE FALSE
  OBVIOUS
<1>1. PICK n \in T : \A m \in T : n <= m
  BY LeastNat
<1>2. n \in Nat /\ n # 0 /\ n \notin S
  OBVIOUS
<1>3. n - 1 \in Nat /\ n - 1 \notin T
  BY <1>1, <1>2
<1>4. n - 1 \in S
  BY <1>3
<1> QED BY <1>2, <1>3, <1>4

-----------------------------------------------------------------------------
(* Lists, of whatever members.                                             *)
IsList(s) == \E S : s \in Seq(S)

LEMMA ListFacts ==
  ASSUME NEW s, IsList(s)
  PROVE  /\ Len(s) \in Nat /\ DOMAIN s = 1 .. Len(s) /\ (s = <<>> <=> Len(s) = 0)
         /\ s # <<>> => /\ Head(s) = s[1] /\ IsList(Tail(s)) /\ Len(Tail(s)) = Len(s) - 1
                        /\ \A i \in 1 .. Len(s) - 1 : Tail(s)[i] = s[i + 1]
<1>1. PICK S : s \in Seq(S) BY DEF IsList
<1>2. Len(s) \in Nat /\ DOMAIN s = 1 .. Len(s) /\ (s = <<>> <=> Len(s) = 0)
  BY <1>1, EmptySeq, LenProperties
<1>3. s # <<>> => Head(s) = s[1] /\ IsList(Tail(s))
  BY <1>1, HeadTailProperties DEF IsList
<1>4. s # <<>> => /\ Len(Tail(s)) = Len(s) - 1
                  /\ \A i \in 1 .. Len(s) - 1 : Tail(s)[i] = s[i + 1]
  BY <1>1, HeadTailProperties
<1> QED BY <1>2, <1>3, <1>4

LEMMA ListOf == IsList(<<>>) /\ \A x : IsList(<<x>>)
<1>1. <<>> \in Seq({}) OBVIOUS
<1>2. \A x : <<x>> \in Seq({x}) OBVIOUS
<1> QED BY <1>1, <1>2 DEF IsList

LEMMA ConcatLists ==
  ASSUME NEW a, NEW b, IsList(a), IsList(b)
  PROVE  /\ IsList(a \o b) /\ Len(a \o b) = Len(a) + Len(b)
         /\ \A i \in DOMAIN (a \o b) :
              \/ i \in DOMAIN a /\ (a \o b)[i] = a[i]
              \/ i - Len(a) \in DOMAIN b /\ (a \o b)[i] = b[i - Len(a)]
         /\ \A i \in DOMAIN (a \o b) :
              (a \o b)[i] = IF i <= Len(a) THEN a[i] ELSE b[i - Len(a)]
         /\ a \o b = <<>> => a = <<>> /\ b = <<>>
<1>1. PICK A : a \in Seq(A) BY DEF IsList
<1>2. PICK B : b \in Seq(B) BY DEF IsList
<1> DEFINE S == A \cup B
<1>3. a \in Seq(S) /\ b \in Seq(S) BY <1>1, <1>2, SeqMonotonic
<1> HIDE DEF S
<1>4. /\ a \o b \in Seq(S) /\ Len(a \o b) = Len(a) + Len(b)
      /\ \A i \in 1 .. Len(a) + Len(b) :
           (a \o b)[i] = IF i <= Len(a) THEN a[i] ELSE b[i - Len(a)]
  BY <1>3, ConcatProperties
<1>5. a \o b = <<>> => a = <<>> /\ b = <<>> BY <1>3, ConcatEqualIffEmpty
<1>6. IsList(a \o b) BY <1>4 DEF IsList
<1>7. /\ Len(a) \in Nat /\ DOMAIN a = 1 .. Len(a) /\ Len(b) \in Nat /\ DOMAIN b = 1 .. Len(b)
      /\ DOMAIN (a \o b) = 1 .. Len(a \o b)
  BY <1>6, ListFacts
<1>8. \A i \in 1 .. Len(a) + Len(b) :
        IF i <= Len(a) THEN i \in 1 .. Len(a) ELSE i - Len(a) \in 1 .. Len(b)
  BY <1>7
<1> QED BY <1>4, <1>5, <1>6, <1>7, <1>8

LEMMA AppendList ==
  ASSUME NEW s, NEW x, IsList(s)
  PROVE  /\ IsList(Append(s, x)) /\ Append(s, x) # <<>>
         /\ Len(Append(s, x)) = Len(s) + 1 /\ Append(s, x)[Len(s) + 1] = x
         /\ \A i \in 1 .. Len(s) : Append(s, x)[i] = s[i]
<1>1. PICK S : s \in Seq(S) BY DEF IsList
<1>2. s \in Seq(S \cup {x}) BY <1>1, SeqMonotonic
<1>3. /\ Append(s, x) \in Seq(S \cup {x}) /\ Len(Append(s, x)) = Len(s) + 1
      /\ Append(s, x)[Len(s) + 1] = x /\ Append(s, x) # <<>>
      /\ \A i \in 1 .. Len(s) : Append(s, x)[i] = s[i]
  BY <1>2, AppendProperties
<1> QED BY <1>3 DEF IsList

LEMMA MappedList ==
  ASSUME NEW n \in Nat, NEW f, f = [i \in 1 .. n |-> f[i]]
  PROVE  IsList(f) /\ Len(f) = n
<1> DEFINE S == {f[i] : i \in 1 .. n}
<1>1. f \in [1 .. n -> S] OBVIOUS
<1>2. f \in Seq(S) BY <1>1, SeqDef
<1>3. DOMAIN f = 1 .. n /\ DOMAIN f = 1 .. Len(f) /\ Len(f) \in Nat
  BY <1>1, <1>2, LenProperties
<1>4. \A i \in Nat : i \in 1 .. n <=> i \in 1 .. Len(f) BY <1>3
<1>5. n \in 1 .. n \/ n = 0 OBVIOUS
<1>6. Len(f) \in 1 .. Len(f) \/ Len(f) = 0 BY <1>3
<1>7. Len(f) = n BY <1>3, <1>4, <1>5, <1>6
<1> QED BY <1>2, <1>7 DEF IsList

-----------------------------------------------------------------------------
(* Rule lists.  The rules that decide on a connection; the first of them   *)
(* is what Outcome finds, and two lists one after the other give what the  *)
(* first finds, else what the second does.                                 *)
Hits(rules, c) == {i \in 1 .. Len(rules) : Decides(rules[i]) /\ c \in rules[i].on}

(* What Min returns.                                                       *)
LEMMA FirstIs ==
  ASSUME NEW S, S \subseteq Nat, S # {}
  PROVE  Min(S) \in S /\ \A y \in S : Min(S) <= y
<1>1. \E x \in S : \A y \in S : x <= y BY LeastNat
<1> QED BY <1>1 DEF Min

LEMMA OutcomeIs ==
  ASSUME NEW rules, NEW final, NEW c, IsList(rules)
  PROVE  /\ Hits(rules, c) = {} => Outcome(rules, final, c) = final
         /\ \A i \in Hits(rules, c) :
              (\A k \in Hits(rules, c) : i <= k) => Outcome(rules, final, c) = rules[i].do
<1> DEFINE I == {i \in 1 .. Len(rules) : Decides(rules[i]) /\ c \in rules[i].on}
           hit == SelectInSeq(rules, LAMBDA r : Decides(r) /\ c \in r.on)
<1>1. I = Hits(rules, c) BY DEF Hits
<1>2. hit = IF I # {} THEN Min(I) ELSE 0 BY DEF SelectInSeq
<1>3. Outcome(rules, final, c) = IF hit = 0 THEN final ELSE rules[hit].do
  BY DEF Outcome
<1>4. Len(rules) \in Nat BY ListFacts
<1>5. I \subseteq Nat \ {0} BY <1>4
<1> HIDE DEF I, hit
<1>6. I # {} => Min(I) \in I /\ \A y \in I : Min(I) <= y BY <1>5, FirstIs
<1>7. I = {} => Outcome(rules, final, c) = final BY <1>2, <1>3
<1>8. ASSUME NEW i \in I, \A k \in I : i <= k PROVE Outcome(rules, final, c) = rules[i].do
  <2> DEFINE m == Min(I)
  <2>1. m = i
    <3>1. m \in I /\ m <= i BY <1>6
    <3>2. i <= m BY <1>8, <3>1
    <3>3. m \in Nat /\ i \in Nat BY <1>5, <3>1
    <3> QED BY <3>1, <3>2, <3>3
  <2>2. i # 0 BY <1>5
  <2> QED BY <1>2, <1>3, <2>1, <2>2
<1> QED BY <1>1, <1>7, <1>8

LEMMA OutcomeJoined ==
  ASSUME NEW a, NEW b, NEW final, NEW c, IsList(a), IsList(b)
  PROVE  Outcome(a \o b, final, c) = Outcome(a, Outcome(b, final, c), c)
<1> DEFINE n == Len(a)
           ab == a \o b
<1>1. /\ IsList(ab) /\ Len(ab) = n + Len(b) /\ n \in Nat /\ Len(b) \in Nat
      /\ DOMAIN a = 1 .. n /\ DOMAIN b = 1 .. Len(b) /\ DOMAIN ab = 1 .. n + Len(b)
  BY ConcatLists, ListFacts
<1>2. /\ \A i \in 1 .. n : ab[i] = a[i]
      /\ \A i \in 1 .. Len(b) : ab[n + i] = b[i]
  <2>1. \A i \in DOMAIN ab : \/ i \in DOMAIN a /\ ab[i] = a[i]
                             \/ i - n \in DOMAIN b /\ ab[i] = b[i - n]
    BY ConcatLists
  <2>2. ASSUME NEW i \in 1 .. n PROVE ab[i] = a[i]
    <3>1. i \in DOMAIN ab /\ ~(i - n \in DOMAIN b) BY <1>1
    <3> QED BY <2>1, <3>1
  <2>3. ASSUME NEW i \in 1 .. Len(b) PROVE ab[n + i] = b[i]
    <3>1. n + i \in DOMAIN ab /\ ~(n + i \in DOMAIN a) /\ n + i - n = i BY <1>1
    <3> QED BY <2>1, <3>1
  <2> QED BY <2>2, <2>3
<1> HIDE DEF n, ab
<1>3. \A i \in 1 .. n : i \in Hits(ab, c) <=> i \in Hits(a, c)
  BY <1>1, <1>2 DEF Hits, n
<1>4. \A i \in 1 .. Len(b) : n + i \in Hits(ab, c) <=> i \in Hits(b, c)
  <2>1. \A i \in 1 .. Len(b) : n + i \in 1 .. Len(ab) BY <1>1
  <2> QED BY <1>2, <2>1 DEF Hits
<1>5. /\ Hits(a, c) \subseteq 1 .. n /\ Hits(b, c) \subseteq 1 .. Len(b)
      /\ Hits(ab, c) \subseteq 1 .. n + Len(b)
  BY <1>1 DEF Hits, n
<1>6. CASE Hits(a, c) # {}
  <2>1. PICK i \in Hits(a, c) : \A k \in Hits(a, c) : i <= k
    <3>1. Hits(a, c) \subseteq Nat BY <1>1, <1>5
    <3> QED BY <1>6, <3>1, LeastNat
  <2>2. i \in Hits(ab, c) /\ \A k \in Hits(ab, c) : i <= k
    <3>1. i \in 1 .. n /\ i \in Hits(ab, c) BY <1>3, <1>5
    <3>2. ASSUME NEW k \in Hits(ab, c) PROVE i <= k
      <4>1. k \in 1 .. n + Len(b) BY <1>5
      <4>2. CASE k \in 1 .. n BY <1>3, <2>1, <4>2
      <4>3. CASE k > n BY <1>1, <3>1, <4>1, <4>3
      <4> QED BY <1>1, <4>1, <4>2, <4>3
    <3> QED BY <3>1, <3>2
  <2>3. Outcome(ab, final, c) = ab[i].do BY <1>1, <2>2, OutcomeIs
  <2>4. Outcome(a, Outcome(b, final, c), c) = a[i].do BY <2>1, OutcomeIs
  <2> QED BY <1>2, <1>5, <2>3, <2>4 DEF ab
<1>7. CASE Hits(a, c) = {} /\ Hits(b, c) # {}
  <2>1. PICK i \in Hits(b, c) : \A k \in Hits(b, c) : i <= k
    <3>1. Hits(b, c) \subseteq Nat BY <1>1, <1>5
    <3> QED BY <1>7, <3>1, LeastNat
  <2>2. i \in 1 .. Len(b) BY <1>5
  <2>3. n + i \in Hits(ab, c) /\ \A k \in Hits(ab, c) : n + i <= k
    <3>1. n + i \in Hits(ab, c) BY <1>4, <2>2
    <3>2. ASSUME NEW k \in Hits(ab, c) PROVE n + i <= k
      <4>1. k \in 1 .. n + Len(b) /\ ~(k \in 1 .. n) BY <1>3, <1>5, <1>7
      <4>2. k - n \in 1 .. Len(b) /\ n + (k - n) = k BY <1>1, <4>1
      <4>3. k - n \in Hits(b, c) BY <1>4, <4>2
      <4> QED BY <1>1, <2>1, <2>2, <4>1, <4>3
    <3> QED BY <3>1, <3>2
  <2>4. Outcome(ab, final, c) = ab[n + i].do BY <1>1, <2>3, OutcomeIs
  <2>5. Outcome(b, final, c) = b[i].do BY <2>1, OutcomeIs
  <2>6. Outcome(a, Outcome(b, final, c), c) = Outcome(b, final, c) BY <1>7, OutcomeIs
  <2> QED BY <1>2, <2>2, <2>4, <2>5, <2>6 DEF ab
<1>8. CASE Hits(a, c) = {} /\ Hits(b, c) = {}
  <2>1. Hits(ab, c) = {}
    <3> SUFFICES ASSUME NEW k \in Hits(ab, c) PROVE FALSE OBVIOUS
    <3>1. k \in 1 .. n + Len(b) /\ ~(k \in 1 .. n) BY <1>3, <1>5, <1>8
    <3>2. k - n \in 1 .. Len(b) /\ n + (k - n) = k BY <1>1, <3>1
    <3> QED BY <1>4, <1>8, <3>2
  <2> QED BY <1>1, <1>8, <2>1, OutcomeIs DEF ab
<1> QED BY <1>6, <1>7, <1>8

LEMMA OutcomeNone ==
  ASSUME NEW final, NEW c PROVE IsList(<<>>) /\ Outcome(<<>>, final, c) = final
<1>1. Hits(<<>>, c) = {} BY DEF Hits
<1> QED BY <1>1, ListOf, OutcomeIs

LEMMA OutcomeRule ==
  ASSUME NEW on, NEW do, NEW final, NEW c
  PROVE  /\ IsList(Rule(on, do))
         /\ Outcome(Rule(on, do), final, c) =
              IF do \notin {"sniff", "resolve"} /\ c \in on THEN do ELSE final
<1> DEFINE rules == <<[on |-> on, do |-> do]>>
<1>1. /\ IsList(rules) /\ Len(rules) = 1
      /\ rules[1].on = on /\ rules[1].do = do
  BY ListOf
<1>2. rules = Rule(on, do) BY DEF Rule
<1> HIDE DEF rules
<1>3. \A i \in 1 .. Len(rules) : i = 1 BY <1>1
<1>4. Hits(rules, c) = IF do \notin {"sniff", "resolve"} /\ c \in on THEN {1} ELSE {}
  BY <1>1, <1>3 DEF Hits, Decides
<1>5. CASE do \notin {"sniff", "resolve"} /\ c \in on
  <2>1. Hits(rules, c) = {1} BY <1>4, <1>5
  <2>2. Outcome(rules, final, c) = rules[1].do BY <1>1, <2>1, OutcomeIs
  <2> QED BY <1>1, <1>2, <1>5, <2>2
<1>6. CASE ~(do \notin {"sniff", "resolve"} /\ c \in on)
  BY <1>1, <1>2, <1>4, <1>6, OutcomeIs
<1> QED BY <1>5, <1>6

LEMMA OutcomeWhen ==
  ASSUME NEW cond, NEW rules, NEW final, NEW c, IsList(rules)
  PROVE  /\ IsList(When(cond, rules))
         /\ Outcome(When(cond, rules), final, c) =
              IF cond THEN Outcome(rules, final, c) ELSE final
BY OutcomeNone DEF When

(* The options the rules depend on.                                        *)
Routed(o) ==
  /\ o.core \in {"singBox", "xray"} /\ o.split \in Modes /\ o.domainSplit \in Modes
  /\ o.tun \in BOOLEAN /\ o.android \in BOOLEAN /\ o.apps \in BOOLEAN
  /\ o.domains \in BOOLEAN

LEMMA OutcomeIf ==
  ASSUME NEW cond, NEW on, NEW do, NEW final, NEW c, do \notin {"sniff", "resolve"}
  PROVE  /\ IsList(When(cond, Rule(on, do)))
         /\ Outcome(When(cond, Rule(on, do)), final, c) =
              IF cond /\ c \in on THEN do ELSE final
<1>1. IsList(Rule(on, do)) BY OutcomeRule
<1>2. Outcome(Rule(on, do), final, c) = IF c \in on THEN do ELSE final BY OutcomeRule
<1> QED BY <1>1, <1>2, OutcomeWhen

(* What the rules written for sing-box do with a connection, in closed     *)
(* form: with a whitelist, and without one.                                *)
LEMMA WhitelistOutcome ==
  ASSUME NEW o, NEW final, NEW c \in Flow, HasWhitelist(o)
  PROVE  Outcome(append_sing_box_route_rules(o), final, c) =
           IF c.quic THEN "reject" ELSE IF c.private THEN "direct"
           ELSE IF Apps(o, "blacklist") /\ c.app = "listed" THEN "direct"
           ELSE IF Domains(o, "blacklist") /\ c.domain = "listed" THEN "direct"
           ELSE IF Apps(o, "whitelist") /\ c.app = "listed" /\ c.dns THEN "hijack-dns"
           ELSE IF Domains(o, "whitelist") /\ c.domain = "listed" /\ c.dns THEN "hijack-dns"
           ELSE IF Apps(o, "whitelist") /\ c.app = "listed" THEN "proxy"
           ELSE IF Domains(o, "whitelist") /\ c.domain = "listed" THEN "proxy"
           ELSE final
<1> DEFINE r1 == Rule(Flow, "sniff")
           r2 == Rule(Flow, "resolve")
           r3 == Rule(quic_matcher, "reject")
           r4 == Rule(private_matcher, "direct")
           r5 == When(Apps(o, "blacklist"), Rule(process_matcher, "direct"))
           r6 == When(Domains(o, "blacklist"), Rule(domain_matcher, "direct"))
           r7 == When(Apps(o, "whitelist"), Rule(process_matcher \cap dns_matcher, "hijack-dns"))
           r8 == When(Domains(o, "whitelist"), Rule(domain_matcher \cap dns_matcher, "hijack-dns"))
           r9 == When(Apps(o, "whitelist"), Rule(process_matcher, "proxy"))
           r10 == When(Domains(o, "whitelist"), Rule(domain_matcher, "proxy"))
<1>1. append_sing_box_route_rules(o) =
        r1 \o r2 \o (r3 \o r4 \o (r5 \o r6) \o (r7 \o r8) \o (r9 \o r10))
  BY DEF append_sing_box_route_rules
<1>2. /\ \A f : IsList(r1) /\ Outcome(r1, f, c) = f
      /\ \A f : IsList(r2) /\ Outcome(r2, f, c) = f
  BY OutcomeRule
<1>3. /\ \A f : IsList(r3) /\ Outcome(r3, f, c) = IF c.quic THEN "reject" ELSE f
      /\ \A f : IsList(r4) /\ Outcome(r4, f, c) = IF c.private THEN "direct" ELSE f
  BY OutcomeRule DEF quic_matcher, private_matcher, Where
<1>4. /\ \A f : IsList(r5) /\ Outcome(r5, f, c) =
           IF Apps(o, "blacklist") /\ c.app = "listed" THEN "direct" ELSE f
      /\ \A f : IsList(r6) /\ Outcome(r6, f, c) =
           IF Domains(o, "blacklist") /\ c.domain = "listed" THEN "direct" ELSE f
      /\ \A f : IsList(r7) /\ Outcome(r7, f, c) =
           IF Apps(o, "whitelist") /\ c.app = "listed" /\ c.dns THEN "hijack-dns" ELSE f
      /\ \A f : IsList(r8) /\ Outcome(r8, f, c) =
           IF Domains(o, "whitelist") /\ c.domain = "listed" /\ c.dns THEN "hijack-dns" ELSE f
      /\ \A f : IsList(r9) /\ Outcome(r9, f, c) =
           IF Apps(o, "whitelist") /\ c.app = "listed" THEN "proxy" ELSE f
      /\ \A f : IsList(r10) /\ Outcome(r10, f, c) =
           IF Domains(o, "whitelist") /\ c.domain = "listed" THEN "proxy" ELSE f
  BY OutcomeIf DEF process_matcher, domain_matcher, dns_matcher, Where
<1> HIDE DEF r1, r2, r3, r4, r5, r6, r7, r8, r9, r10
<1>5. /\ IsList(r1 \o r2) /\ IsList(r3 \o r4) /\ IsList(r5 \o r6) /\ IsList(r7 \o r8)
      /\ IsList(r9 \o r10)
  BY <1>2, <1>3, <1>4, ConcatLists
<1> DEFINE a == r3 \o r4 \o (r5 \o r6)
           b == a \o (r7 \o r8)
           d == b \o (r9 \o r10)
<1>6. IsList(a) /\ IsList(b) /\ IsList(d) BY <1>5, ConcatLists
<1> DEFINE f10 == Outcome(r9 \o r10, final, c)
           f8 == Outcome(r7 \o r8, f10, c)
           f6 == Outcome(r5 \o r6, f8, c)
<1>7. Outcome(append_sing_box_route_rules(o), final, c) = Outcome(r1 \o r2, Outcome(d, final, c), c)
  BY <1>1, <1>5, <1>6, OutcomeJoined
<1>8. Outcome(d, final, c) = Outcome(r3 \o r4, f6, c)
  BY <1>5, <1>6, OutcomeJoined
<1>9. \A f : Outcome(r1 \o r2, f, c) = f BY <1>2, OutcomeJoined
<1>10. Outcome(r3 \o r4, f6, c) = IF c.quic THEN "reject" ELSE IF c.private THEN "direct" ELSE f6
  BY <1>3, OutcomeJoined
<1>11. f6 = IF Apps(o, "blacklist") /\ c.app = "listed" THEN "direct"
            ELSE IF Domains(o, "blacklist") /\ c.domain = "listed" THEN "direct" ELSE f8
  BY <1>4, OutcomeJoined
<1>12. f8 = IF Apps(o, "whitelist") /\ c.app = "listed" /\ c.dns THEN "hijack-dns"
            ELSE IF Domains(o, "whitelist") /\ c.domain = "listed" /\ c.dns THEN "hijack-dns"
            ELSE f10
  BY <1>4, OutcomeJoined
<1>13. f10 = IF Apps(o, "whitelist") /\ c.app = "listed" THEN "proxy"
             ELSE IF Domains(o, "whitelist") /\ c.domain = "listed" THEN "proxy" ELSE final
  BY <1>4, OutcomeJoined
<1> HIDE DEF f6, f8, f10, d
<1> QED BY <1>7, <1>8, <1>9, <1>10, <1>11, <1>12, <1>13

LEMMA BlacklistOutcome ==
  ASSUME NEW o, NEW final, NEW c \in Flow, ~HasWhitelist(o)
  PROVE  Outcome(append_sing_box_route_rules(o), final, c) =
           IF HasBlacklist(o)
           THEN IF c.private THEN "direct"
                ELSE IF Apps(o, "blacklist") /\ c.app = "listed" THEN "direct"
                ELSE IF Domains(o, "blacklist") /\ c.domain = "listed" THEN "direct"
                ELSE IF c.dns THEN "hijack-dns" ELSE IF c.quic THEN "reject" ELSE final
           ELSE IF c.dns THEN "hijack-dns" ELSE IF c.quic THEN "reject"
                ELSE IF c.private THEN "direct" ELSE final
<1> DEFINE r1 == Rule(Flow, "sniff")
           r2 == Rule(Flow, "resolve")
           r3 == Rule(private_matcher, "direct")
           r4 == When(Apps(o, "blacklist"), Rule(process_matcher, "direct"))
           r5 == When(Domains(o, "blacklist"), Rule(domain_matcher, "direct"))
           r6 == Rule(dns_matcher, "hijack-dns")
           r7 == Rule(quic_matcher, "reject")
<1>1. append_sing_box_route_rules(o) =
        r1 \o r2 \o (IF HasBlacklist(o) THEN r3 \o (r4 \o r5) \o r6 \o r7
                     ELSE r6 \o r7 \o r3)
  BY DEF append_sing_box_route_rules
<1>2. /\ \A f : IsList(r1) /\ Outcome(r1, f, c) = f
      /\ \A f : IsList(r2) /\ Outcome(r2, f, c) = f
  BY OutcomeRule
<1>3. /\ \A f : IsList(r3) /\ Outcome(r3, f, c) = IF c.private THEN "direct" ELSE f
      /\ \A f : IsList(r6) /\ Outcome(r6, f, c) = IF c.dns THEN "hijack-dns" ELSE f
      /\ \A f : IsList(r7) /\ Outcome(r7, f, c) = IF c.quic THEN "reject" ELSE f
  BY OutcomeRule DEF quic_matcher, private_matcher, dns_matcher, Where
<1>4. /\ \A f : IsList(r4) /\ Outcome(r4, f, c) =
           IF Apps(o, "blacklist") /\ c.app = "listed" THEN "direct" ELSE f
      /\ \A f : IsList(r5) /\ Outcome(r5, f, c) =
           IF Domains(o, "blacklist") /\ c.domain = "listed" THEN "direct" ELSE f
  BY OutcomeIf DEF process_matcher, domain_matcher, Where
<1> HIDE DEF r1, r2, r3, r4, r5, r6, r7
<1>5. IsList(r1 \o r2) /\ \A f : Outcome(r1 \o r2, f, c) = f
  BY <1>2, OutcomeJoined, ConcatLists
<1>6. CASE HasBlacklist(o)
  <2> DEFINE a == r3 \o (r4 \o r5)
             f7 == Outcome(r7, final, c)
             f6 == Outcome(r6, f7, c)
             f4 == Outcome(r4 \o r5, f6, c)
  <2>1. IsList(r4 \o r5) /\ IsList(a) /\ IsList(a \o r6) /\ IsList(a \o r6 \o r7)
    BY <1>3, <1>4, ConcatLists
  <2>2. Outcome(append_sing_box_route_rules(o), final, c) = Outcome(a \o r6 \o r7, final, c)
    BY <1>1, <1>5, <1>6, <2>1, OutcomeJoined
  <2>3. Outcome(a \o r6 \o r7, final, c) = Outcome(a, f6, c)
    BY <1>3, <2>1, OutcomeJoined
  <2>4. Outcome(a, f6, c) = IF c.private THEN "direct" ELSE f4
    BY <1>3, <2>1, OutcomeJoined
  <2>5. f4 = IF Apps(o, "blacklist") /\ c.app = "listed" THEN "direct"
             ELSE IF Domains(o, "blacklist") /\ c.domain = "listed" THEN "direct" ELSE f6
    BY <1>4, OutcomeJoined
  <2>6. f6 = IF c.dns THEN "hijack-dns" ELSE IF c.quic THEN "reject" ELSE final
    BY <1>3
  <2> HIDE DEF f4, f6, a
  <2> QED BY <1>6, <2>2, <2>3, <2>4, <2>5, <2>6
<1>7. CASE ~HasBlacklist(o)
  <2> DEFINE f3 == Outcome(r3, final, c)
  <2>1. IsList(r6 \o r7) /\ IsList(r6 \o r7 \o r3) BY <1>3, ConcatLists
  <2>2. Outcome(append_sing_box_route_rules(o), final, c) = Outcome(r6 \o r7 \o r3, final, c)
    BY <1>1, <1>5, <1>7, <2>1, OutcomeJoined
  <2>3. Outcome(r6 \o r7 \o r3, final, c) = Outcome(r6, Outcome(r7, f3, c), c)
    BY <1>3, <2>1, OutcomeJoined
  <2>4. f3 = IF c.private THEN "direct" ELSE final BY <1>3
  <2> HIDE DEF f3
  <2> QED BY <1>3, <1>7, <2>2, <2>3, <2>4
<1> QED BY <1>6, <1>7

(* What the user asked of a connection, and what is done with it.          *)
Honoured(lists, c, does, exempt, hijacked) ==
  /\ does = "direct" => ~Wanted(lists, c) \/ exempt
  /\ does = "proxy" => Wanted(lists, c)
  /\ Wanted(lists, c) /\ c.dns /\ ~c.quic /\ ~exempt => does = "hijack-dns" \/ ~hijacked
  /\ does = "hijack-dns" => c.dns

(* Both cores honour what the user asked; xray the list of domains only.   *)
LEMMA SingBoxHonours ==
  ASSUME NEW o, Routed(o), NEW c \in Flow
  PROVE  Honoured(o, c, Outcome(append_sing_box_route_rules(o), route_final(o), c),
                  c.private, TRUE)
<1> DEFINE does == Outcome(append_sing_box_route_rules(o), route_final(o), c)
<1>1. CASE HasWhitelist(o)
  <2>1. route_final(o) = "direct" BY <1>1 DEF route_final
  <2>2. does = IF c.quic THEN "reject" ELSE IF c.private THEN "direct"
               ELSE IF Apps(o, "blacklist") /\ c.app = "listed" THEN "direct"
               ELSE IF Domains(o, "blacklist") /\ c.domain = "listed" THEN "direct"
               ELSE IF Apps(o, "whitelist") /\ c.app = "listed" /\ c.dns THEN "hijack-dns"
               ELSE IF Domains(o, "whitelist") /\ c.domain = "listed" /\ c.dns THEN "hijack-dns"
               ELSE IF Apps(o, "whitelist") /\ c.app = "listed" THEN "proxy"
               ELSE IF Domains(o, "whitelist") /\ c.domain = "listed" THEN "proxy"
               ELSE "direct"
    BY <1>1, <2>1, WhitelistOutcome
  <2> HIDE DEF does
  <2> QED BY <1>1, <2>2 DEF Honoured, Wanted, Apps, Domains, does
<1>2. CASE ~HasWhitelist(o)
  <2>1. route_final(o) = "proxy" BY <1>2 DEF route_final
  <2>2. does = IF HasBlacklist(o)
           THEN IF c.private THEN "direct"
                ELSE IF Apps(o, "blacklist") /\ c.app = "listed" THEN "direct"
                ELSE IF Domains(o, "blacklist") /\ c.domain = "listed" THEN "direct"
                ELSE IF c.dns THEN "hijack-dns" ELSE IF c.quic THEN "reject" ELSE "proxy"
           ELSE IF c.dns THEN "hijack-dns" ELSE IF c.quic THEN "reject"
                ELSE IF c.private THEN "direct" ELSE "proxy"
    BY <1>2, <2>1, BlacklistOutcome
  <2> HIDE DEF does
  <2> QED BY <1>2, <2>2 DEF Honoured, Wanted, Apps, Domains, HasBlacklist, does
<1> QED BY <1>1, <1>2

(* The rules of build_xray_config.                                         *)
XrayRules(o) ==
  LET hev == o.android /\ ~o.tun
      own == Where(LAMBDA c : c.from = "core")
      user == Where(LAMBDA c : c.from = "user")
  IN  When(hev \/ o.tun, Rule(user \cap dns_matcher, "hijack-dns"))
      \o When(o.tun, Rule(own, "proxy") \o Rule(quic_matcher, "reject"))
      \o When(Domains(o, "whitelist"), Rule(domain_matcher, "proxy"))
      \o When(Domains(o, "blacklist"), Rule(domain_matcher, "direct"))
      \o When(o.domainSplit = "whitelist" /\ (hev \/ o.tun \/ o.domains),
              Rule(Flow, "direct"))

LEMMA XrayOutcome ==
  ASSUME NEW o, Routed(o), NEW c \in Flow, c.from = "user"
  PROVE  Outcome(XrayRules(o), "proxy", c) =
           IF (o.android \/ o.tun) /\ c.dns THEN "hijack-dns"
           ELSE IF o.tun /\ c.quic THEN "reject"
           ELSE IF Domains(o, "whitelist") /\ c.domain = "listed" THEN "proxy"
           ELSE IF Domains(o, "blacklist") /\ c.domain = "listed" THEN "direct"
           ELSE IF o.domainSplit = "whitelist" /\ (o.android \/ o.tun \/ o.domains)
                THEN "direct" ELSE "proxy"
<1> DEFINE hev == o.android /\ ~o.tun
           own == Where(LAMBDA d : d.from = "core")
           user == Where(LAMBDA d : d.from = "user")
           k1 == hev \/ o.tun
           k5 == o.domainSplit = "whitelist" /\ (hev \/ o.tun \/ o.domains)
           r1 == When(k1, Rule(user \cap dns_matcher, "hijack-dns"))
           r2 == When(o.tun, Rule(own, "proxy") \o Rule(quic_matcher, "reject"))
           r3 == When(Domains(o, "whitelist"), Rule(domain_matcher, "proxy"))
           r4 == When(Domains(o, "blacklist"), Rule(domain_matcher, "direct"))
           r5 == When(k5, Rule(Flow, "direct"))
<1>1. XrayRules(o) = r1 \o r2 \o r3 \o r4 \o r5 BY DEF XrayRules
<1>2. \A f : IsList(r1) /\ Outcome(r1, f, c) =
               IF (o.android \/ o.tun) /\ c.dns THEN "hijack-dns" ELSE f
  <2>1. c \in user \cap dns_matcher <=> c.dns BY DEF dns_matcher, Where
  <2>2. k1 <=> o.android \/ o.tun BY DEF Routed
  <2> HIDE DEF user, k1
  <2> QED BY <2>1, <2>2, OutcomeIf
<1>3. \A f : IsList(r2) /\ Outcome(r2, f, c) = IF o.tun /\ c.quic THEN "reject" ELSE f
  <2>1. \A f : IsList(Rule(own, "proxy")) /\ Outcome(Rule(own, "proxy"), f, c) = f
    BY OutcomeRule DEF Where
  <2>2. \A f : /\ IsList(Rule(quic_matcher, "reject"))
               /\ Outcome(Rule(quic_matcher, "reject"), f, c) = IF c.quic THEN "reject" ELSE f
    BY OutcomeRule DEF quic_matcher, Where
  <2> HIDE DEF own
  <2> DEFINE r == Rule(own, "proxy") \o Rule(quic_matcher, "reject")
  <2>3. \A f : IsList(r) /\ Outcome(r, f, c) = IF c.quic THEN "reject" ELSE f
    BY <2>1, <2>2, OutcomeJoined, ConcatLists
  <2> HIDE DEF r
  <2>4. \A f : IsList(When(o.tun, r))
               /\ Outcome(When(o.tun, r), f, c) = IF o.tun THEN Outcome(r, f, c) ELSE f
    BY <2>3, OutcomeWhen
  <2> QED BY <2>3, <2>4 DEF r
<1>4. /\ \A f : IsList(r3) /\ Outcome(r3, f, c) =
           IF Domains(o, "whitelist") /\ c.domain = "listed" THEN "proxy" ELSE f
      /\ \A f : IsList(r4) /\ Outcome(r4, f, c) =
           IF Domains(o, "blacklist") /\ c.domain = "listed" THEN "direct" ELSE f
      /\ \A f : IsList(r5) /\ Outcome(r5, f, c) =
           IF o.domainSplit = "whitelist" /\ (o.android \/ o.tun \/ o.domains)
           THEN "direct" ELSE f
  <2>1. c \in domain_matcher <=> c.domain = "listed" BY DEF domain_matcher, Where
  <2>2. k5 <=> o.domainSplit = "whitelist" /\ (o.android \/ o.tun \/ o.domains)
    BY DEF Routed
  <2> HIDE DEF k5
  <2> QED BY <2>1, <2>2, OutcomeIf
<1> HIDE DEF r1, r2, r3, r4, r5
<1>5. IsList(r1 \o r2) /\ IsList(r1 \o r2 \o r3) /\ IsList(r1 \o r2 \o r3 \o r4)
  BY <1>2, <1>3, <1>4, ConcatLists
<1> DEFINE f5 == Outcome(r5, "proxy", c)
           f4 == Outcome(r4, f5, c)
           f3 == Outcome(r3, f4, c)
           f2 == Outcome(r2, f3, c)
<1>6. Outcome(XrayRules(o), "proxy", c) = Outcome(r1 \o r2 \o r3, f4, c)
  BY <1>1, <1>4, <1>5, OutcomeJoined
<1>7. Outcome(r1 \o r2 \o r3, f4, c) = Outcome(r1, f2, c)
  BY <1>2, <1>3, <1>4, <1>5, OutcomeJoined
<1> QED BY <1>2, <1>3, <1>4, <1>6, <1>7

LEMMA XrayHonours ==
  ASSUME NEW o, Routed(o), ~o.android /\ ~o.tun => o.domainSplit = "off",
         NEW c \in Flow, c.from = "user"
  PROVE  Honoured([o EXCEPT !.split = "off"], c, Outcome(XrayRules(o), "proxy", c), FALSE,
                  o.android \/ o.tun)
<1> DEFINE lists == [o EXCEPT !.split = "off"]
<1>1. /\ lists.split = "off" /\ lists.domainSplit = o.domainSplit
      /\ lists.apps = o.apps /\ lists.domains = o.domains
  BY DEF Routed
<1> HIDE DEF lists
<1>2. HasWhitelist(lists) <=> o.domainSplit = "whitelist" BY <1>1 DEF HasWhitelist
<1>3. Wanted(lists, c) <=>
        /\ ~(o.domainSplit = "blacklist" /\ o.domains /\ c.domain = "listed")
        /\ o.domainSplit = "whitelist" => o.domains /\ c.domain = "listed"
  BY <1>1, <1>2 DEF Wanted, Routed
<1> HIDE DEF lists
<1> QED BY <1>3, XrayOutcome DEF Honoured, Routed, Modes, Domains, lists

-----------------------------------------------------------------------------
(* The configurations that are built of the fields of a profile.           *)
(* What the builder makes of them for sing-box.                            *)
MadeForSingBox(c, p, o) ==
  /\ c.core = "singBox" /\ p.singBoxConfigJson = <<>>
  /\ c.outbound = p /\ c.asks = write_sing_box_dns_server(o.dnsMode, o.dns)
  /\ c.final = route_final(o) /\ c.detour = IF o.tun THEN "proxy" ELSE "none"
  /\ c.rules = IF o.tun THEN append_sing_box_route_rules(o) ELSE <<>>
  /\ c.inbound = IF o.tun THEN "tun-in" ELSE "mixed-in"
  /\ c.strategy = IF o.tun THEN dns_strategy(o.ip) ELSE "no dns"
  /\ c.address = IF o.tun THEN tun_addresses(o.ip) ELSE {}

LEMMA SingBoxIs ==
  ASSUME NEW p, NEW o, o.core = "singBox",
         NEW c, c = build_core_config(p, o), c # Failed, ~c.imported
  PROVE  MadeForSingBox(c, p, o)
<1>0. c = build_sing_box_config(p, o) BY DEF build_core_config
<1>1. p.singBoxConfigJson = <<>>
  <2> SUFFICES ASSUME p.singBoxConfigJson # <<>> PROVE FALSE OBVIOUS
  <2> DEFINE text == p.singBoxConfigJson[1]
             run == IF IsStray(text) THEN text ELSE apply_native_sing_box_tun_settings(text, o)
  <2>1. c = [core |-> "singBox", imported |-> TRUE, config |-> run]
    BY <1>0, Zenon DEF build_sing_box_config
  <2> HIDE DEF run
  <2>2. c.imported BY <2>1
  <2> QED BY <2>2
<1> DEFINE inbound == IF o.tun THEN "tun-in" ELSE "mixed-in"
           strategy == IF o.tun THEN dns_strategy(o.ip) ELSE "no dns"
           named == o.tun /\ ~o.android
           stack == IF o.android THEN "gvisor" ELSE "mixed"
           strict == o.tun /\ ~o.android /\ ~HasWhitelist(o)
           address == IF o.tun THEN tun_addresses(o.ip) ELSE {}
           route == IF o.tun THEN tun_route_addresses(o.ip) ELSE {}
           exclude == IF o.tun THEN tun_route_excludes(p.server) ELSE {}
           detour == IF o.tun THEN "proxy" ELSE "none"
           asks == write_sing_box_dns_server(o.dnsMode, o.dns)
           resolver == IF o.tun /\ ~o.android THEN "dns-local" ELSE "none"
           autoDetect == ~o.tun \/ o.android \/ ~o.routeInterface
           bound == o.tun /\ ~o.android /\ o.routeInterface
           rules == IF o.tun THEN append_sing_box_route_rules(o) ELSE <<>>
           final == route_final(o)
<1>2. c = [core |-> "singBox", imported |-> FALSE, outbound |-> p, inbound |-> inbound,
           strategy |-> strategy, named |-> named, stack |-> stack, strict |-> strict,
           address |-> address, route |-> route, exclude |-> exclude, detour |-> detour,
           asks |-> asks, resolver |-> resolver, autoDetect |-> autoDetect,
           bound |-> bound, rules |-> rules, final |-> final]
  BY <1>0, <1>1, Zenon DEF build_sing_box_config
<1> HIDE DEF inbound, strategy, named, stack, strict, address, route, exclude, detour, asks,
         resolver, autoDetect, bound, rules, final
<1>3. c.core = "singBox" /\ c.outbound = p /\ c.asks = asks /\ c.final = final
      /\ c.detour = detour /\ c.rules = rules
      /\ c.inbound = inbound /\ c.strategy = strategy /\ c.address = address
  BY <1>2
<1> QED
  BY <1>1, <1>3
  DEF MadeForSingBox, detour, asks, rules, final, inbound, strategy, address

(* And for either core.                                                    *)
LEMMA BuiltIs ==
  ASSUME NEW p, NEW o, Routed(o),
         NEW c, c = build_core_config(p, o), c # Failed, ~c.imported
  PROVE  \/ /\ o.core = "singBox" /\ c.core = "singBox"
            /\ c.outbound = p /\ c.asks = write_sing_box_dns_server(o.dnsMode, o.dns)
            /\ c.final = route_final(o) /\ c.detour = IF o.tun THEN "proxy" ELSE "none"
            /\ c.rules = IF o.tun THEN append_sing_box_route_rules(o) ELSE <<>>
         \/ /\ o.core = "xray" /\ c.core = "xray"
            /\ p.xrayConfigJson = <<>> /\ ~IsStray(c)
            /\ c.outbound = p /\ c.asks = xray_dns_entry(o.dnsMode, o.dns)
            /\ c.final = "proxy" /\ c.rules = XrayRules(o)
            /\ (c.dns <=> o.android \/ o.tun)
<1>1. CASE o.core = "singBox"
  <2>1. MadeForSingBox(c, p, o) BY <1>1, SingBoxIs
  <2> QED BY <1>1, <2>1 DEF MadeForSingBox
<1>2. CASE o.core = "xray"
  <2>0. c = build_xray_config(p, o) BY <1>2 DEF build_core_config
  <2>1. p.xrayConfigJson = <<>>
    <3> SUFFICES ASSUME p.xrayConfigJson # <<>> PROVE FALSE OBVIOUS
    <3> DEFINE run == p.xrayConfigJson[1]
    <3>1. c = [core |-> "xray", imported |-> TRUE, config |-> run]
      BY <2>0, Zenon DEF build_xray_config
    <3> HIDE DEF run
    <3>2. c.imported BY <3>1
    <3> QED BY <3>2
  <2> DEFINE inbound == IF o.tun THEN "tun-in" ELSE "socks-in"
             network == xray_network(p.transport)
             dns == (o.android /\ ~o.tun) \/ o.tun
             asks == xray_dns_entry(o.dnsMode, o.dns)
             rules == XrayRules(o)
  <2>2. c = [core |-> "xray", imported |-> FALSE, outbound |-> p, inbound |-> inbound,
             network |-> network, dns |-> dns, asks |-> asks, rules |-> rules,
             final |-> "proxy"]
    BY <2>0, <2>1, Zenon DEF build_xray_config, XrayRules
  <2>3. dns <=> o.android \/ o.tun BY DEF Routed
  <2> HIDE DEF inbound, network, dns, asks, rules
  <2>4. c.core = "xray" /\ c.outbound = p /\ c.asks = asks /\ c.final = "proxy"
        /\ c.rules = rules /\ c.dns = dns /\ ~IsStray(c)
    BY <2>2 DEF IsStray
  <2> QED BY <1>2, <2>1, <2>3, <2>4 DEF asks, rules
<1>3. CASE o.core \notin {"singBox", "xray"} BY <1>3 DEF build_core_config
<1> QED BY <1>1, <1>2, <1>3

(* What the last call left: options the app may give, and a configuration  *)
(* that was built of the fields of a profile.                              *)
LibInv ==
  /\ stage \in {"link", "parsed", "built", "imported", "rebuilt"} => ConfigOptions(options)
  /\ stage = "built" =>
       \E p : config = build_core_config(p, options) /\ config # Failed /\ ~config.imported

LEMMA LibInit == Init => LibInv
BY NativeLibraryAssumption DEF Init, LibraryInit, LibraryIdle, Starts, LibInv

LEMMA LibStep == LibInv /\ [Next]_vars => LibInv'
<1> SUFFICES ASSUME LibInv, [Next]_vars PROVE LibInv' OBVIOUS
<1>1. CASE ParseShareLink BY <1>1 DEF ParseShareLink, LibInv
<1>2. CASE ParseShareLinks BY <1>2 DEF ParseShareLinks, LibInv
<1>3. CASE BuildCoreConfig("parsed", "built")
  <2>1. /\ stage = "parsed" /\ options' = options
        /\ config' = build_core_config(profile_from_json(profile), options)
        /\ stage' = "built" => config' # Failed /\ ~config'.imported
        /\ stage' \in {"error", "built", "misread"}
    BY <1>3 DEF BuildCoreConfig, AsWritten
  <2>2. stage' = "built" =>
          \E p : config' = build_core_config(p, options') /\ config' # Failed /\ ~config'.imported
    BY <2>1
  <2> QED BY <2>1, <2>2 DEF LibInv
<1>4. CASE BuildCoreConfig("imported", "rebuilt") BY <1>4 DEF BuildCoreConfig, LibInv
<1>5. CASE ParseCoreConfig BY <1>5 DEF ParseCoreConfig, LibInv
<1>6. CASE BuildCoreConfig("import", "applied") BY <1>6 DEF BuildCoreConfig, LibInv
<1>7. CASE ExtractEndpoint BY <1>7 DEF ExtractEndpoint, LibInv
<1>8. CASE UNCHANGED libraryVars BY <1>8 DEF libraryVars, LibInv
<1> QED BY <1>1, <1>2, <1>3, <1>4, <1>5, <1>6, <1>7, <1>8 DEF Next, LibraryNext, vars

LEMMA SplitHonoured == LibInv => SplitTunnelHonoured
<1> SUFFICES ASSUME LibInv, stage = "built", NEW c \in Flow, c.from = "user",
                    config.core = "xray" \/ options.tun
             PROVE  LET does == Outcome(config.rules, config.final, c)
                        lists == IF config.core = "xray" THEN [options EXCEPT !.split = "off"]
                                 ELSE options
                        exempt == c.private /\ config.core = "singBox"
                    IN  /\ does = "direct" => ~Wanted(lists, c) \/ exempt
                        /\ does = "proxy" => Wanted(lists, c)
                        /\ Wanted(lists, c) /\ c.dns /\ ~c.quic /\ ~exempt =>
                             does = "hijack-dns" \/ (config.core = "xray" /\ ~config.dns)
                        /\ does = "hijack-dns" =>
                             c.dns /\ (config.core = "singBox" => config.detour = "proxy")
  BY DEF SplitTunnelHonoured
<1>1. Routed(options) /\ (~options.tun /\ ~options.android => options.domainSplit = "off")
  BY DEF LibInv, ConfigOptions, Routed
<1>2. PICK p : config = build_core_config(p, options) /\ config # Failed /\ ~config.imported
  BY DEF LibInv
<1>3. CASE /\ config.core = "singBox" /\ config.final = route_final(options)
           /\ config.detour = IF options.tun THEN "proxy" ELSE "none"
           /\ config.rules = IF options.tun THEN append_sing_box_route_rules(options) ELSE <<>>
  <2>1. Honoured(options, c, Outcome(config.rules, config.final, c), c.private, TRUE)
    BY <1>1, <1>3, SingBoxHonours
  <2> QED BY <1>3, <2>1 DEF Honoured
<1>4. CASE /\ config.core = "xray" /\ config.final = "proxy" /\ config.rules = XrayRules(options)
           /\ (config.dns <=> options.android \/ options.tun)
  <2>1. Honoured([options EXCEPT !.split = "off"], c, Outcome(config.rules, config.final, c),
                 FALSE, options.android \/ options.tun)
    BY <1>1, <1>4, XrayHonours
  <2>2. config.dns <=> options.android \/ options.tun BY <1>1, <1>4 DEF Routed
  <2> QED BY <1>4, <2>1, <2>2 DEF Honoured
<1> QED BY <1>1, <1>2, <1>3, <1>4, BuiltIs

(* The fields of what a core is told to ask.                               *)
LEMMA AskedFields ==
  ASSUME NEW h, NEW n, NEW t, NEW r, r = [host |-> h, port |-> n, path |-> t]
  PROVE  r.host = h /\ r.port = n
OBVIOUS

LEMMA ResolverKept == LibInv => ResolverAsNamed
<1> SUFFICES ASSUME LibInv, stage = "built", options.tun PROVE ResolverAsNamed
  BY DEF ResolverAsNamed
<1>1. ValidServer(options.dnsMode, options.dns) /\ Routed(options)
  BY DEF LibInv, ConfigOptions, Routed
<1>2. PICK p : config = build_core_config(p, options) /\ config # Failed /\ ~config.imported
  BY DEF LibInv
<1>3. CASE options.core = "singBox"
           /\ config.asks = write_sing_box_dns_server(options.dnsMode, options.dns)
  <2> DEFINE d == options.dns
             default == CASE options.dnsMode = "doh" -> 443
                          [] options.dnsMode = "dot" -> 853 [] OTHER -> 53
  <2>1. d.form = "bare" => d.port = 0
    BY <1>1 DEF ValidServer
  <2>2. options.dnsMode = "classic" => d.port = 0 BY <1>1 DEF ValidServer
  <2>3. options.dnsMode \in {"doh", "dot", "classic"} BY <1>1 DEF ValidServer
  <2>4. /\ config.asks.host = d.host
        /\ config.asks.port = IF d.port = 0 THEN default ELSE d.port
    <3>1. CASE options.dnsMode = "doh"
      <4>1. config.asks = parse_doh_server(d) BY <1>3, <3>1 DEF write_sing_box_dns_server
      <4> DEFINE host == d.host
                 port == IF d.form = "bare" \/ d.port = 0 THEN 443 ELSE d.port
                 path == IF d.path = "" THEN "/dns-query" ELSE d.path
      <4>2. config.asks = [host |-> host, port |-> port, path |-> path]
        BY <4>1, Zenon DEF parse_doh_server
      <4> HIDE DEF host, port, path
      <4>3. config.asks.host = host /\ config.asks.port = port BY <4>2, AskedFields
      <4>4. port = IF d.port = 0 THEN default ELSE d.port
        BY <2>1, <3>1 DEF port
      <4> QED BY <4>3, <4>4 DEF host
    <3>2. CASE options.dnsMode = "dot"
      <4>1. config.asks = parse_dot_server(d) BY <1>3, <3>2 DEF write_sing_box_dns_server
      <4> DEFINE host == d.host
                 port == IF d.form = "bare" \/ d.port = 0 THEN 853 ELSE d.port
                 path == ""
      <4>2. config.asks = [host |-> host, port |-> port, path |-> path]
        BY <4>1, Zenon DEF parse_dot_server
      <4> HIDE DEF host, port, path
      <4>3. config.asks.host = host /\ config.asks.port = port BY <4>2, AskedFields
      <4>4. port = IF d.port = 0 THEN default ELSE d.port
        BY <2>1, <3>2 DEF port
      <4> QED BY <4>3, <4>4 DEF host
    <3>3. CASE options.dnsMode = "classic"
      <4>1. config.asks = [host |-> d.host, port |-> 53, path |-> ""]
        BY <1>3, <3>3 DEF write_sing_box_dns_server
      <4> DEFINE host == d.host
                 port == 53
                 path == ""
      <4>2. config.asks = [host |-> host, port |-> port, path |-> path] BY <4>1
      <4> HIDE DEF host, port, path
      <4>4. config.asks.host = host /\ config.asks.port = port BY <4>2, AskedFields
      <4>3. d.port = 0 /\ default = 53 BY <2>2, <3>3
      <4> QED BY <4>3, <4>4 DEF host, port
    <3> QED BY <2>3, <3>1, <3>2, <3>3
  <2> QED BY <2>4 DEF ResolverAsNamed
<1>4. CASE options.core = "xray" /\ config.asks = xray_dns_entry(options.dnsMode, options.dns)
  <2> DEFINE d == options.dns
             misread == \/ options.dnsMode # "classic" /\ d.scheme \in {"HTTPS", "TLS"}
                        \/ d.form = "bare" /\ d.scheme # ""
             default == CASE options.dnsMode = "doh" -> 443
                          [] options.dnsMode = "dot" -> 853 [] OTHER -> 53
             known == d.scheme = (IF options.dnsMode = "doh" THEN "https" ELSE "tls")
             host == CASE d.scheme # "" /\ ~known -> d.scheme
                       [] d.form = "bare" /\ (known \/ options.dnsMode = "doh") -> "truncated"
                       [] OTHER -> d.host
             port == IF d.port # 0 THEN d.port ELSE IF options.dnsMode = "doh" THEN 443 ELSE 853
  <2>1. CASE options.dnsMode = "classic"
    <3>1. config.asks = [host |-> d.host, port |-> 53, path |-> ""]
      BY <1>4, <2>1 DEF xray_dns_entry
    <3>2. d.port = 0 BY <1>1, <2>1 DEF ValidServer
    <3>3. default = 53 BY <2>1
    <3> DEFINE name == d.host
               number == 53
               text == ""
    <3>4. config.asks = [host |-> name, port |-> number, path |-> text] BY <3>1
    <3> HIDE DEF name, number, text
    <3>5. config.asks.host = name /\ config.asks.port = number BY <3>4, AskedFields
    <3>6. config.asks.host = d.host
          /\ config.asks.port = IF d.port = 0 THEN default ELSE d.port
      BY <3>2, <3>3, <3>5 DEF name, number
    <3> QED BY <3>6 DEF ResolverAsNamed
  <2>2. CASE options.dnsMode \in {"doh", "dot"} /\ ~misread
    <3>1. config.asks = [host |-> host, port |-> port, path |-> d.path]
      BY <1>4, <2>2, Zenon DEF xray_dns_entry
    <3>2. host = d.host BY <1>1, <2>2 DEF ValidServer
    <3>3. port = IF d.port = 0 THEN default ELSE d.port
      <4>1. options.dnsMode = "doh" \/ options.dnsMode = "dot" BY <2>2
      <4>2. CASE options.dnsMode = "doh"
        <5>1. default = 443 BY <4>2
        <5>2. port = IF d.port # 0 THEN d.port ELSE 443 BY <4>2
        <5> HIDE DEF d, port, default
        <5> QED BY <5>1, <5>2
      <4>3. CASE options.dnsMode = "dot"
        <5>1. default = 853 BY <4>3
        <5>2. port = IF d.port # 0 THEN d.port ELSE 853 BY <4>3
        <5> HIDE DEF d, port, default
        <5> QED BY <5>1, <5>2
      <4> QED BY <4>1, <4>2, <4>3
    <3> HIDE DEF host, port
    <3>4. config.asks.host = d.host
          /\ config.asks.port = IF d.port = 0 THEN default ELSE d.port
      BY <3>1, <3>2, <3>3
    <3> QED BY <3>4 DEF ResolverAsNamed
  <2>3. CASE misread BY <1>4, <2>3 DEF ResolverAsNamed
  <2>4. options.dnsMode \in {"doh", "dot", "classic"} BY <1>1 DEF ValidServer
  <2> QED BY <2>1, <2>2, <2>3, <2>4
<1> QED BY <1>1, <1>2, <1>3, <1>4, BuiltIs

(* SplitTunnelHonoured: whatever the lists and the modes, the order of the *)
(* rules keeps wanted traffic in the tunnel, unwanted traffic out of it,   *)
(* and the DNS queries of wanted traffic on the resolver of the tunnel     *)
(* (append_sing_box_route_rules, build_xray_config).                       *)
THEOREM TunnelSplitsAsAsked == Spec => []SplitTunnelHonoured
BY LibInit, LibStep, SplitHonoured, PTL DEF Spec

(* ResolverAsNamed: the host and the port of the server the user typed are *)
(* those the core is told to ask, but for the texts that xray misreads     *)
(* (write_sing_box_dns_server, xray_dns_entry).                            *)
THEOREM ResolverIsTheUsers == Spec => []ResolverAsNamed
BY LibInit, LibStep, ResolverKept, PTL DEF Spec
-----------------------------------------------------------------------------
(* The members of S up to k in their order: what InOrder lists and Picked  *)
(* takes.                                                                  *)
Listed(s, S, k) ==
  /\ IsList(s)
  /\ \A i \in 1 .. Len(s) : s[i] \in 1 .. k /\ s[i] \in S
  /\ \A i, j \in 1 .. Len(s) : i < j => s[i] < s[j]
  /\ \A m \in 1 .. k : m \in S => \E i \in 1 .. Len(s) : s[i] = m

LEMMA InOrderLists == ASSUME NEW n \in Nat, NEW S PROVE Listed(InOrder(S, n), S, n)
<1> DEFINE Step(f, i) == IF i = 0 THEN <<>> ELSE IF i \in S THEN Append(f[i - 1], i)
                         ELSE f[i - 1]
           Defined(f, k) == f = [i \in 0 .. k |-> Step(f, i)]
           K == {k \in Nat : \E f : Defined(f, k)}
           upTo == CHOOSE f : Defined(f, n)
<1>1. 0 \in K
  <2> DEFINE f == [i \in 0 .. 0 |-> <<>>]
  <2>1. \A i \in 0 .. 0 : i = 0 OBVIOUS
  <2>2. Defined(f, 0) BY <2>1
  <2> QED BY <2>2
<1>2. ASSUME NEW k \in Nat, k \in K PROVE k + 1 \in K
  <2>1. PICK f : Defined(f, k) BY <1>2
  <2> DEFINE g == [i \in 0 .. k + 1 |-> IF i = k + 1 THEN Step(f, k + 1) ELSE f[i]]
  <2>2. \A i \in 0 .. k : i \in 0 .. k + 1 /\ i # k + 1 OBVIOUS
  <2>3. \A i \in 0 .. k : g[i] = f[i] BY <2>2
  <2>4. \A i \in 0 .. k + 1 : i = 0 \/ i - 1 \in 0 .. k OBVIOUS
  <2>5. \A i \in 0 .. k + 1 : Step(g, i) = Step(f, i) BY <2>3, <2>4
  <2>6. \A i \in 0 .. k : f[i] = Step(f, i) BY <2>1
  <2>7. \A i \in 0 .. k + 1 : i = k + 1 \/ i \in 0 .. k OBVIOUS
  <2> HIDE DEF Step
  <2>8. \A i \in 0 .. k + 1 : g[i] = Step(g, i) BY <2>5, <2>6, <2>7
  <2>9. Defined(g, k + 1) BY <2>8
  <2> HIDE DEF Defined, g
  <2> QED BY <2>9
<1> HIDE DEF K
<1>3. Nat \subseteq K BY <1>1, <1>2, Inductive
<1>4. Defined(upTo, n)
  <2>1. \E f : Defined(f, n) BY <1>3 DEF K
  <2> HIDE DEF Defined
  <2> QED BY <2>1
<1>5. InOrder(S, n) = upTo[n] BY DEF InOrder
<1> HIDE DEF upTo
<1>6. \A i \in 0 .. n : upTo[i] = Step(upTo, i) BY <1>4
<1> DEFINE L == {k \in Nat : k <= n => Listed(upTo[k], S, k)}
<1>7. 0 \in L
  <2>1. upTo[0] = <<>> BY <1>6
  <2>2. IsList(<<>>) /\ Len(<<>>) = 0 BY ListOf
  <2> QED BY <2>1, <2>2 DEF Listed
<1>8. ASSUME NEW k \in Nat, k \in L PROVE k + 1 \in L
  <2> SUFFICES ASSUME k + 1 <= n PROVE Listed(upTo[k + 1], S, k + 1) OBVIOUS
  <2> DEFINE s == upTo[k]
             t == upTo[k + 1]
  <2>1. Listed(s, S, k) BY <1>8
  <2>2. t = IF k + 1 \in S THEN Append(s, k + 1) ELSE s
    <3>1. k + 1 \in 0 .. n /\ k + 1 # 0 /\ k + 1 - 1 = k OBVIOUS
    <3> QED BY <1>6, <3>1
  <2> HIDE DEF s, t
  <2>3. Len(s) \in Nat BY <2>1, ListFacts DEF Listed
  <2>4. CASE k + 1 \notin S
    <3>1. \A m \in 1 .. k + 1 : m \in S => m \in 1 .. k BY <2>4
    <3>2. \A m \in 1 .. k : m \in 1 .. k + 1 OBVIOUS
    <3> QED BY <2>1, <2>2, <2>4, <3>1, <3>2 DEF Listed, t
  <2>5. CASE k + 1 \in S
    <3>1. /\ IsList(t) /\ Len(t) = Len(s) + 1 /\ t[Len(s) + 1] = k + 1
          /\ \A i \in 1 .. Len(s) : t[i] = s[i]
      BY <2>1, <2>2, <2>5, AppendList DEF Listed
    <3>2. \A i \in 1 .. Len(t) : i = Len(s) + 1 \/ i \in 1 .. Len(s) BY <2>3, <3>1
    <3>3. \A i \in 1 .. Len(s) : i \in 1 .. Len(t) /\ i < Len(s) + 1 BY <2>3, <3>1
    <3>4. \A i \in 1 .. Len(t) : t[i] \in 1 .. k + 1 /\ t[i] \in S
      BY <2>1, <2>5, <3>1, <3>2 DEF Listed
    <3>5. ASSUME NEW i \in 1 .. Len(t), NEW j \in 1 .. Len(t), i < j PROVE t[i] < t[j]
      <4>1. i \in 1 .. Len(s) BY <2>3, <3>1, <3>2, <3>5
      <4>2. CASE j \in 1 .. Len(s) BY <2>1, <3>1, <3>5, <4>1, <4>2 DEF Listed
      <4>3. CASE j = Len(s) + 1
        <5>1. s[i] \in 1 .. k BY <2>1, <4>1 DEF Listed
        <5> QED BY <3>1, <4>1, <4>3, <5>1
      <4> QED BY <3>2, <4>2, <4>3
    <3>6. ASSUME NEW m \in 1 .. k + 1, m \in S PROVE \E i \in 1 .. Len(t) : t[i] = m
      <4>1. CASE m = k + 1
        <5>1. Len(s) + 1 \in 1 .. Len(t) BY <2>3, <3>1
        <5> QED BY <3>1, <4>1, <5>1
      <4>2. CASE m # k + 1
        <5>1. m \in 1 .. k BY <4>2
        <5>2. PICK i \in 1 .. Len(s) : s[i] = m BY <2>1, <3>6, <5>1 DEF Listed
        <5> QED BY <3>1, <3>3, <5>2
      <4> QED BY <4>1, <4>2
    <3> QED BY <3>1, <3>4, <3>5, <3>6 DEF Listed, t
  <2> QED BY <2>4, <2>5 DEF t
<1> HIDE DEF L
<1>9. Nat \subseteq L BY <1>7, <1>8, Inductive
<1>10. Listed(upTo[n], S, n)
  <2>1. n \in L /\ n <= n BY <1>9
  <2> QED BY <2>1 DEF L
<1> QED BY <1>5, <1>10

LEMMA PickedIs ==
  ASSUME NEW s, IsList(s), NEW S
  PROVE  LET a == InOrder(S, Len(s))
         IN  /\ Listed(a, S, Len(s)) /\ IsList(Picked(s, S)) /\ Len(Picked(s, S)) = Len(a)
             /\ \A i \in 1 .. Len(a) : Picked(s, S)[i] = s[a[i]]
<1> DEFINE a == InOrder(S, Len(s))
           p == Picked(s, S)
<1>1. Listed(a, S, Len(s)) BY ListFacts, InOrderLists
<1>2. Len(a) \in Nat /\ DOMAIN a = 1 .. Len(a) BY <1>1, ListFacts DEF Listed
<1>3. p = [i \in 1 .. Len(a) |-> s[a[i]]] BY <1>2 DEF Picked
<1> HIDE DEF a, p
<1>4. p = [i \in 1 .. Len(a) |-> p[i]] /\ \A i \in 1 .. Len(a) : p[i] = s[a[i]] BY <1>3
<1>5. IsList(p) /\ Len(p) = Len(a) BY <1>2, <1>4, MappedList
<1> QED BY <1>1, <1>4, <1>5 DEF a, p

-----------------------------------------------------------------------------
(* The pings.  A target answers when one of its addresses is open and all  *)
(* before it are refused.                                                  *)
ReachedBefore(addresses, n) == \A j \in 1 .. n : addresses[j] = "refused"
Reached(t) == \E i \in 1 .. Len(t.addresses) :
                t.addresses[i] = "open" /\ ReachedBefore(t.addresses, i - 1)
FirstOpen(t) == 1 \in 1 .. Len(t.addresses) /\ t.addresses[1] = "open"

(* What the request became: valid lists of answers, and a key of its own   *)
(* for each target.                                                        *)
Targets(s) ==
  /\ IsList(s)
  /\ \A i \in 1 .. Len(s) :
       /\ IsList(s[i].addresses)
       /\ \A a \in 1 .. Len(s[i].addresses) : s[i].addresses[a] \in Answers
       /\ \A j \in 1 .. Len(s) : s[i].key = s[j].key => i = j

Workers == [do : {"take", "connect", "ended"}, at : Nat, address : Nat \ {0},
            expired : BOOLEAN]

(* A worker that connects has a target below the counter, still without a  *)
(* result, and every address before its own was refused, or its time is    *)
(* over; past the first address, that one was not open.                    *)
Measures(m, targets, next, found) ==
  /\ m.at \in 1 .. Len(targets) /\ m.at < next /\ found[m.at] = "none"
  /\ m.address \in 1 .. Len(targets[m.at].addresses) + 1
  /\ ~m.expired => ReachedBefore(targets[m.at].addresses, m.address - 1)
  /\ m.address > 1 => ~FirstOpen(targets[m.at])

(* The result of a target is what its addresses say; one that the counter  *)
(* has passed and that has no result yet is under way.                     *)
Measured(i) ==
  /\ i >= next_index => results[i] = "none"
  /\ results[i] = "ok" => Reached(asked[i])
  /\ results[i] = "failed" => ~FirstOpen(asked[i])
  /\ i < next_index /\ results[i] = "none" =>
       \E w \in DOMAIN worker : worker[w].do = "connect" /\ worker[w].at = i

Answered == Picked(asked, {i \in DOMAIN asked : results[i] = "ok"})

(* The inductive invariant of the pings.                                   *)
PingTypes ==
  /\ Targets(asked) /\ next_index \in Nat \ {0}
  /\ results \in [1 .. Len(asked) -> {"none", "ok", "failed", "late"}]
  /\ worker \in [DOMAIN worker -> Workers]
PingWorkers ==
  /\ \A w \in DOMAIN worker :
       /\ worker[w].do = "ended" => next_index > Len(asked)
       /\ worker[w].do = "connect" => Measures(worker[w], asked, next_index, results)
  /\ \A v, w \in DOMAIN worker :
       v # w /\ worker[v].do = "connect" /\ worker[w].do = "connect"
       => worker[v].at # worker[w].at
PingReply ==
  worker = <<>> /\ asked # <<>> =>
    /\ \A i \in 1 .. Len(asked) : results[i] # "none"
    /\ pings = [i \in DOMAIN Answered |-> Answered[i].key]
PingInv == PingTypes /\ PingWorkers /\ (\A i \in 1 .. Len(asked) : Measured(i)) /\ PingReply

LEMMA TargetsPicked ==
  ASSUME TcpPingAssumption, NEW request \in Requests
  PROVE  Targets(tcp_ping_targets_from_json(request))
<1> DEFINE S == {i \in DOMAIN request : request[i].valid}
           a == InOrder(S, Len(request))
           s == Picked(request, S)
<1>1. IsList(request) BY DEF TcpPingAssumption, IsList
<1>2. Len(request) \in Nat /\ DOMAIN request = 1 .. Len(request) BY <1>1, ListFacts
<1>3. /\ Listed(a, S, Len(request)) /\ IsList(s) /\ Len(s) = Len(a)
      /\ \A i \in 1 .. Len(a) : s[i] = request[a[i]]
  BY <1>1, PickedIs
<1>4. \A i \in 1 .. Len(request) :
        /\ request[i].addresses \in Seq(Answers)
        /\ \A j \in 1 .. Len(request) : request[i].key = request[j].key => i = j
  BY <1>2 DEF TcpPingAssumption
<1>5. \A i \in 1 .. Len(request) :
        /\ IsList(request[i].addresses)
        /\ \A b \in 1 .. Len(request[i].addresses) : request[i].addresses[b] \in Answers
  BY <1>4, ElementOfSeq DEF IsList
<1>6. s = tcp_ping_targets_from_json(request) BY DEF tcp_ping_targets_from_json
<1> HIDE DEF S, a, s
<1>7. \A i \in 1 .. Len(s) : a[i] \in 1 .. Len(request) /\ s[i] = request[a[i]]
  BY <1>3 DEF Listed
<1>8. Len(a) \in Nat BY <1>3, ListFacts DEF Listed
<1>9. ASSUME NEW i \in 1 .. Len(s), NEW j \in 1 .. Len(s), s[i].key = s[j].key PROVE i = j
  <2>1. a[i] = a[j] BY <1>4, <1>7, <1>9
  <2>2. \A x, y \in 1 .. Len(a) : x < y => a[x] < a[y] BY <1>3 DEF Listed
  <2>3. a[i] \in Nat /\ a[j] \in Nat BY <1>7, <1>2
  <2> QED BY <1>3, <1>8, <2>1, <2>2, <2>3
<1> QED BY <1>3, <1>5, <1>6, <1>7, <1>9 DEF Targets

LEMMA PingStarts == ASSUME TcpPingAssumption, PingIdle \/ PingInit PROVE PingInv
<1>1. CASE PingIdle
  <2>1. Targets(<<>>) /\ Len(<<>>) = 0 /\ DOMAIN <<>> = {} BY ListOf DEF Targets
  <2>2. <<>> \in [1 .. 0 -> {"none", "ok", "failed", "late"}] /\ <<>> \in [{} -> Workers] OBVIOUS
  <2> QED BY <1>1, <2>1, <2>2 DEF PingIdle, PingInv, PingTypes, PingWorkers, PingReply
<1>2. CASE PingInit
  <2>1. PICK request \in Requests :
          /\ asked = tcp_ping_targets_from_json(request) /\ next_index = 1
          /\ results = [i \in DOMAIN asked |-> "none"]
          /\ worker = [w \in 1 .. WorkerCount(asked) |->
                         [do |-> "take", at |-> 1, address |-> 1, expired |-> FALSE]]
    BY <1>2 DEF PingInit
  <2>2. Targets(asked) BY <2>1, TargetsPicked
  <2>3. Len(asked) \in Nat /\ DOMAIN asked = 1 .. Len(asked) /\ (asked = <<>> <=> Len(asked) = 0)
    BY <2>2, ListFacts DEF Targets
  <2>4. asked # <<>> => 1 \in 1 .. WorkerCount(asked)
    BY <2>3 DEF WorkerCount, TcpPingAssumption
  <2>5. asked # <<>> => worker # <<>>
    <3>1. DOMAIN <<>> = {} OBVIOUS
    <3> QED BY <2>1, <2>4, <3>1
  <2>6. worker \in [DOMAIN worker -> Workers]
        /\ \A w \in DOMAIN worker : worker[w].do = "take"
    BY <2>1 DEF Workers
  <2>7. \A i \in 1 .. Len(asked) : Measured(i) BY <2>1, <2>3 DEF Measured
  <2> QED BY <2>1, <2>2, <2>3, <2>5, <2>6, <2>7
          DEF PingInv, PingTypes, PingWorkers, PingReply
<1> QED BY <1>1, <1>2

LEMMA TakeKeepsPings ==
  ASSUME PingInv, NEW w \in DOMAIN worker, TakeTarget(w) PROVE PingInv'
<1> DEFINE me == worker[w]
           n == Len(asked)
<1>1. /\ me.do = "take" /\ next_index' = next_index + 1
      /\ asked' = asked /\ results' = results /\ pings' = pings
      /\ worker' = [worker EXCEPT ![w] = worker'[w]]
      /\ next_index > n => worker'[w] = [me EXCEPT !.do = "ended"]
      /\ ~(next_index > n) => \E late \in BOOLEAN :
            worker'[w] = [do |-> "connect", at |-> next_index, address |-> 1, expired |-> late]
  BY DEF TakeTarget, PingInv, PingTypes
<1>2. /\ me \in Workers /\ next_index \in Nat \ {0} /\ n \in Nat
      /\ DOMAIN worker' = DOMAIN worker /\ worker' # <<>>
      /\ \A v \in DOMAIN worker : v # w => worker'[v] = worker[v]
  <2>1. DOMAIN <<>> = {} OBVIOUS
  <2> QED BY <1>1, <2>1, ListFacts DEF PingInv, PingTypes, Targets
<1>3. /\ worker'[w] \in Workers
      /\ next_index > n => worker'[w].do = "ended"
      /\ ~(next_index > n) => /\ worker'[w].do = "connect" /\ worker'[w].at = next_index
                              /\ worker'[w].address = 1
  <2> DEFINE r == worker'[w]
  <2>1. CASE next_index > n
    <3>1. r = [me EXCEPT !.do = "ended"] BY <1>1, <2>1
    <3> HIDE DEF r, me
    <3>2. r \in Workers /\ r.do = "ended" BY <1>2, <3>1 DEF Workers
    <3> QED BY <2>1, <3>2 DEF r
  <2>2. CASE ~(next_index > n)
    <3>1. PICK late \in BOOLEAN :
            r = [do |-> "connect", at |-> next_index, address |-> 1, expired |-> late]
      BY <1>1, <2>2
    <3> HIDE DEF r, me
    <3>2. r \in Workers /\ r.do = "connect" /\ r.at = next_index /\ r.address = 1
      BY <1>2, <3>1 DEF Workers
    <3> QED BY <2>2, <3>2 DEF r
  <2> QED BY <2>1, <2>2
<1>4. PingTypes' BY <1>1, <1>2, <1>3 DEF PingInv, PingTypes, Targets
<1>5. ASSUME NEW v \in DOMAIN worker, worker'[v].do = "connect"
      PROVE  Measures(worker'[v], asked, next_index', results') /\ (v # w => worker'[v].at < next_index)
  <2>1. CASE v # w
    <3>1. Measures(worker[v], asked, next_index, results) /\ worker'[v] = worker[v]
      BY <1>2, <1>5, <2>1 DEF PingInv, PingWorkers
    <3>2. worker[v].at \in Nat BY DEF PingInv, PingTypes, Workers
    <3> QED BY <1>1, <1>2, <3>1, <3>2 DEF Measures, ReachedBefore, FirstOpen
  <2>2. CASE v = w
    <3>1. ~(next_index > n) BY <1>3, <1>5, <2>2
    <3>2. next_index \in 1 .. n BY <1>2, <3>1
    <3>3. results[next_index] = "none" BY <1>2, <3>2 DEF PingInv, Measured
    <3>4. Len(asked[next_index].addresses) \in Nat
      BY <3>2, ListFacts DEF PingInv, PingTypes, Targets
    <3> QED BY <1>1, <1>2, <1>3, <2>2, <3>1, <3>2, <3>3, <3>4
            DEF Measures, ReachedBefore
  <2> QED BY <2>1, <2>2
<1>6. PingWorkers'
  <2>1. ASSUME NEW v \in DOMAIN worker, worker'[v].do = "ended" PROVE next_index' > n
    BY <1>1, <1>2, <1>3, <2>1 DEF PingInv, PingWorkers
  <2>2. ASSUME NEW u \in DOMAIN worker, NEW v \in DOMAIN worker, u # v,
               worker'[u].do = "connect", worker'[v].do = "connect"
        PROVE  worker'[u].at # worker'[v].at
    <3>1. CASE u # w /\ v # w BY <1>2, <2>2, <3>1 DEF PingInv, PingWorkers
    <3>2. CASE u = w
      <4>1. worker'[v].at < next_index BY <1>5, <2>2, <3>2
      <4>2. worker'[u].at = next_index BY <1>3, <2>2, <3>2
      <4> QED BY <1>2, <4>1, <4>2
    <3>3. CASE v = w
      <4>1. worker'[u].at < next_index BY <1>5, <2>2, <3>3
      <4>2. worker'[v].at = next_index BY <1>3, <2>2, <3>3
      <4> QED BY <1>2, <4>1, <4>2
    <3> QED BY <3>1, <3>2, <3>3
  <2> QED BY <1>1, <1>2, <1>5, <2>1, <2>2 DEF PingWorkers
<1>7. ASSUME NEW i \in 1 .. n PROVE Measured(i)'
  <2>1. Measured(i) BY DEF PingInv
  <2>2. i < next_index' /\ results[i] = "none" =>
          \E v \in DOMAIN worker : worker'[v].do = "connect" /\ worker'[v].at = i
    <3> SUFFICES ASSUME i < next_index', results[i] = "none"
                 PROVE  \E v \in DOMAIN worker : worker'[v].do = "connect" /\ worker'[v].at = i
      OBVIOUS
    <3>1. CASE i = next_index
      <4>1. ~(next_index > n) BY <1>2, <3>1
      <4> QED BY <1>3, <3>1, <4>1
    <3>2. CASE i # next_index
      <4>1. i < next_index BY <1>1, <1>2, <3>2
      <4>2. PICK v \in DOMAIN worker : worker[v].do = "connect" /\ worker[v].at = i
        BY <2>1, <4>1 DEF Measured
      <4>3. v # w BY <1>1, <4>2
      <4> QED BY <1>2, <4>2, <4>3
    <3> QED BY <3>1, <3>2
  <2>3. i >= next_index' => i >= next_index BY <1>1, <1>2
  <2> QED BY <1>1, <1>2, <2>1, <2>2, <2>3 DEF Measured, Reached, ReachedBefore, FirstOpen
<1> QED BY <1>1, <1>2, <1>4, <1>6, <1>7 DEF PingInv, PingReply

LEMMA TryKeepsPings ==
  ASSUME PingInv, NEW w \in DOMAIN worker, TryAddress(w) PROVE PingInv'
<1> DEFINE me == worker[w]
           n == Len(asked)
           t == asked[me.at]
           last == Len(t.addresses)
           Finish(ok) == /\ results' = [results EXCEPT ![me.at] = ok]
                         /\ worker' = [worker EXCEPT ![w].do = "take"]
           Pass(expired) == /\ results' = results
                            /\ worker' = [worker EXCEPT ![w].address = @ + 1,
                                                        ![w].expired = expired]
<1>1. /\ me.do = "connect" /\ me \in Workers /\ Measures(me, asked, next_index, results) /\ next_index \in Nat
      /\ asked' = asked /\ next_index' = next_index /\ pings' = pings /\ n \in Nat
  BY ListFacts DEF TryAddress, PingInv, PingTypes, PingWorkers, Targets
<1>2. /\ me.at \in 1 .. n /\ results[me.at] = "none" /\ me.at < next_index
      /\ me.address \in 1 .. last + 1 /\ last \in Nat
      /\ \A a \in 1 .. last : t.addresses[a] \in Answers
      /\ ~me.expired => ReachedBefore(t.addresses, me.address - 1)
      /\ me.address > 1 => ~FirstOpen(t)
  BY <1>1, ListFacts DEF Measures, PingInv, PingTypes, Targets
<1>3. \/ Finish("failed") /\ (me.address > last \/ (me.expired /\ me.address # 1))
      \/ Finish("late")
      \/ Finish("ok") /\ me.address \in 1 .. last /\ ~me.expired
         /\ t.addresses[me.address] = "open"
      \/ /\ me.address \in 1 .. last /\ ~me.expired
         /\ \/ t.addresses[me.address] = "silent" /\ Pass(TRUE)
            \/ t.addresses[me.address] = "refused" /\ \E late \in BOOLEAN : Pass(late)
  <2>1. CASE me.address > last \/ me.expired BY <2>1 DEF TryAddress
  <2>2. CASE ~(me.address > last \/ me.expired)
    <3>1. me.address \in 1 .. last BY <1>2, <2>2
    <3>2. t.addresses[me.address] \in {"open", "refused", "silent"}
      BY <1>2, <3>1 DEF Answers
    <3>3. CASE t.addresses[me.address] = "open" BY <2>2, <3>1, <3>3 DEF TryAddress
    <3>4. CASE t.addresses[me.address] = "silent" BY <2>2, <3>1, <3>4 DEF TryAddress
    <3>5. CASE t.addresses[me.address] = "refused" BY <2>2, <3>1, <3>5 DEF TryAddress
    <3> QED BY <3>2, <3>3, <3>4, <3>5
  <2> QED BY <2>1, <2>2
<1>4. CASE \E ok \in {"ok", "failed", "late"} : /\ Finish(ok)
                                       /\ (ok = "ok" => Reached(t))
                                       /\ (ok = "failed" => ~FirstOpen(t))
  <2>1. PICK ok \in {"ok", "failed", "late"} : /\ Finish(ok)
                                       /\ (ok = "ok" => Reached(t))
                                       /\ (ok = "failed" => ~FirstOpen(t))
    BY <1>4, Zenon
  <2>2. /\ DOMAIN worker' = DOMAIN worker /\ worker'[w] \in Workers /\ worker'[w].do = "take"
        /\ \A v \in DOMAIN worker : v # w => worker'[v] = worker[v]
        /\ worker' \in [DOMAIN worker -> Workers] /\ worker' # <<>>
    <3>1. DOMAIN <<>> = {} OBVIOUS
    <3> QED BY <2>1, <3>1 DEF PingInv, PingTypes, Workers
  <2>3. /\ results' \in [1 .. n -> {"none", "ok", "failed", "late"}] /\ results'[me.at] = ok
        /\ \A i \in 1 .. n : i # me.at => results'[i] = results[i]
    BY <1>2, <2>1 DEF PingInv, PingTypes
  <2>4. PingTypes' BY <1>1, <2>2, <2>3 DEF PingInv, PingTypes, Targets
  <2>5. ASSUME NEW v \in DOMAIN worker, worker'[v].do = "connect"
        PROVE  v # w /\ worker'[v] = worker[v] /\ worker[v].at # me.at /\ Measures(worker[v], asked, next_index, results)
    BY <1>1, <2>2, <2>5 DEF PingInv, PingWorkers
  <2>6. PingWorkers'
    <3>1. ASSUME NEW v \in DOMAIN worker, worker'[v].do = "connect"
          PROVE  Measures(worker'[v], asked, next_index', results')
      BY <1>1, <2>3, <2>5, <3>1 DEF Measures, ReachedBefore, FirstOpen
    <3>2. \A v \in DOMAIN worker : worker'[v].do = "ended" => next_index > n
      BY <2>2 DEF PingInv, PingWorkers
    <3>3. \A u, v \in DOMAIN worker :
            u # v /\ worker'[u].do = "connect" /\ worker'[v].do = "connect"
            => worker'[u].at # worker'[v].at
      BY <2>5 DEF PingInv, PingWorkers
    <3> QED BY <1>1, <2>2, <3>1, <3>2, <3>3 DEF PingWorkers
  <2>7. ASSUME NEW i \in 1 .. n PROVE Measured(i)'
    <3>1. Measured(i) BY DEF PingInv
    <3>2. CASE i = me.at
      BY <1>1, <1>2, <2>1, <2>3, <3>2 DEF Measured, Reached, ReachedBefore, FirstOpen
    <3>3. CASE i # me.at
      <4>1. i < next_index /\ results[i] = "none" =>
              \E v \in DOMAIN worker : worker'[v].do = "connect" /\ worker'[v].at = i
        BY <2>2, <3>1, <3>3 DEF Measured
      <4> QED BY <1>1, <2>2, <2>3, <3>1, <3>3, <4>1
              DEF Measured, Reached, ReachedBefore, FirstOpen
    <3> QED BY <3>2, <3>3
  <2> QED BY <1>1, <2>2, <2>4, <2>6, <2>7 DEF PingInv, PingReply
<1>5. CASE /\ me.address \in 1 .. last /\ ~me.expired
           /\ \E late \in BOOLEAN :
                Pass(late) /\ (~late => t.addresses[me.address] = "refused")
           /\ t.addresses[me.address] # "open"
  <2>1. PICK late \in BOOLEAN : Pass(late) /\ (~late => t.addresses[me.address] = "refused")
    BY <1>5
  <2>2. /\ DOMAIN worker' = DOMAIN worker /\ worker'[w] \in Workers
        /\ worker'[w].do = "connect" /\ worker'[w].at = me.at
        /\ worker'[w].address = me.address + 1 /\ (worker'[w].expired <=> late)
        /\ \A v \in DOMAIN worker : v # w => worker'[v] = worker[v]
        /\ worker' \in [DOMAIN worker -> Workers] /\ worker' # <<>>
    <3> DEFINE r == worker'[w]
    <3>1. DOMAIN <<>> = {} /\ worker \in [DOMAIN worker -> Workers]
      BY DEF PingInv, PingTypes
    <3>2. /\ r = [me EXCEPT !.address = me.address + 1, !.expired = late]
          /\ DOMAIN worker' = DOMAIN worker
          /\ \A v \in DOMAIN worker : v # w => worker'[v] = worker[v]
          /\ worker' = [v \in DOMAIN worker |-> worker'[v]]
      BY <2>1, <3>1
    <3> HIDE DEF r, me
    <3>3. /\ r \in Workers /\ r.do = me.do /\ r.at = me.at
          /\ r.address = me.address + 1 /\ (r.expired <=> late)
      <4>1. me \in Workers BY <1>1
      <4>2. r = [me EXCEPT !.address = me.address + 1, !.expired = late] BY <3>2
      <4> DEFINE do == me.do
                 at == me.at
                 address == me.address + 1
      <4>3. do \in {"take", "connect", "ended"} /\ at \in Nat /\ address \in Nat \ {0}
        BY <4>1 DEF Workers
      <4>4. r = [do |-> do, at |-> at, address |-> address, expired |-> late]
        BY <4>1, <4>2 DEF Workers
      <4> HIDE DEF do, at, address
      <4>5. r \in Workers BY <4>3, <4>4 DEF Workers
      <4>6. r.do = do /\ r.at = at /\ r.address = address BY <4>4
      <4>7. r.expired <=> late BY <4>4
      <4> QED BY <4>5, <4>6, <4>7 DEF do, at, address
    <3>4. worker' # <<>> BY <3>1, <3>2
    <3>5. worker' \in [DOMAIN worker -> Workers] BY <3>1, <3>2, <3>3 DEF r
    <3> QED BY <1>1, <3>2, <3>3, <3>4, <3>5 DEF r
  <2>3. PingTypes' BY <1>1, <2>1, <2>2 DEF PingInv, PingTypes, Targets
  <2>4. ReachedBefore(t.addresses, me.address - 1) /\ ~FirstOpen(t)
    <3>1. me.address > 1 \/ me.address = 1 BY <1>2
    <3> QED BY <1>2, <1>5, <3>1 DEF FirstOpen
  <2>5. ~late => ReachedBefore(t.addresses, me.address + 1 - 1)
    <3>1. \A j \in 1 .. me.address + 1 - 1 : j = me.address \/ j \in 1 .. me.address - 1
      BY <1>2
    <3> QED BY <2>1, <2>4, <3>1 DEF ReachedBefore
  <2>6. Measures(worker'[w], asked, next_index', results')
    <3> DEFINE r == worker'[w]
    <3>1. r.address \in 1 .. last + 1 /\ r.at = me.at /\ (r.expired <=> late)
      BY <1>2, <1>5, <2>2
    <3>2. ~r.expired => ReachedBefore(t.addresses, r.address - 1)
      <4>1. r.address = me.address + 1 BY <2>2
      <4>2. me.address + 1 - 1 = r.address - 1 BY <1>2, <4>1
      <4>3. ~r.expired => ~late BY <2>2, Zenon
      <4> HIDE DEF r
      <4> QED BY <2>5, <4>2, <4>3
    <3>3. r.at \in 1 .. n /\ r.at < next_index /\ results[r.at] = "none" /\ asked[r.at] = t
      BY <1>2, <3>1
    <3> HIDE DEF r, t, n
    <3>4. last = Len(asked[r.at].addresses) BY <3>3
    <3> QED BY <1>1, <2>1, <2>4, <3>1, <3>2, <3>3, <3>4 DEF Measures, n, r
  <2>7. PingWorkers'
    <3>1. ASSUME NEW v \in DOMAIN worker, v # w, worker'[v].do = "connect"
          PROVE  Measures(worker'[v], asked, next_index', results')
      BY <1>1, <2>1, <2>2, <3>1
         DEF Measures, ReachedBefore, FirstOpen, PingInv, PingWorkers
    <3>2. \A v \in DOMAIN worker : worker'[v].do = "ended" => next_index > n
      BY <2>2 DEF PingInv, PingWorkers
    <3>3. \A u, v \in DOMAIN worker :
            u # v /\ worker'[u].do = "connect" /\ worker'[v].do = "connect"
            => worker'[u].at # worker'[v].at
      BY <1>1, <2>2 DEF PingInv, PingWorkers
    <3> QED BY <1>1, <2>2, <2>6, <3>1, <3>2, <3>3 DEF PingWorkers
  <2>8. ASSUME NEW i \in 1 .. n PROVE Measured(i)'
    <3>1. Measured(i) BY DEF PingInv
    <3>2. i < next_index /\ results[i] = "none" =>
            \E v \in DOMAIN worker : worker'[v].do = "connect" /\ worker'[v].at = i
      BY <2>2, <3>1 DEF Measured
    <3> QED
      BY <1>1, <2>1, <2>2, <3>1, <3>2 DEF Measured, Reached, ReachedBefore, FirstOpen
  <2> QED BY <1>1, <2>2, <2>3, <2>7, <2>8 DEF PingInv, PingReply
<1>6. ~FirstOpen(t) \/ ~(me.address > last \/ (me.expired /\ me.address # 1))
  BY <1>2 DEF FirstOpen
<1>7. me.address \in 1 .. last /\ ~me.expired /\ t.addresses[me.address] = "open" => Reached(t)
  BY <1>2 DEF Reached
<1> QED BY <1>3, <1>4, <1>5, <1>6, <1>7

LEMMA ReplyKeepsPings == ASSUME PingInv, Reply PROVE PingInv'
<1>1. /\ worker # <<>> /\ \A w \in DOMAIN worker : worker[w].do = "ended"
      /\ pings' = [i \in DOMAIN Answered |-> Answered[i].key]
      /\ worker' = <<>> /\ asked' = asked /\ next_index' = next_index /\ results' = results
  BY DEF Reply, Joined, Answered
<1>2. PICK w : w \in DOMAIN worker
  <2>1. worker \in [DOMAIN worker -> Workers] BY DEF PingInv, PingTypes
  <2>2. DOMAIN worker = {} => worker = <<>> BY <2>1
  <2> QED BY <1>1, <2>2
<1>3. next_index > Len(asked) /\ next_index \in Nat /\ Len(asked) \in Nat
  BY <1>1, <1>2, ListFacts DEF PingInv, PingTypes, PingWorkers, Targets
<1>4. \A i \in 1 .. Len(asked) : results[i] # "none"
  BY <1>1, <1>3 DEF PingInv, Measured
<1>5. DOMAIN <<>> = {} /\ <<>> \in [{} -> Workers] OBVIOUS
<1>6. PingTypes' /\ PingWorkers'
  BY <1>1, <1>5 DEF PingInv, PingTypes, PingWorkers, Targets
<1>7. ASSUME NEW i \in 1 .. Len(asked) PROVE Measured(i)'
  BY <1>1, <1>4 DEF PingInv, Measured, Reached, ReachedBefore, FirstOpen
<1> QED BY <1>1, <1>4, <1>6, <1>7 DEF PingInv, PingReply, Answered

LEMMA PingInvStep == PingInv /\ [Next]_vars => PingInv'
<1> SUFFICES ASSUME PingInv, [Next]_vars PROVE PingInv' OBVIOUS
<1>1. CASE UNCHANGED pingVars
  <2>1. /\ asked' = asked /\ next_index' = next_index /\ results' = results
        /\ worker' = worker /\ pings' = pings
    BY <1>1 DEF pingVars
  <2>2. PingTypes' /\ PingWorkers' BY <2>1 DEF PingInv, PingTypes, PingWorkers
  <2>3. \A i \in 1 .. Len(asked) : Measured(i)' BY <2>1 DEF PingInv, Measured
  <2> QED BY <2>1, <2>2, <2>3 DEF PingInv, PingReply, Answered
<1>2. CASE LibraryNext
  BY <1>1, <1>2 DEF LibraryNext, ParseShareLink, ParseShareLinks, BuildCoreConfig,
     ParseCoreConfig, ExtractEndpoint
<1>3. CASE PingNext
  BY <1>3, TakeKeepsPings, TryKeepsPings, ReplyKeepsPings DEF PingNext
<1> QED BY <1>1, <1>2, <1>3 DEF Next, vars

LEMMA PingInit0 == Init => PingInv
BY PingStarts, TcpPingAssumption DEF Init

(* The place of a target is that of the first target with its key. *)
LEMMA PlaceOfKey ==
  ASSUME NEW s, Targets(s), NEW i \in 1 .. Len(s), NEW key, s[i].key = key
  PROVE  LET I == {j \in 1 .. Len(s) : s[j].key = key}
         IN  (IF I # {} THEN Min(I) ELSE 0) = i
<1> DEFINE I == {j \in 1 .. Len(s) : s[j].key = key}
<1>1. I = {i} BY DEF Targets
<1>2. i \in Nat BY ListFacts DEF Targets
<1> HIDE DEF I
<1>3. Min(I) = i
  <2>1. I \subseteq Nat /\ I # {} BY <1>1, <1>2
  <2>2. Min(I) \in I BY <2>1, FirstIs
  <2> QED BY <1>1, <2>2
<1> QED BY <1>1, <1>3 DEF I

LEMMA PingsRight == PingInv => PingsAreTheirTargets
<1> SUFFICES ASSUME PingInv PROVE PingsAreTheirTargets OBVIOUS
<1> DEFINE n == Len(asked)
           S == {i \in DOMAIN asked : results[i] = "ok"}
           a == InOrder(S, n)
           m == Len(a)
<1>1. /\ Targets(asked) /\ n \in Nat /\ DOMAIN asked = 1 .. n
      /\ \A i \in 1 .. n : DOMAIN asked[i].addresses = 1 .. Len(asked[i].addresses)
  BY ListFacts DEF PingInv, PingTypes, Targets
<1>2. CASE worker = <<>> /\ asked # <<>>
  <2>1. /\ \A i \in 1 .. n : results[i] \in {"ok", "failed", "late"} /\ Measured(i)
        /\ pings = [i \in DOMAIN Answered |-> Answered[i].key]
    BY <1>2 DEF PingInv, PingTypes, PingReply
  <2>2. /\ Listed(a, S, n) /\ IsList(Answered) /\ Len(Answered) = m
        /\ \A i \in 1 .. m : Answered[i] = asked[a[i]]
    BY <1>1, PickedIs DEF Targets, Answered
  <2>3. m \in Nat /\ DOMAIN Answered = 1 .. m BY <2>2, ListFacts DEF Listed
  <2>4. pings = [i \in 1 .. m |-> pings[i]] /\ \A i \in 1 .. m : pings[i] = asked[a[i]].key
    BY <2>1, <2>2, <2>3
  <2>5. IsList(pings) /\ Len(pings) = m /\ DOMAIN pings = 1 .. m BY <2>3, <2>4, MappedList
  <2>6. /\ \A i \in 1 .. m : a[i] \in 1 .. n /\ results[a[i]] = "ok"
        /\ \A i \in 1 .. n : results[i] = "ok" => \E j \in 1 .. m : a[j] = i
        /\ \A i, j \in 1 .. m : i < j => a[i] < a[j]
    BY <1>1, <2>2 DEF Listed
  <2> HIDE DEF S, a, m, n
  <2>7. ASSUME NEW i \in 1 .. n, asked[i].addresses # <<>>, asked[i].addresses[1] = "open",
               results[i] # "late"
        PROVE  Contains(pings, asked[i].key)
    <3>1. FirstOpen(asked[i])
      <4>1. IsList(asked[i].addresses) BY <1>1 DEF Targets, n
      <4> QED BY <2>7, <4>1, ListFacts DEF FirstOpen
    <3>2. results[i] = "ok" BY <2>1, <2>7, <3>1 DEF Measured
    <3>3. PICK j \in 1 .. m : a[j] = i BY <2>6, <3>2
    <3> QED BY <2>4, <2>5, <3>3 DEF Contains
  <2>8. ASSUME NEW i \in 1 .. n, Contains(pings, asked[i].key) PROVE Reached(asked[i])
    <3>1. PICK j \in 1 .. m : asked[a[j]].key = asked[i].key
      BY <2>4, <2>5, <2>8 DEF Contains
    <3>2. a[j] = i BY <1>1, <2>6, <3>1 DEF Targets, n
    <3> QED BY <2>1, <2>6, <3>2 DEF Measured
  <2> DEFINE I(i) == {j \in 1 .. Len(asked) : asked[j].key = pings[i]}
             place(i) == IF I(i) # {} THEN Min(I(i)) ELSE 0
  <2>9. ASSUME NEW i \in 1 .. m PROVE place(i) = a[i]
    BY <1>1, <2>4, <2>6, PlaceOfKey DEF n
  <2>10. \A i, j \in 1 .. m : i < j => place(i) < place(j)
    <3> HIDE DEF place
    <3> QED BY <2>6, <2>9
  <2>11. \A i, j \in DOMAIN pings : i < j =>
           SelectInSeq(asked, LAMBDA t : t.key = pings[i])
           < SelectInSeq(asked, LAMBDA t : t.key = pings[j])
    BY <2>5, <2>10 DEF SelectInSeq
  <2> HIDE DEF place
  <2>12. \A i \in DOMAIN asked :
           /\ asked[i].addresses # <<>> /\ asked[i].addresses[1] = "open"
              /\ results[i] # "late" => Contains(pings, asked[i].key)
           /\ Contains(pings, asked[i].key) =>
                \E b \in DOMAIN asked[i].addresses :
                   /\ asked[i].addresses[b] = "open"
                   /\ \A j \in 1..(b - 1) : asked[i].addresses[j] = "refused"
    BY <1>1, <2>7, <2>8 DEF Reached, ReachedBefore
  <2> QED BY <2>11, <2>12 DEF PingsAreTheirTargets, PingInv, PingWorkers
<1> QED BY <1>2 DEF PingsAreTheirTargets, PingInv, PingWorkers

(* PingsAreTheirTargets: for any number of targets, addresses and workers  *)
(* and any interleaving of them, no target is measured twice or left out,  *)
(* and the reply holds the targets found open in time, in their order      *)
(* (measure_tcp_pings_json).                                               *)
THEOREM PingsAnswerTheirTargets == Spec => []PingsAreTheirTargets
BY PingInit0, PingInvStep, PingsRight, PTL DEF Spec
-----------------------------------------------------------------------------
(* The outbounds of an imported configuration, with a finite set of tags   *)
(* that holds all that are named.                                          *)
Graph(outbounds, tags) ==
  /\ IsFiniteSet(tags) /\ DOMAIN outbounds \subseteq tags /\ "" \notin DOMAIN outbounds
  /\ \A t \in DOMAIN outbounds :
       IsList(outbounds[t].children) /\ ToSet(outbounds[t].children) \subseteq tags

(* A set of tags that is closed holds the children of its groups; a tag    *)
(* leads to another when each closed set with the one holds the other.     *)
Closed(outbounds, C) ==
  \A t \in C \cap DOMAIN outbounds :
    ~HasServer(outbounds[t]) => ToSet(outbounds[t].children) \subseteq C
Leads(outbounds, tags, a, b) ==
  \A C \in SUBSET tags : a \in C /\ Closed(outbounds, C) => b \in C
Server(outbounds, t) == t \in DOMAIN outbounds /\ HasServer(outbounds[t])

(* All that R has and S has not was visited without finding a server: each *)
(* is a group whose children are in R, or no outbound.                     *)
Settled(outbounds, S, R) ==
  \A t \in (R \ S) \cap DOMAIN outbounds :
    ~HasServer(outbounds[t]) /\ ToSet(outbounds[t].children) \subseteq R
(* What a visit returns: a server the tag leads to, or nothing and a       *)
(* settled set of visited tags.                                            *)
Resolved(outbounds, tags, x, seen, tag) ==
  /\ x.seen \in SUBSET tags /\ seen \subseteq x.seen /\ tag \in x.seen
  /\ x.found = "" => Settled(outbounds, seen, x.seen)
  /\ x.found # "" => Server(outbounds, x.found) /\ Leads(outbounds, tags, tag, x.found)

(* What trying the first n children returns.                               *)
Tried(outbounds, tags, x, seen, children, n) ==
  /\ x.seen \in SUBSET tags /\ seen \subseteq x.seen
  /\ x.found = "" => /\ Settled(outbounds, seen, x.seen)
                     /\ \A j \in 1 .. n : children[j] \in x.seen
  /\ x.found # "" => /\ Server(outbounds, x.found)
                     /\ \E j \in 1 .. n : Leads(outbounds, tags, children[j], x.found)

(* Trying all children of a group, if each visit returns what it should.   *)
LEMMA TriedIs ==
  ASSUME NEW outbounds, NEW tags, NEW children, IsList(children),
         \A j \in 1 .. Len(children) : children[j] \in tags,
         NEW seen \in SUBSET tags, NEW resolve,
         \A S \in SUBSET tags : \A t \in tags :
           seen \subseteq S => Resolved(outbounds, tags, resolve[S][t], S, t)
  PROVE  Tried(outbounds, tags, TriedChildren(children, resolve, seen), seen, children,
               Len(children))
<1> DEFINE n == Len(children)
           first == [found |-> "", seen |-> seen]
           Step(f, i) == IF i = 0 THEN first
                         ELSE IF f[i - 1].found # "" THEN f[i - 1]
                         ELSE resolve[f[i - 1].seen][children[i]]
           Defined(f, k) == f = [i \in 0 .. k |-> Step(f, i)]
           K == {k \in Nat : \E f : Defined(f, k)}
           tried == CHOOSE f : Defined(f, n)
<1>1. n \in Nat BY ListFacts
<1>2. 0 \in K
  <2> DEFINE f == [i \in 0 .. 0 |-> first]
  <2> HIDE DEF first
  <2>1. \A i \in 0 .. 0 : i = 0 OBVIOUS
  <2>2. Defined(f, 0) BY <2>1
  <2> HIDE DEF Defined, f
  <2> QED BY <2>2
<1>3. ASSUME NEW k \in Nat, k \in K PROVE k + 1 \in K
  <2> HIDE DEF first
  <2>1. PICK f : Defined(f, k) BY <1>3
  <2> DEFINE g == [i \in 0 .. k + 1 |-> IF i = k + 1 THEN Step(f, k + 1) ELSE f[i]]
  <2>2. \A i \in 0 .. k : i \in 0 .. k + 1 /\ i # k + 1 OBVIOUS
  <2>3. \A i \in 0 .. k : g[i] = f[i] BY <2>2
  <2>4. \A i \in 0 .. k + 1 : i = 0 \/ i - 1 \in 0 .. k OBVIOUS
  <2>5. \A i \in 0 .. k + 1 : Step(g, i) = Step(f, i)
    <3> HIDE DEF g
    <3> QED BY <2>3, <2>4
  <2>6. \A i \in 0 .. k : f[i] = Step(f, i) BY <2>1
  <2>7. \A i \in 0 .. k + 1 : i = k + 1 \/ i \in 0 .. k OBVIOUS
  <2> HIDE DEF Step
  <2>8. \A i \in 0 .. k + 1 : g[i] = Step(g, i) BY <2>5, <2>6, <2>7
  <2>9. Defined(g, k + 1) BY <2>8
  <2> HIDE DEF Defined, g
  <2> QED BY <2>9
<1> HIDE DEF K
<1>4. Nat \subseteq K BY <1>2, <1>3, Inductive
<1>5. Defined(tried, n)
  <2>1. \E f : Defined(f, n) BY <1>1, <1>4 DEF K
  <2> HIDE DEF Defined
  <2> QED BY <2>1
<1>6. TriedChildren(children, resolve, seen) = tried[n] BY DEF TriedChildren
<1> HIDE DEF tried
<1>7. \A i \in 0 .. n : tried[i] = Step(tried, i) BY <1>1, <1>5
<1> DEFINE Good(i) == Tried(outbounds, tags, tried[i], seen, children, i)
           L == {k \in Nat : k <= n => Good(k)}
<1>8. 0 \in L
  <2>1. tried[0] = Step(tried, 0)
    <3>1. 0 \in 0 .. n BY <1>1
    <3> HIDE DEF Step
    <3> QED BY <1>7, <3>1
  <2>2. tried[0].found = "" /\ tried[0].seen = seen
    <3>1. tried[0] = first
      <4> HIDE DEF first
      <4> QED BY <2>1
    <3> DEFINE r == tried[0]
    <3>2. r = [found |-> "", seen |-> seen] BY <3>1
    <3> HIDE DEF r
    <3>3. r.found = "" /\ r.seen = seen BY <3>2
    <3> QED BY <3>3 DEF r
  <2> DEFINE r == tried[0]
  <2>3. r.found = "" /\ r.seen = seen BY <2>2
  <2> HIDE DEF r
  <2>4. \A j \in 1 .. 0 : FALSE OBVIOUS
  <2>5. Settled(outbounds, seen, r.seen) BY <2>3 DEF Settled
  <2>6. Tried(outbounds, tags, r, seen, children, 0) BY <2>3, <2>4, <2>5 DEF Tried
  <2> QED BY <2>6 DEF r
<1>9. ASSUME NEW k \in Nat, k \in L PROVE k + 1 \in L
  <2> SUFFICES ASSUME k + 1 <= n PROVE Good(k + 1) OBVIOUS
  <2> DEFINE x == tried[k]
             y == tried[k + 1]
             c == children[k + 1]
  <2>1. Tried(outbounds, tags, x, seen, children, k) BY <1>1, <1>9
  <2>2. y = IF x.found # "" THEN x ELSE resolve[x.seen][c]
    <3>1. k + 1 \in 0 .. n /\ k + 1 # 0 /\ k + 1 - 1 = k BY <1>1
    <3>2. tried[k + 1] = Step(tried, k + 1)
      <4> HIDE DEF Step
      <4> QED BY <1>7, <3>1
    <3>3. tried[k + 1 - 1] = tried[k] BY <3>1
    <3> HIDE DEF first
    <3>4. Step(tried, k + 1) = IF tried[k + 1 - 1].found # "" THEN tried[k + 1 - 1]
                               ELSE resolve[tried[k + 1 - 1].seen][c]
      BY <3>1
    <3> HIDE DEF Step
    <3> QED BY <3>2, <3>3, <3>4
  <2>3. c \in tags /\ k + 1 \in 1 .. k + 1 /\ \A j \in 1 .. k : j \in 1 .. k + 1 BY <1>1
  <2> HIDE DEF x, y
  <2>4. CASE x.found # ""
    <3>1. y = x BY <2>2, <2>4
    <3>2. Server(outbounds, x.found)
          /\ \E j \in 1 .. k + 1 : Leads(outbounds, tags, children[j], x.found)
      BY <2>1, <2>3, <2>4 DEF Tried
    <3> QED BY <2>1, <2>4, <3>1, <3>2 DEF Tried, y
  <2>5. CASE x.found = ""
    <3>1. x.seen \in SUBSET tags /\ seen \subseteq x.seen /\ Settled(outbounds, seen, x.seen)
          /\ \A j \in 1 .. k : children[j] \in x.seen
      BY <2>1, <2>5 DEF Tried
    <3>2. Resolved(outbounds, tags, y, x.seen, c) BY <2>2, <2>3, <2>5, <3>1
    <3>3. y.seen \in SUBSET tags /\ x.seen \subseteq y.seen /\ c \in y.seen
      BY <3>2 DEF Resolved
    <3>4. CASE y.found = ""
      <4>1. Settled(outbounds, seen, y.seen)
        BY <3>1, <3>2, <3>3, <3>4 DEF Settled, Resolved
      <4>2. \A j \in 1 .. k + 1 : children[j] \in y.seen
        <5>1. \A j \in 1 .. k + 1 : j = k + 1 \/ j \in 1 .. k OBVIOUS
        <5> QED BY <3>1, <3>3, <5>1
      <4> QED BY <3>1, <3>3, <3>4, <4>1, <4>2 DEF Tried, y
    <3>5. CASE y.found # ""
      <4>1. Server(outbounds, y.found) /\ Leads(outbounds, tags, c, y.found)
        BY <3>2, <3>5 DEF Resolved
      <4> QED BY <2>3, <3>1, <3>3, <3>5, <4>1 DEF Tried, y
    <3> QED BY <3>4, <3>5
  <2> QED BY <2>4, <2>5
<1> HIDE DEF L
<1>10. Nat \subseteq L BY <1>8, <1>9, Inductive
<1>11. Good(n)
  <2>1. n \in L /\ n <= n BY <1>1, <1>10
  <2> QED BY <2>1 DEF L
<1> QED BY <1>6, <1>11

(* The whole search: its depth, the number of tags not seen, is enough to  *)
(* end at every leaf of the search.                                        *)
LEMMA ResolveIs ==
  ASSUME NEW outbounds, NEW tags, Graph(outbounds, tags), NEW tag \in tags
  PROVE  Resolved(outbounds, tags,
                  resolve_sing_box_outbound(outbounds, tags)[{}][tag], {}, tag)
<1> DEFINE n == Cardinality(tags)
           visit(resolve, seen, t) ==
             IF t \in seen THEN [found |-> "", seen |-> seen]
             ELSE IF t \notin DOMAIN outbounds THEN [found |-> "", seen |-> seen \cup {t}]
             ELSE IF HasServer(outbounds[t]) THEN [found |-> t, seen |-> seen \cup {t}]
             ELSE TriedChildren(outbounds[t].children, resolve, seen \cup {t})
           none(seen) == [found |-> "", seen |-> seen]
           Step(f, d) ==
             [seen \in SUBSET tags |-> [t \in tags |->
                IF d = 0 THEN none(seen) ELSE visit(f[d - 1], seen, t)]]
           Defined(f, k) == f = [d \in 0 .. k |-> Step(f, d)]
           K == {k \in Nat : \E f : Defined(f, k)}
           resolved == CHOOSE f : Defined(f, n)
<1>1. n \in Nat BY FS_CardinalityType DEF Graph
<1> HIDE DEF visit, none
<1>2. 0 \in K
  <2> DEFINE g == [seen \in SUBSET tags |-> [t \in tags |-> none(seen)]]
             f == [d \in 0 .. 0 |-> g]
  <2>1. \A d \in 0 .. 0 : Step(f, d) = g OBVIOUS
  <2> HIDE DEF Step, g
  <2>2. Defined(f, 0) BY <2>1
  <2> HIDE DEF Defined, f
  <2> QED BY <2>2
<1>3. ASSUME NEW k \in Nat, k \in K PROVE k + 1 \in K
  <2>1. PICK f : Defined(f, k) BY <1>3
  <2> DEFINE g == [d \in 0 .. k + 1 |-> IF d = k + 1 THEN Step(f, k + 1) ELSE f[d]]
  <2>2. \A d \in 0 .. k : d \in 0 .. k + 1 /\ d # k + 1 OBVIOUS
  <2> HIDE DEF Step
  <2>3. \A d \in 0 .. k : g[d] = f[d] BY <2>2
  <2>4. \A d \in 0 .. k + 1 : d = 0 \/ d - 1 \in 0 .. k OBVIOUS
  <2>5. \A d \in 0 .. k + 1 : Step(g, d) = Step(f, d)
    <3> HIDE DEF g
    <3> QED BY <2>3, <2>4 DEF Step
  <2>6. \A d \in 0 .. k : f[d] = Step(f, d) BY <2>1
  <2>7. \A d \in 0 .. k + 1 : d = k + 1 \/ d \in 0 .. k OBVIOUS
  <2>8. \A d \in 0 .. k + 1 : g[d] = Step(g, d) BY <2>5, <2>6, <2>7
  <2>9. Defined(g, k + 1)
    <3>1. g = [d \in 0 .. k + 1 |-> g[d]] OBVIOUS
    <3> HIDE DEF g
    <3> QED BY <2>8, <3>1
  <2> HIDE DEF Defined, g
  <2> QED BY <2>9
<1> HIDE DEF K
<1>4. Nat \subseteq K BY <1>2, <1>3, Inductive
<1>5. Defined(resolved, n)
  <2>1. \E f : Defined(f, n) BY <1>1, <1>4 DEF K
  <2> HIDE DEF Defined
  <2> QED BY <2>1
<1>6. resolve_sing_box_outbound(outbounds, tags) = resolved[n]
  BY DEF resolve_sing_box_outbound, visit, none
<1> HIDE DEF resolved
<1>7. \A d \in 0 .. n : resolved[d] = Step(resolved, d)
  <2> HIDE DEF Step
  <2> QED BY <1>1, <1>5
<1>8. /\ \A seen \in SUBSET tags : \A t \in tags :
           resolved[0][seen][t] = none(seen)
      /\ \A d \in Nat : d + 1 <= n => \A seen \in SUBSET tags : \A t \in tags :
           resolved[d + 1][seen][t] = visit(resolved[d], seen, t)
  <2>1. resolved[0] = Step(resolved, 0)
    <3> HIDE DEF Step
    <3> QED BY <1>1, <1>7
  <2>2. ASSUME NEW d \in Nat, d + 1 <= n PROVE resolved[d + 1] = Step(resolved, d + 1)
    <3>1. d + 1 \in 0 .. n BY <1>1, <2>2
    <3> HIDE DEF Step
    <3> QED BY <1>7, <3>1
  <2>3. ASSUME NEW d \in Nat, d + 1 <= n, NEW seen \in SUBSET tags, NEW t \in tags
        PROVE  resolved[d + 1][seen][t] = visit(resolved[d], seen, t)
    <3>1. d + 1 # 0 /\ d + 1 - 1 = d OBVIOUS
    <3>2. resolved[d + 1 - 1] = resolved[d] BY <3>1
    <3>3. resolved[d + 1][seen][t] = visit(resolved[d + 1 - 1], seen, t)
      <4> DEFINE g == resolved[d + 1]
                 r == resolved[d + 1 - 1]
      <4>1. g = Step(resolved, d + 1) BY <2>2, <2>3
      <4>2. g = [s \in SUBSET tags |-> [u \in tags |->
                   IF d + 1 = 0 THEN none(s) ELSE visit(r, s, u)]]
        BY <4>1
      <4> HIDE DEF g, r
      <4>3. g[seen][t] = visit(r, seen, t) BY <3>1, <4>2
      <4> QED BY <4>3 DEF g, r
    <3> QED BY <3>2, <3>3
  <2>4. \A seen \in SUBSET tags : \A t \in tags :
          resolved[0][seen][t] = none(seen)
    <3> DEFINE g == resolved[0]
    <3>1. g = [seen \in SUBSET tags |-> [t \in tags |-> none(seen)]] BY <2>1
    <3> HIDE DEF g
    <3>2. \A seen \in SUBSET tags : \A t \in tags : g[seen][t] = none(seen) BY <3>1
    <3> QED BY <3>2 DEF g
  <2> QED BY <2>3, <2>4
<1> DEFINE Deep(d) == \A seen \in SUBSET tags : \A t \in tags :
             n <= Cardinality(seen) + d =>
               Resolved(outbounds, tags, resolved[d][seen][t], seen, t)
           L == {d \in Nat : d <= n => Deep(d)}
<1>9. \A S \in SUBSET tags : IsFiniteSet(S) /\ Cardinality(S) \in Nat
  BY FS_Subset, FS_CardinalityType DEF Graph
<1>10. 0 \in L
  <2> SUFFICES ASSUME NEW seen \in SUBSET tags, NEW t \in tags, n <= Cardinality(seen)
               PROVE  Resolved(outbounds, tags, resolved[0][seen][t], seen, t)
    BY <1>9
  <2>1. seen = tags
    <3>1. Cardinality(seen) <= n /\ (Cardinality(seen) = n => seen = tags)
      BY FS_Subset DEF Graph
    <3> HIDE DEF n
    <3> QED BY <1>1, <1>9, <3>1
  <2> DEFINE x == resolved[0][seen][t]
  <2>2. x = [found |-> "", seen |-> seen] BY <1>8 DEF none
  <2> HIDE DEF x
  <2>3. x.found = "" /\ x.seen = seen BY <2>2
  <2> QED BY <2>1, <2>3 DEF Resolved, Settled, x
<1>11. ASSUME NEW d \in Nat, d \in L PROVE d + 1 \in L
  <2> SUFFICES ASSUME d + 1 <= n, NEW seen \in SUBSET tags, NEW t \in tags,
                      n <= Cardinality(seen) + (d + 1)
               PROVE  Resolved(outbounds, tags, resolved[d + 1][seen][t], seen, t)
    OBVIOUS
  <2> DEFINE x == resolved[d + 1][seen][t]
             start == seen \cup {t}
             children == outbounds[t].children
  <2>1. Deep(d) BY <1>1, <1>11
  <2>2. x = visit(resolved[d], seen, t) BY <1>8
  <2> HIDE DEF x
  <2>3. start \in SUBSET tags /\ seen \subseteq start /\ t \in start OBVIOUS
  <2>4. CASE t \in seen
    <3>1. x = [found |-> "", seen |-> seen] BY <2>2, <2>4 DEF visit
    <3>2. x.found = "" /\ x.seen = seen BY <3>1
    <3> QED BY <2>4, <3>2 DEF Resolved, Settled, x
  <2>5. CASE t \notin seen /\ t \notin DOMAIN outbounds
    <3>1. x = [found |-> "", seen |-> start] BY <2>2, <2>5 DEF visit
    <3>2. x.found = "" /\ x.seen = start BY <3>1
    <3> QED BY <2>3, <2>5, <3>2 DEF Resolved, Settled, x
  <2>6. CASE t \notin seen /\ Server(outbounds, t)
    <3>1. x = [found |-> t, seen |-> start] BY <2>2, <2>6 DEF visit, Server
    <3>2. x.found = t /\ x.seen = start BY <3>1
    <3>3. t # "" BY <2>6 DEF Server, Graph
    <3> QED BY <2>3, <2>6, <3>2, <3>3 DEF Resolved, Leads, x
  <2>7. CASE t \notin seen /\ t \in DOMAIN outbounds /\ ~HasServer(outbounds[t])
    <3>1. x = TriedChildren(children, resolved[d], start) BY <2>2, <2>7 DEF visit
    <3>2. IsList(children) /\ ToSet(children) \subseteq tags BY <2>7 DEF Graph
    <3>3. ToSet(children) = {children[j] : j \in 1 .. Len(children)}
      BY <3>2, ListFacts DEF ToSet
    <3>4. ASSUME NEW S \in SUBSET tags, start \subseteq S PROVE n <= Cardinality(S) + d
      <4>1. IsFiniteSet(seen) /\ IsFiniteSet(S) /\ Cardinality(seen) \in Nat
            /\ Cardinality(S) \in Nat
        BY <1>9
      <4>2. Cardinality(start) = Cardinality(seen) + 1 BY <2>7, <4>1, FS_AddElement
      <4>3. Cardinality(start) <= Cardinality(S) BY <3>4, <4>1, FS_Subset
      <4> HIDE DEF n
      <4> QED BY <1>1, <4>1, <4>2, <4>3
    <3>5. \A S \in SUBSET tags : \A u \in tags :
            start \subseteq S => Resolved(outbounds, tags, resolved[d][S][u], S, u)
      <4> HIDE DEF start, n
      <4> QED BY <2>1, <3>4
    <3> DEFINE r == resolved[d]
               m == Len(children)
    <3>6. Tried(outbounds, tags, x, start, children, m)
      <4> HIDE DEF r, children, start
      <4>1. \A j \in 1 .. m : children[j] \in tags BY <3>2, <3>3
      <4>2. start \in SUBSET tags BY <2>3
      <4>3. \A S \in SUBSET tags : \A u \in tags :
              start \subseteq S => Resolved(outbounds, tags, r[S][u], S, u)
        BY <3>5 DEF r
      <4>4. x = TriedChildren(children, r, start) BY <3>1 DEF r
      <4> HIDE DEF m
      <4> QED BY <3>2, <4>1, <4>2, <4>3, <4>4, TriedIs DEF m
    <3>7. x.seen \in SUBSET tags /\ seen \subseteq x.seen /\ t \in x.seen
      BY <2>3, <3>6 DEF Tried
    <3>8. ASSUME x.found = "" PROVE Settled(outbounds, seen, x.seen)
      <4>1. Settled(outbounds, start, x.seen) /\ ToSet(children) \subseteq x.seen
        BY <3>3, <3>6, <3>8 DEF Tried
      <4> QED BY <2>7, <4>1 DEF Settled
    <3>9. ASSUME x.found # "" PROVE Server(outbounds, x.found)
                                    /\ Leads(outbounds, tags, t, x.found)
      <4>1. Server(outbounds, x.found) BY <3>6, <3>9 DEF Tried
      <4>2. PICK j \in 1 .. m : Leads(outbounds, tags, children[j], x.found)
        BY <3>6, <3>9 DEF Tried
      <4>3. children[j] \in ToSet(children) BY <3>3
      <4>4. ASSUME NEW C \in SUBSET tags, t \in C, Closed(outbounds, C) PROVE x.found \in C
        <5>1. ToSet(children) \subseteq C BY <2>7, <4>4 DEF Closed
        <5> QED BY <4>2, <4>3, <4>4, <5>1 DEF Leads
      <4> QED BY <4>1, <4>4 DEF Leads
    <3> QED BY <3>7, <3>8, <3>9 DEF Resolved, x
  <2> QED BY <2>4, <2>5, <2>6, <2>7 DEF Server
<1> HIDE DEF L
<1>12. Nat \subseteq L BY <1>10, <1>11, Inductive
<1>13. Deep(n)
  <2>1. n \in L /\ n <= n BY <1>1, <1>12
  <2> QED BY <2>1 DEF L
<1>14. {} \in SUBSET tags /\ n <= Cardinality({}) + n BY <1>1, FS_EmptySet
<1> QED BY <1>6, <1>13, <1>14

(* The tags of a graph are finitely many.                                  *)
LEMMA GraphOf ==
  ASSUME NEW g, OutboundGraph(g)
  PROVE  Graph(g.outbounds, GraphTags(g.outbounds, g.final))
<1> DEFINE outbounds == g.outbounds
           D == DOMAIN outbounds
           children(t) == ToSet(outbounds[t].children)
           sets == {children(t) : t \in D}
           tags == GraphTags(outbounds, g.final)
<1>1. /\ IsFiniteSet(D) /\ "" \notin D
      /\ \A t \in D : outbounds[t].children \in Seq(children(t))
  BY DEF OutboundGraph
<1>2. tags = ({g.final} \cup D) \cup UNION sets BY DEF GraphTags
<1>3. \A t \in D : IsList(outbounds[t].children) BY <1>1 DEF IsList
<1>4. ASSUME NEW t \in D PROVE IsFiniteSet(children(t))
  <2> DEFINE s == outbounds[t].children
  <2>1. s \in Seq(children(t)) BY <1>1
  <2>2. IsList(s) BY <1>3
  <2>3. Len(s) \in Nat /\ DOMAIN s = 1 .. Len(s) BY <2>2, ListFacts
  <2>4. IsFiniteSet(1 .. Len(s)) BY <2>3, FS_Interval
  <2>5. children(t) = {s[j] : j \in 1 .. Len(s)} BY <2>3 DEF ToSet
  <2> DEFINE f == [j \in 1 .. Len(s) |-> s[j]]
  <2>6. f \in Surjection(1 .. Len(s), children(t))
    <3>1. f \in [1 .. Len(s) -> children(t)] BY <2>5
    <3>2. \A c \in children(t) : \E j \in 1 .. Len(s) : f[j] = c BY <2>5
    <3> QED BY <3>1, <3>2 DEF Surjection
  <2> QED BY <2>4, <2>6, FS_Surjection
<1>5. IsFiniteSet(sets)
  <2> DEFINE f == [t \in D |-> children(t)]
  <2>1. f \in [D -> sets] /\ \A c \in sets : \E t \in D : f[t] = c OBVIOUS
  <2>2. f \in Surjection(D, sets)
    <3> HIDE DEF f, sets
    <3> QED BY <2>1 DEF Surjection
  <2> HIDE DEF f, sets
  <2> QED BY <1>1, <2>2, FS_Surjection
<1>6. IsFiniteSet(UNION sets)
  <2>1. \A S \in sets : IsFiniteSet(S) BY <1>4
  <2> HIDE DEF sets
  <2> QED BY <1>5, <2>1, FS_UNION
<1>7. IsFiniteSet({g.final} \cup D)
  <2>1. IsFiniteSet({g.final}) BY FS_Singleton
  <2> HIDE DEF D
  <2> QED BY <1>1, <2>1, FS_Union
<1>8. IsFiniteSet(tags)
  <2> HIDE DEF tags, sets, D
  <2> QED BY <1>2, <1>6, <1>7, FS_Union
<1>9. D \subseteq tags /\ \A t \in D : children(t) \subseteq tags BY <1>2
<1> QED BY <1>1, <1>3, <1>8, <1>9 DEF Graph

LEMMA Places == \A n \in Nat : \A k \in 1 .. n : k \in Nat /\ k # 0
OBVIOUS

(* Without a final outbound that leads to a server, the first outbound     *)
(* with one is shown.                                                      *)
LEMMA FirstWithServer ==
  ASSUME NEW order, IsList(order), NEW outbounds, ToSet(order) = DOMAIN outbounds,
         "" \notin DOMAIN outbounds
  PROVE  LET first == SelectInSeq(order, LAMBDA t : HasServer(outbounds[t]))
             shown == IF first # 0 THEN order[first] ELSE ""
         IN  shown = "" <=> \A t \in DOMAIN outbounds : ~HasServer(outbounds[t])
<1> DEFINE I == {j \in 1 .. Len(order) : HasServer(outbounds[order[j]])}
           first == SelectInSeq(order, LAMBDA t : HasServer(outbounds[t]))
           shown == IF first # 0 THEN order[first] ELSE ""
<1>1. first = IF I # {} THEN Min(I) ELSE 0 BY DEF SelectInSeq
<1>2. Len(order) \in Nat /\ DOMAIN order = 1 .. Len(order) BY ListFacts
<1>3. DOMAIN outbounds = {order[j] : j \in 1 .. Len(order)} BY <1>2 DEF ToSet
<1>4. I \subseteq Nat /\ \A k \in I : k # 0 /\ k \in 1 .. Len(order)
  <2>1. \A k \in 1 .. Len(order) : k \in Nat /\ k # 0 BY <1>2, Places
  <2> QED BY <2>1
<1>5. I # {} => Min(I) \in I BY <1>4, FirstIs
<1>6. I = {} <=> \A t \in DOMAIN outbounds : ~HasServer(outbounds[t]) BY <1>3
<1> HIDE DEF I, first
<1>7. shown = "" <=> \A t \in DOMAIN outbounds : ~HasServer(outbounds[t])
  <2>1. CASE I = {} BY <1>1, <1>6, <2>1
  <2>2. CASE I # {}
    <3>1. first # 0 /\ first \in 1 .. Len(order) BY <1>1, <1>4, <1>5, <2>2
    <3>2. order[first] # "" BY <1>3, <3>1
    <3> QED BY <1>6, <2>2, <3>1, <3>2
  <2> QED BY <2>1, <2>2
<1> QED BY <1>7 DEF first

LEMMA ShownIsReached ==
  ASSUME NEW g, OutboundGraph(g), NEW shown,
         shown = extract_sing_box_endpoint(g.outbounds, g.order, g.final)
  PROVE  LET tags == DOMAIN g.outbounds
             all == GraphTags(g.outbounds, g.final)
             reached == {t \in tags : /\ HasServer(g.outbounds[t])
                                      /\ Leads(g.outbounds, all, g.final, t)}
         IN  IF reached # {} THEN shown \in reached
             ELSE shown = "" <=> \A t \in tags : ~HasServer(g.outbounds[t])
<1> DEFINE outbounds == g.outbounds
           final == g.final
           tags == DOMAIN outbounds
           all == GraphTags(outbounds, final)
           reached == {t \in tags : HasServer(outbounds[t]) /\ Leads(outbounds, all, final, t)}
           x == resolve_sing_box_outbound(outbounds, all)[{}][final]
           first == SelectInSeq(g.order, LAMBDA t : HasServer(outbounds[t]))
           fallback == IF first # 0 THEN g.order[first] ELSE ""
<1>1. shown = IF final # "" /\ x.found # "" THEN x.found ELSE fallback
  BY DEF extract_sing_box_endpoint
<1>2. Graph(outbounds, all) BY GraphOf
<1>3. final \in all BY DEF GraphTags
<1>4. Resolved(outbounds, all, x, {}, final) BY <1>2, <1>3, ResolveIs
<1>5. "" \notin tags BY DEF OutboundGraph
<1>6. fallback = "" <=> \A t \in tags : ~HasServer(outbounds[t])
  <2>1. IsList(g.order) /\ ToSet(g.order) = tags BY DEF OutboundGraph, IsList
  <2> QED BY <1>5, <2>1, FirstWithServer
<1> HIDE DEF x, first, fallback, all
<1>7. CASE x.found # ""
  <2>1. x.found \in tags /\ HasServer(outbounds[x.found])
        /\ Leads(outbounds, all, final, x.found)
    BY <1>4, <1>7 DEF Resolved, Server
  <2>2. final # ""
    <3> SUFFICES ASSUME final = "" PROVE FALSE OBVIOUS
    <3>1. Closed(outbounds, {final}) BY <1>5 DEF Closed
    <3>2. x.found \in {final} BY <1>3, <2>1, <3>1 DEF Leads
    <3> QED BY <1>5, <2>1, <3>2
  <2>3. shown = x.found BY <1>1, <1>7, <2>2
  <2>4. shown \in reached BY <2>1, <2>3
  <2> QED BY <2>4 DEF all
<1>8. CASE x.found = ""
  <2> DEFINE R == x.seen
  <2>1. R \in SUBSET all /\ final \in R /\ Settled(outbounds, {}, R)
    BY <1>4, <1>8 DEF Resolved
  <2>2. Closed(outbounds, R) BY <2>1 DEF Settled, Closed
  <2>3. ASSUME NEW t \in reached PROVE FALSE
    <3>1. t \in R BY <2>1, <2>2 DEF Leads
    <3> QED BY <2>1, <3>1 DEF Settled
  <2>4. shown = fallback BY <1>1, <1>8
  <2>5. reached = {} BY <2>3
  <2>6. shown = "" <=> \A t \in tags : ~HasServer(outbounds[t]) BY <1>6, <2>4
  <2> QED BY <2>5, <2>6 DEF all
<1> QED BY <1>7, <1>8

(* What is shown is what the search found.                                 *)
GraphInv ==
  /\ stage = "graph" => input[1] \in Graphs
  /\ stage = "extracted" =>
       /\ input[1] \in Graphs
       /\ copy.server = extract_sing_box_endpoint(input[1].outbounds, input[1].order,
                                                  input[1].final)

LEMMA GraphInit == Init => GraphInv
BY DEF Init, LibraryInit, LibraryIdle, Starts, GraphInv

LEMMA GraphStep == GraphInv /\ [Next]_vars => GraphInv'
<1> SUFFICES ASSUME GraphInv, [Next]_vars PROVE GraphInv' OBVIOUS
<1>1. CASE ExtractEndpoint
  <2> DEFINE shown == extract_sing_box_endpoint(input[1].outbounds, input[1].order,
                                                input[1].final)
  <2>1. /\ copy' = [EmptyProfile EXCEPT !.server = shown]
        /\ stage' = "extracted" /\ input' = input /\ input[1] \in Graphs
    BY <1>1 DEF ExtractEndpoint, GraphInv
  <2> HIDE DEF shown
  <2>2. copy'.server = shown BY <2>1 DEF EmptyProfile
  <2> QED BY <2>1, <2>2 DEF GraphInv, shown
<1>2. CASE ParseShareLink \/ ParseShareLinks
  BY <1>2 DEF ParseShareLink, ParseShareLinks, GraphInv
<1>3. CASE \/ BuildCoreConfig("parsed", "built") \/ BuildCoreConfig("imported", "rebuilt")
           \/ BuildCoreConfig("import", "applied")
  BY <1>3 DEF BuildCoreConfig, GraphInv
<1>4. CASE ParseCoreConfig BY <1>4 DEF ParseCoreConfig, GraphInv
<1>5. CASE UNCHANGED libraryVars BY <1>5 DEF libraryVars, GraphInv
<1> QED BY <1>1, <1>2, <1>3, <1>4, <1>5 DEF Next, LibraryNext, vars

LEMMA ShownReached == GraphInv => ShownServerIsReached
<1> SUFFICES ASSUME GraphInv, stage = "extracted" PROVE ShownServerIsReached
  BY DEF ShownServerIsReached
<1> DEFINE g == input[1]
<1>1. /\ OutboundGraph(g)
      /\ copy.server = extract_sing_box_endpoint(g.outbounds, g.order, g.final)
  BY NativeLibraryAssumption DEF GraphInv
<1> QED BY <1>1, ShownIsReached DEF ShownServerIsReached, Leads, Closed

(* ShownServerIsReached: for every graph of outbounds, with cycles and     *)
(* names of missing outbounds, the server that is shown is one that the    *)
(* final outbound leads to if there is one, else one of the configuration  *)
(* if it has any (resolve_sing_box_outbound, extract_sing_box_endpoint).   *)
THEOREM ShownServerLeads == Spec => []ShownServerIsReached
BY GraphInit, GraphStep, ShownReached, PTL DEF Spec

-----------------------------------------------------------------------------
(* The link that is dialled. The fields of a profile.                      *)
Fields == {"protocol", "server", "port", "transport", "tlsMode", "remark", "userId",
           "password", "method", "security", "alpn", "host", "publicKey", "plugin",
           "serverPorts", "uploadMbps", "downloadMbps", "obfs", "obfsPassword",
           "singBoxConfigJson", "xrayConfigJson"}

(* A profile of a link: a record with the fields, none imported.           *)
LinkProfile(p) ==
  /\ p = [f \in Fields |-> p[f]]
  /\ p.singBoxConfigJson = <<>> /\ p.xrayConfigJson = <<>>
  /\ p.transport # "" /\ p.tlsMode # ""
  /\ IsList(p.alpn) /\ IsList(p.serverPorts)

(* The order in which Dart writes the fields, and what kinds they are.     *)
LEMMA OrderIs ==
  /\ DOMAIN JsonOrder = 1 .. 37 /\ Len(JsonOrder) = 37
  /\ Fields \subseteq ToSet(JsonOrder)
  /\ \A i \in 1 .. 37 : /\ JsonOrder[i] = "alpn" <=> i = 14
                        /\ JsonOrder[i] = "serverPorts" <=> i = 26
<1>1. DOMAIN JsonOrder = 1 .. 37 /\ Len(JsonOrder) = 37 BY DEF JsonOrder
<1>2. /\ JsonOrder[1] = "protocol" /\ JsonOrder[2] = "server" /\ JsonOrder[3] = "port"
      /\ JsonOrder[4] = "transport" /\ JsonOrder[5] = "tlsMode" /\ JsonOrder[6] = "remark"
      /\ JsonOrder[7] = "userId" /\ JsonOrder[8] = "password" /\ JsonOrder[9] = "method"
      /\ JsonOrder[10] = "security" /\ JsonOrder[11] = "alterId" /\ JsonOrder[12] = "flow"
      /\ JsonOrder[13] = "sni" /\ JsonOrder[14] = "alpn" /\ JsonOrder[15] = "host"
  BY DEF JsonOrder
<1>3. /\ JsonOrder[16] = "path" /\ JsonOrder[17] = "serviceName"
      /\ JsonOrder[18] = "authority" /\ JsonOrder[19] = "fingerprint"
      /\ JsonOrder[20] = "publicKey" /\ JsonOrder[21] = "shortId"
      /\ JsonOrder[22] = "spiderX" /\ JsonOrder[23] = "allowInsecure"
      /\ JsonOrder[24] = "plugin" /\ JsonOrder[25] = "pluginOpts"
      /\ JsonOrder[26] = "serverPorts" /\ JsonOrder[27] = "uploadMbps"
      /\ JsonOrder[28] = "downloadMbps" /\ JsonOrder[29] = "hysteriaNetwork"
      /\ JsonOrder[30] = "obfs" /\ JsonOrder[31] = "obfsPassword"
      /\ JsonOrder[32] = "singBoxOutboundType" /\ JsonOrder[33] = "singBoxConfigJson"
      /\ JsonOrder[34] = "singBoxConfigDirectory" /\ JsonOrder[35] = "xrayOutboundProtocol"
      /\ JsonOrder[36] = "xrayConfigJson" /\ JsonOrder[37] = "xrayConfigDirectory"
  BY DEF JsonOrder
<1> DEFINE At(i) == JsonOrder[i]
<1>4. \A i \in 1 .. 37 : At(i) \in ToSet(JsonOrder) BY <1>1 DEF ToSet
<1>5. Fields \subseteq ToSet(JsonOrder)
  <2>1. {At(1), At(2), At(3), At(4), At(5), At(6), At(7), At(8), At(9), At(10), At(14), At(15),
         At(20), At(24), At(26), At(27), At(28), At(30), At(31), At(33), At(36)}
        \subseteq ToSet(JsonOrder)
    BY <1>4
  <2>2. Fields = {At(1), At(2), At(3), At(4), At(5), At(6), At(7), At(8), At(9), At(10), At(14),
                  At(15), At(20), At(24), At(26), At(27), At(28), At(30), At(31), At(33), At(36)}
    BY <1>2, <1>3 DEF Fields
  <2> QED BY <2>1, <2>2
<1>6. ASSUME NEW i \in 1 .. 37
      PROVE  (JsonOrder[i] = "alpn" <=> i = 14) /\ (JsonOrder[i] = "serverPorts" <=> i = 26)
  <2>1. CASE i \in 1 .. 15
    <3>1. \/ i = 1 \/ i = 2 \/ i = 3 \/ i = 4 \/ i = 5 \/ i = 6 \/ i = 7 \/ i = 8 \/ i = 9
          \/ i = 10 \/ i = 11 \/ i = 12 \/ i = 13 \/ i = 14 \/ i = 15
      BY <2>1
    <3> QED BY <1>2, <3>1
  <2>2. CASE i \in 16 .. 37
    <3>1. \/ i = 16 \/ i = 17 \/ i = 18 \/ i = 19 \/ i = 20 \/ i = 21 \/ i = 22 \/ i = 23
          \/ i = 24 \/ i = 25 \/ i = 26 \/ i = 27 \/ i = 28 \/ i = 29 \/ i = 30 \/ i = 31
          \/ i = 32 \/ i = 33 \/ i = 34 \/ i = 35 \/ i = 36 \/ i = 37
      BY <2>2
    <3> QED BY <1>3, <3>1
  <2> QED BY <2>1, <2>2
<1> QED BY <1>1, <1>5, <1>6

LEMMA FieldKinds ==
  /\ DOMAIN EmptyProfile = Fields
  /\ NumberFields \cup ArrayFields \cup ConfigFields \cup TextFields = Fields
  /\ NumberFields = {"port", "uploadMbps", "downloadMbps"}
  /\ ArrayFields = {"alpn", "serverPorts"}
  /\ ConfigFields = {"singBoxConfigJson", "xrayConfigJson"}
  /\ TextFields = Fields \ {"port", "uploadMbps", "downloadMbps", "alpn", "serverPorts",
                            "singBoxConfigJson", "xrayConfigJson"}
  /\ {"transport", "tlsMode"} \subseteq TextFields
<1>1. DOMAIN EmptyProfile = Fields BY DEF EmptyProfile, Fields
<1> QED BY <1>1 DEF NumberFields, ArrayFields, ConfigFields, TextFields, Fields

(* The texts that are written for a field of each kind.                    *)
LEMMA WrittenIs ==
  ASSUME NEW p
  PROVE  /\ \A k \in TextFields : Written(p)[k] = {p[k]}
         /\ \A k \in ArrayFields : Written(p)[k] = ToSet(p[k])
<1>1. TextFields \subseteq ToSet(JsonOrder) /\ ArrayFields \subseteq ToSet(JsonOrder)
  BY OrderIs, FieldKinds
<1>2. TextFields \cap ArrayFields = {} BY FieldKinds
<1> QED BY <1>1, <1>2 DEF Written

(* Without a text that is the name of a field, each field is found where   *)
(* it was written, and the profile is read back as it is                   *)
(* (profile_from_json).                                                    *)
LEMMA FoundIs ==
  ASSUME NEW p, PlainTexts(p), NEW key \in ToSet(JsonOrder),
         NEW at, at = ReadAt(JsonOrder, Written(p), key)
  PROVE  at \in 1 .. 37 /\ JsonOrder[at] = key /\ Found(p, key) = key
<1> DEFINE I == {i \in 1 .. Len(JsonOrder) :
                   JsonOrder[i] = key \/ key \in Written(p)[JsonOrder[i]]}
           n == IF I # {} THEN Min(I) ELSE 0
<1>1. at = IF n = 0 \/ JsonOrder[n] = key THEN n ELSE n + 1
  BY DEF ReadAt, SelectInSeq
<1>2. DOMAIN JsonOrder = 1 .. 37 /\ Len(JsonOrder) = 37 BY OrderIs
<1>3. ASSUME NEW i \in I PROVE i \in 1 .. 37 /\ JsonOrder[i] = key
  <2>1. i \in 1 .. 37 /\ JsonOrder[i] \in ToSet(JsonOrder) BY <1>2 DEF ToSet
  <2>2. key \notin Written(p)[JsonOrder[i]] BY <2>1 DEF PlainTexts
  <2> QED BY <2>1, <2>2
<1>4. I # {} /\ I \subseteq Nat
  <2>1. PICK i \in 1 .. 37 : JsonOrder[i] = key BY <1>2 DEF ToSet
  <2>2. i \in I BY <1>2, <2>1
  <2> QED BY <1>3, <2>2
<1> HIDE DEF I
<1>5. Min(I) \in I BY <1>4, FirstIs
<1>6. n \in 1 .. 37 /\ JsonOrder[n] = key BY <1>3, <1>4, <1>5
<1> HIDE DEF n
<1>7. at = n BY <1>1, <1>6
<1> QED BY <1>6, <1>7 DEF Found

LEMMA ReadText ==
  ASSUME NEW p, PlainTexts(p), NEW f \in TextFields
  PROVE  json_string_value(p, f) = p[f]
<1>1. f \in ToSet(JsonOrder) BY OrderIs, FieldKinds
<1>2. Found(p, f) = f BY <1>1, FoundIs
<1>3. p[f] # ControlText BY <1>1, WrittenIs DEF PlainTexts
<1>4. f \notin NumberFields \cup {"alterId"} BY FieldKinds DEF Fields
<1> QED BY <1>2, <1>3, <1>4 DEF json_string_value, Unescaped

LEMMA ReadArray ==
  ASSUME NEW p, PlainTexts(p), NEW f \in ArrayFields, IsList(p[f])
  PROVE  json_string_array_value(p, f) = p[f]
<1> DEFINE at == ReadAt(JsonOrder, Written(p), f)
           read == [i \in DOMAIN p[f] |-> Unescaped(p[f][i])]
<1>1. f \in ToSet(JsonOrder) BY OrderIs, FieldKinds
<1>2. at \in 1 .. 37 /\ JsonOrder[at] = f BY <1>1, FoundIs
<1> HIDE DEF at
<1>3. json_string_array_value(p, f) = read
  <2>1. CASE f = "alpn"
    <3>1. \E n \in DOMAIN JsonOrder : n >= at /\ JsonOrder[n] = "alpn"
      BY <1>2, <2>1, OrderIs
    <3> QED BY <2>1, <3>1 DEF json_string_array_value, at
  <2>2. CASE f = "serverPorts"
    <3>1. at = 26 BY <1>2, <2>2, OrderIs
    <3>2. ~\E n \in DOMAIN JsonOrder : n >= at /\ JsonOrder[n] = "alpn"
      BY <3>1, OrderIs
    <3> QED BY <2>2, <3>2 DEF json_string_array_value, at
  <2> QED BY <2>1, <2>2, FieldKinds
<1>4. ASSUME NEW i \in DOMAIN p[f] PROVE Unescaped(p[f][i]) = p[f][i]
  <2>1. p[f][i] \in ToSet(p[f]) BY DEF ToSet
  <2>2. p[f][i] # ControlText BY <1>1, <2>1, WrittenIs DEF PlainTexts
  <2> QED BY <2>2 DEF Unescaped
<1>5. read = [i \in DOMAIN p[f] |-> p[f][i]] BY <1>4
<1>6. p[f] = [i \in DOMAIN p[f] |-> p[f][i]]
  <2>1. PICK S : p[f] \in Seq(S) BY DEF IsList
  <2>2. p[f] = [i \in 1 .. Len(p[f]) |-> p[f][i]] /\ DOMAIN p[f] = 1 .. Len(p[f])
    BY <2>1, LenProperties
  <2> QED BY <2>2
<1> QED BY <1>3, <1>5, <1>6

(* The text of a configuration that is read: the one of the profile, none, *)
(* or a text of the profile that was misread.                              *)
ReadFor(v, own) == v = own \/ v = <<>> \/ \E text : v = <<[stray |-> text]>>

LEMMA ReadConfig ==
  ASSUME NEW p, NEW f \in ConfigFields, NEW v, v = profile_from_json(p)[f]
  PROVE  (PlainTexts(p) => v = p[f]) /\ ReadFor(v, p[f])
<1>1. f \in Fields /\ f \notin {"transport", "tlsMode"} \cup NumberFields \cup ArrayFields
  BY FieldKinds
<1>2. v = json_config_value(p, f) BY <1>1, FieldKinds DEF profile_from_json
<1>3. PlainTexts(p) => Found(p, f) = f
  <2>1. f \in ToSet(JsonOrder) BY <1>1, OrderIs
  <2> QED BY <2>1, FoundIs
<1>4. Found(p, f) = f => v = p[f] BY <1>2 DEF json_config_value
<1>5. v = p[f] \/ v = <<>> \/ v = <<[stray |-> json_string_value(p, f)]>>
  BY <1>2 DEF json_config_value
<1>6. ReadFor(v, p[f]) BY <1>5 DEF ReadFor
<1> QED BY <1>3, <1>4, <1>6

LEMMA ReadBack ==
  ASSUME NEW p, LinkProfile(p), PlainTexts(p) PROVE profile_from_json(p) = p
<1>0. DOMAIN EmptyProfile = Fields BY FieldKinds
<1>2. ASSUME NEW f \in Fields PROVE profile_from_json(p)[f] = p[f]
  <2>3. CASE f = "transport" \/ f = "tlsMode"
    <3>1. json_string_value(p, f) = p[f] BY <2>3, FieldKinds, ReadText
    <3>2. p[f] # "" BY <2>3 DEF LinkProfile
    <3>3. OrElse(json_string_value(p, f), "raw") = p[f]
          /\ OrElse(json_string_value(p, f), "none") = p[f]
      BY <3>1, <3>2 DEF OrElse
    <3>4. f \notin NumberFields \cup ArrayFields \cup ConfigFields
      BY <2>3, FieldKinds
    <3>5. CASE f = "transport" BY <1>0, <3>3, <3>4, <3>5 DEF profile_from_json
    <3>6. CASE f = "tlsMode" BY <1>0, <3>3, <3>4, <3>6 DEF profile_from_json
    <3> QED BY <2>3, <3>5, <3>6
  <2>4. CASE f \in NumberFields
    <3>1. Found(p, f) = f BY OrderIs, FoundIs
    <3>2. json_int_value(p, f) = p[f] BY <2>4, <3>1 DEF json_int_value
    <3>3. f \notin {"transport", "tlsMode"} \cup ArrayFields \cup ConfigFields
      BY <2>4, FieldKinds
    <3> QED BY <1>0, <2>4, <3>2, <3>3 DEF profile_from_json
  <2>5. CASE f \in ArrayFields
    <3>1. IsList(p[f])
      <4>1. f = "alpn" \/ f = "serverPorts" BY <2>5, FieldKinds
      <4> QED BY <4>1 DEF LinkProfile
    <3>2. json_string_array_value(p, f) = p[f] BY <2>5, <3>1, ReadArray
    <3>3. f \notin {"transport", "tlsMode"} \cup NumberFields \cup ConfigFields
      BY <2>5, FieldKinds
    <3> QED BY <1>0, <2>5, <3>2, <3>3 DEF profile_from_json
  <2>6. CASE f \in TextFields \ {"transport", "tlsMode"}
    <3>1. f \notin NumberFields \cup ArrayFields \cup ConfigFields BY <2>6, FieldKinds
    <3>2. json_string_value(p, f) = p[f] BY <2>6, ReadText
    <3> QED BY <1>0, <2>6, <3>1, <3>2 DEF profile_from_json
  <2>7. CASE f \in ConfigFields BY <2>7, ReadConfig
  <2> QED BY <2>3, <2>4, <2>5, <2>6, <2>7, FieldKinds
<1>3. profile_from_json(p) = [f \in Fields |-> profile_from_json(p)[f]]
  BY <1>0 DEF profile_from_json
<1>4. profile_from_json(p) = [f \in Fields |-> p[f]] BY <1>2, <1>3
<1> QED BY <1>4 DEF LinkProfile

(* What a link that parses gives each protocol.                            *)
Usable(p) ==
  \/ p.protocol \in {"vless", "vmess"} /\ p.userId # ""
  \/ p.protocol = "trojan" /\ p.password # ""
  \/ p.protocol = "shadowsocks" /\ p.method # "" /\ p.tlsMode = "none" /\ p.transport = "raw"
  \/ /\ p.protocol = "hysteria" /\ p.tlsMode = "tls"
     /\ p.uploadMbps > 0 /\ p.downloadMbps > 0
  \/ /\ p.protocol = "hysteria2" /\ p.tlsMode = "tls"
     /\ p.serverPorts # <<>> => p.port = first_server_port(p.serverPorts)

(* The profiles a link is parsed into, by protocol.                        *)
LEMMA EmptyIs == LinkProfile(NotParsed)
BY ListOf DEF NotParsed, EmptyProfile, LinkProfile, Fields

LEMMA EndpointIs ==
  ASSUME NEW l, NEW protocol, NEW port
  PROVE  LET p == Endpoint(l, protocol, port)
         IN  /\ LinkProfile(p) /\ p.protocol = protocol /\ p.port = port
             /\ p.transport = "raw" /\ p.tlsMode = "none"
<1> DEFINE p == Endpoint(l, protocol, port)
<1>1. p = [EmptyProfile EXCEPT !.protocol = protocol, !.server = l.host, !.port = port,
                               !.remark = l.remark]
  BY DEF Endpoint
<1>2. LinkProfile(EmptyProfile) /\ EmptyProfile.transport = "raw" /\ EmptyProfile.tlsMode = "none"
  BY EmptyIs DEF NotParsed, EmptyProfile
<1> HIDE DEF p
<1> QED BY <1>1, <1>2 DEF LinkProfile, Fields, p

LEMMA ModesOfLinks ==
  /\ \A t : parse_transport(t) # ""
  /\ \A t : parse_tls_mode(t) # ""
BY DEF parse_transport, parse_tls_mode

(* A list of ports in a link gives its first port.                         *)
LEMMA PortsIs ==
  ASSUME NEW t, uri_ports(t) # <<>>
  PROVE  uri_port(t) = first_server_port(uri_ports(t)) /\ uri_port(t) # 0
<1> DEFINE ports == <<"1000-2000", "3000">>
           I == {i \in 1 .. Len(ports) : range_start(ports[i]) > 0}
           first == IF I # {} THEN Min(I) ELSE 0
<1>1. t = "1000-2000,3000" /\ uri_ports(t) = ports BY DEF uri_ports
<1>2. first_server_port(ports) = IF first = 0 THEN 0 ELSE range_start(ports[first])
  BY DEF first_server_port, SelectInSeq
<1>3. Len(ports) = 2 /\ ports[1] = "1000-2000" OBVIOUS
<1>4. range_start("1000-2000") > 0 BY DEF range_start
<1>5. 1 \in I /\ I \subseteq Nat \ {0} BY <1>3, <1>4
<1>6. \A i \in I : range_start(ports[i]) > 0 OBVIOUS
<1> HIDE DEF ports, I
<1>7. Min(I) \in I BY <1>5, FirstIs
<1>8. first = Min(I) /\ first # 0 BY <1>5, <1>7
<1>9. range_start(ports[first]) > 0 BY <1>6, <1>7, <1>8
<1>10. \A item : range_start(item) \in Nat BY DEF range_start
<1>11. first_server_port(ports) # 0 BY <1>2, <1>8, <1>9, <1>10
<1>12. uri_port(t) = first_server_port(uri_ports(t)) BY DEF uri_port
<1> QED BY <1>1, <1>11, <1>12

LEMMA PortsAreListed == \A t : IsList(uri_ports(t))
<1> DEFINE ports == <<"1000-2000", "3000">>
<1>1. ports \in Seq({"1000-2000", "3000"}) OBVIOUS
<1>2. IsList(ports) BY <1>1 DEF IsList
<1> QED BY <1>2, ListOf DEF uri_ports

LEMMA ParsedIs ==
  ASSUME NEW l, IsList(l.alpn), l.up \in Nat, l.down \in Nat, NEW profile0, profile0 = parse_profile(l)
  PROVE  LinkProfile(profile0) /\ (profile0 = NotParsed \/ Usable(profile0))
<1> DEFINE Good(x) == LinkProfile(x) /\ (x = NotParsed \/ Usable(x))
<1>1. Good(NotParsed) BY EmptyIs
<1>3. ASSUME l.scheme \in {"vless", "trojan"} PROVE Good(parse_vless_or_trojan(l))
  <2> DEFINE trojan == l.scheme = "trojan"
             p == Endpoint(l, l.scheme, uri_port(l.port))
             refused == \/ l.host = "" \/ p.port = 0 \/ l.user = ""
                        \/ parse_transport(l.type) = "unsupported"
             transport == parse_transport(l.type)
             tls == parse_tls_mode(IF l.security = "" /\ trojan THEN "tls" ELSE l.security)
             password == IF trojan THEN l.user ELSE ""
             userId == IF trojan THEN "" ELSE l.user
             security == IF trojan THEN "" ELSE "none"
             q == [p EXCEPT !.transport = transport, !.tlsMode = tls, !.password = password,
                            !.userId = userId, !.security = security, !.publicKey = l.pbk,
                            !.host = l.hostHeader, !.alpn = l.alpn]
  <2>1. parse_vless_or_trojan(l) = IF refused THEN NotParsed ELSE q
    BY Zenon DEF parse_vless_or_trojan
  <2>2. LinkProfile(p) /\ p.protocol = l.scheme BY EndpointIs
  <2>3. transport # "" /\ tls # "" BY ModesOfLinks
  <2>4. l.user # "" => (l.scheme = "vless" => userId # "") /\ (l.scheme = "trojan" => password # "")
    OBVIOUS
  <2>5. refused \/ l.user # "" OBVIOUS
  <2> HIDE DEF p, transport, tls, userId, password, security, refused
  <2>6. /\ LinkProfile(q) /\ q.protocol = l.scheme
        /\ q.userId = userId /\ q.password = password
    BY <2>2, <2>3 DEF LinkProfile, Fields
  <2> HIDE DEF q
  <2> QED BY <1>1, <1>3, <2>1, <2>4, <2>5, <2>6 DEF Usable
<1>4. Good(parse_vmess(l))
  <2> DEFINE add == vmess_value(l, "add")
             number == vmess_value(l, "port")
             id == vmess_value(l, "id")
             transport == parse_transport(OrElse(vmess_value(l, "net"), vmess_value(l, "type")))
             tls == OrElse(vmess_value(l, "tls"), vmess_value(l, "security"))
             mode == IF tls \in {"tls", "reality"} THEN tls ELSE "none"
             port == parse_int(number)
             remark == vmess_value(l, "ps")
             security == OrElse(OrElse(vmess_value(l, "scy"), vmess_value(l, "security")), "auto")
             host == vmess_value(l, "host")
             protocols == IF vmess_value(l, "alpn") \in Blank THEN <<>>
                          ELSE <<vmess_value(l, "alpn")>>
             refused == "" \in {add, number, id} \/ transport = "unsupported"
             e == EmptyProfile
             q == [e EXCEPT !.protocol = "vmess", !.server = add, !.port = port,
                            !.remark = remark, !.userId = id, !.transport = transport,
                            !.tlsMode = mode, !.security = security, !.host = host,
                            !.alpn = protocols]
  <2>1. parse_vmess(l) = IF refused THEN NotParsed ELSE q BY Zenon DEF parse_vmess
  <2>2. LinkProfile(e) BY EmptyIs DEF NotParsed
  <2>3. transport # "" /\ mode # "" BY ModesOfLinks
  <2>4. IsList(protocols) BY ListOf
  <2>5. refused \/ id # "" OBVIOUS
  <2> HIDE DEF e, add, port, remark, id, transport, mode, security, host, protocols, refused
  <2>6. LinkProfile(q) /\ q.protocol = "vmess" /\ q.userId = id
    BY <2>2, <2>3, <2>4 DEF LinkProfile, Fields
  <2> HIDE DEF q
  <2> QED BY <1>1, <2>1, <2>5, <2>6 DEF Usable
<1>5. Good(parse_shadowsocks(l))
  <2> DEFINE p == Endpoint(l, "shadowsocks", uri_port(l.port))
             refused == l.method = "" \/ l.host = "" \/ uri_port(l.port) = 0
             q == [p EXCEPT !.method = l.method, !.password = l.user, !.plugin = l.plugin]
  <2>1. parse_shadowsocks(l) = IF refused THEN NotParsed ELSE q
    BY Zenon DEF parse_shadowsocks
  <2>2. /\ LinkProfile(p) /\ p.protocol = "shadowsocks"
        /\ p.transport = "raw" /\ p.tlsMode = "none"
    BY EndpointIs
  <2>3. refused \/ l.method # "" OBVIOUS
  <2> HIDE DEF p, refused
  <2>4. /\ LinkProfile(q) /\ q.protocol = "shadowsocks" /\ q.method = l.method
        /\ q.tlsMode = "none" /\ q.transport = "raw"
    BY <2>2 DEF LinkProfile, Fields
  <2> HIDE DEF q
  <2> QED BY <1>1, <2>1, <2>3, <2>4 DEF Usable
<1>6. Good(parse_hysteria(l))
  <2> DEFINE version2 == l.scheme \in {"hysteria2", "hy2"}
             port == IF version2 /\ uri_port(l.port) = 0 THEN 443 ELSE uri_port(l.port)
             protocol == IF version2 THEN "hysteria2" ELSE "hysteria"
             p == Endpoint(l, protocol, port)
             refused == \/ l.host = "" \/ port = 0 \/ (~version2 /\ (l.up = 0 \/ l.down = 0))
             ports == uri_ports(l.port)
             q == [p EXCEPT !.serverPorts = ports, !.transport = "quic",
                !.tlsMode = "tls", !.alpn = l.alpn,
                !.uploadMbps = l.up, !.downloadMbps = l.down,
                !.obfs = l.obfs, !.obfsPassword = l.obfsPassword,
                !.password = l.user]
  <2>1. parse_hysteria(l) = IF refused THEN NotParsed ELSE q BY Zenon DEF parse_hysteria
  <2>2. LinkProfile(p) /\ p.protocol = protocol /\ p.port = port BY EndpointIs
  <2>3. ~refused => version2 \/ (l.up > 0 /\ l.down > 0)
    <3>1. ~refused => version2 \/ (l.up # 0 /\ l.down # 0) BY Zenon
    <3>2. (l.up # 0 => l.up > 0) /\ (l.down # 0 => l.down > 0) OBVIOUS
    <3> QED BY <3>1, <3>2
  <2>4. protocol = "hysteria2" \/ (protocol = "hysteria" /\ ~version2) OBVIOUS
  <2>6. ports # <<>> => port = first_server_port(ports) BY PortsIs
  <2>7. IsList(ports) BY PortsAreListed
  <2> HIDE DEF p, port, ports, refused, protocol, version2
  <2>5. /\ LinkProfile(q) /\ q.protocol = protocol /\ q.tlsMode = "tls"
        /\ q.uploadMbps = l.up /\ q.downloadMbps = l.down
        /\ q.serverPorts = ports /\ q.port = port
    BY <2>2, <2>7 DEF LinkProfile, Fields
  <2> HIDE DEF q
  <2> QED BY <1>1, <2>1, <2>3, <2>4, <2>5, <2>6 DEF Usable
<1> HIDE DEF Good
<1>7. Good(parse_profile(l)) BY <1>1, <1>3, <1>4, <1>5, <1>6 DEF parse_profile
<1> QED BY <1>7 DEF Good

(* Why a core cannot run a profile.                                        *)
Refused(core, p) ==
  \/ core = "xray"
     /\ (p.protocol \in {"hysteria", "hysteria2"} \/ p.transport = "quic" \/ p.plugin # "")
  \/ core = "singBox" /\ p.transport = "xhttp"
  \/ p.tlsMode = "reality" /\ p.publicKey \in Blank
  \/ p.protocol = "shadowsocks" /\ p.password \in Blank
  \/ p.obfs # "" /\ p.obfsPassword \in Blank
  \/ " " \in {p.userId, p.password, p.method, p.obfsPassword}

(* A profile of a link that a core cannot express is refused for one of    *)
(* these reasons, and one it can express is built.                         *)
LEMMA SingBoxRefuses ==
  ASSUME NEW p, Usable(p), ~sing_box_outbound_ok(p) PROVE Refused("singBox", p)
BY DEF Usable, sing_box_outbound_ok, sing_box_transport_ok, sing_box_tls_ok,
  require_value, Blank, Refused

LEMMA XrayRefuses ==
  ASSUME NEW p, Usable(p), ~xray_outbound_ok(p) PROVE Refused("xray", p)
BY DEF Usable, xray_outbound_ok, xray_stream_ok, require_value, Blank, Refused

LEMMA SingBoxBuilt ==
  ASSUME NEW p, NEW o, sing_box_outbound_ok(p), p.singBoxConfigJson = <<>>,
         NEW c, c = build_sing_box_config(p, o)
  PROVE  c # Failed /\ ~c.imported
<1>1. c.core = "singBox" /\ ~c.imported BY DEF build_sing_box_config
<1>2. Failed.core = "none" BY DEF Failed
<1> QED BY <1>1, <1>2

LEMMA XrayBuilt ==
  ASSUME NEW p, NEW o, xray_outbound_ok(p), p.xrayConfigJson = <<>>,
         NEW c, c = build_xray_config(p, o)
  PROVE  c # Failed /\ ~c.imported
<1>1. c.core = "xray" /\ ~c.imported BY DEF build_xray_config
<1>2. Failed.core = "none" BY DEF Failed
<1> QED BY <1>1, <1>2

LEMMA RefusedIs ==
  ASSUME NEW p, Usable(p), p.singBoxConfigJson = <<>>, p.xrayConfigJson = <<>>,
         NEW o, Routed(o), NEW c, c = build_core_config(p, o)
  PROVE  IF c = Failed THEN Refused(o.core, p) ELSE ~c.imported
<1>1. CASE o.core = "singBox"
  <2>1. c = build_sing_box_config(p, o) BY <1>1 DEF build_core_config
  <2>2. CASE sing_box_outbound_ok(p) BY <2>1, <2>2, SingBoxBuilt
  <2>3. CASE ~sing_box_outbound_ok(p)
    <3>1. c = Failed BY <2>1, <2>3 DEF build_sing_box_config
    <3> QED BY <1>1, <2>3, <3>1, SingBoxRefuses
  <2> QED BY <2>2, <2>3
<1>2. CASE o.core = "xray"
  <2>1. c = build_xray_config(p, o) BY <1>2 DEF build_core_config
  <2>2. CASE xray_outbound_ok(p) BY <2>1, <2>2, XrayBuilt
  <2>3. CASE ~xray_outbound_ok(p)
    <3>1. c = Failed BY <2>1, <2>3 DEF build_xray_config
    <3> QED BY <1>2, <2>3, <3>1, XrayRefuses
  <2> QED BY <2>2, <2>3
<1> QED BY <1>1, <1>2 DEF Routed

-----------------------------------------------------------------------------
(* The core of a configuration, by its score: a score is a number,         *)
(* positive when an item has the kind, and zero when nothing of it is      *)
(* known.                                                                  *)
LEMMA ScoreIs ==
  ASSUME NEW keys, NEW root, NEW route, NEW item, NEW kind, IsList(keys.items),
         IsFiniteSet(root), IsFiniteSet(route), IsFiniteSet(item)
  PROVE  LET score == Score(keys, root, route, item, kind)
         IN  /\ score \in Nat
             /\ (\E i \in 1 .. Len(keys.items) : kind \in keys.items[i]) => score > 0
             /\ /\ keys.root \cap root = {} /\ keys.route \cap route = {}
                /\ \A i \in 1 .. Len(keys.items) :
                      kind \notin keys.items[i] /\ keys.items[i] \cap item = {}
                => score = 0
<1> DEFINE places == DOMAIN keys.items
           typed == {i \in places : kind \in keys.items[i]}
           known == {at \in places \X item : at[2] \in keys.items[at[1]]}
           a == Cardinality(keys.root \cap root)
           b == Cardinality(keys.route \cap route)
           m == Cardinality(typed)
           n == Cardinality(known)
           score == Score(keys, root, route, item, kind)
<1>1. score = 3 * a + 2 * b + 6 * m + 2 * n BY Zenon DEF Score
<1>2. Len(keys.items) \in Nat /\ places = 1 .. Len(keys.items) BY ListFacts
<1>3. IsFiniteSet(places) BY <1>2, FS_Interval
<1>4. IsFiniteSet(typed) BY <1>3, FS_Subset
<1>5. IsFiniteSet(known)
  <2>1. IsFiniteSet(places \X item) BY <1>3, FS_Product
  <2> QED BY <2>1, FS_Subset
<1>6. IsFiniteSet(keys.root \cap root) /\ IsFiniteSet(keys.route \cap route)
  BY FS_Intersection
<1>7. a \in Nat /\ b \in Nat /\ m \in Nat /\ n \in Nat
  BY <1>4, <1>5, <1>6, FS_CardinalityType
<1>8. ASSUME NEW i \in places, kind \in keys.items[i] PROVE m > 0
  <2>1. typed # {} BY <1>8
  <2>2. m # 0 BY <1>4, <2>1, FS_EmptySet
  <2> QED BY <1>7, <2>2
<1>9. ASSUME keys.root \cap root = {}, keys.route \cap route = {},
             \A i \in places : kind \notin keys.items[i] /\ keys.items[i] \cap item = {}
      PROVE  a = 0 /\ b = 0 /\ m = 0 /\ n = 0
  <2>1. typed = {} BY <1>9
  <2>2. known = {} BY <1>9
  <2> QED BY <1>9, <2>1, <2>2, FS_EmptySet
<1> HIDE DEF places, a, b, m, n, score, typed, known
<1>10. score \in Nat BY <1>1, <1>7
<1>11. m > 0 => score > 0 BY <1>1, <1>7
<1>12. a = 0 /\ b = 0 /\ m = 0 /\ n = 0 => score = 0 BY <1>1
<1> QED BY <1>2, <1>8, <1>9, <1>10, <1>11, <1>12 DEF score

(* The keys the scores look at are finitely many.                          *)
LEMMA ScoreSets ==
  /\ IsFiniteSet({"routing", "api", "policy", "transport", "stats"})
  /\ IsFiniteSet({"rules", "balancers", "domainStrategy", "domainMatcher"})
  /\ IsFiniteSet({"streamSettings", "sendThrough", "proxySettings", "mux", "targetStrategy"})
  /\ IsFiniteSet({"route", "ntp", "certificate", "endpoints", "services", "experimental"})
  /\ IsFiniteSet({"rules", "rule_set", "final", "auto_detect_interface", "default_interface",
                  "default_domain_resolver"})
  /\ IsFiniteSet({"listen_port", "server_port", "tls", "transport", "dialer"})
<1>1. ASSUME NEW S, IsFiniteSet(S), NEW x PROVE IsFiniteSet({x} \cup S)
  BY <1>1, FS_AddElement, FS_Union, FS_Singleton
<1>2. \A a, b, c, d, e, f : IsFiniteSet({a, b, c, d, e, f})
  <2> TAKE a, b, c, d, e, f
  <2>1. IsFiniteSet({f}) BY FS_Singleton
  <2>2. IsFiniteSet({e} \cup {f}) BY <1>1, <2>1
  <2>3. IsFiniteSet({d} \cup ({e} \cup {f})) BY <1>1, <2>2
  <2>4. IsFiniteSet({c} \cup ({d} \cup ({e} \cup {f}))) BY <1>1, <2>3
  <2>5. IsFiniteSet({b} \cup ({c} \cup ({d} \cup ({e} \cup {f})))) BY <1>1, <2>4
  <2>6. IsFiniteSet({a} \cup ({b} \cup ({c} \cup ({d} \cup ({e} \cup {f})))))
    BY <1>1, <2>5
  <2>7. {a, b, c, d, e, f} = {a} \cup ({b} \cup ({c} \cup ({d} \cup ({e} \cup {f})))) OBVIOUS
  <2> QED BY <2>6, <2>7
<1> DEFINE A == {"routing", "api", "policy", "transport", "stats", "stats"}
           B == {"rules", "balancers", "domainStrategy", "domainMatcher", "rules", "rules"}
           C == {"streamSettings", "sendThrough", "proxySettings", "mux", "targetStrategy", "mux"}
           D == {"listen_port", "server_port", "tls", "transport", "dialer", "dialer"}
<1>3. IsFiniteSet(A) /\ IsFiniteSet(B) /\ IsFiniteSet(C) /\ IsFiniteSet(D)
  BY <1>2
<1>4. /\ A = {"routing", "api", "policy", "transport", "stats"}
      /\ B = {"rules", "balancers", "domainStrategy", "domainMatcher"}
      /\ C = {"streamSettings", "sendThrough", "proxySettings", "mux", "targetStrategy"}
      /\ D = {"listen_port", "server_port", "tls", "transport", "dialer"}
  OBVIOUS
<1> HIDE DEF A, B, C, D
<1> QED BY <1>2, <1>3, <1>4

(* The scores of a configuration of the app tell its core.                 *)
LEMMA SingBoxScores ==
  ASSUME NEW c, c.core = "singBox"
  PROVE  LET keys == ConfigKeys(c)
         IN  /\ config_score_sing_box(keys) > config_score_xray(keys)
             /\ ~(config_score_xray(keys) > config_score_sing_box(keys))
<1> DEFINE keys == ConfigKeys(c)
           route == {"final", "auto_detect_interface"}
                    \cup (IF c.rules = <<>> THEN {} ELSE {"rules"})
                    \cup (IF c.resolver = "none" THEN {} ELSE {"default_domain_resolver"})
                    \cup (IF c.bound THEN {"default_interface"} ELSE {})
           in == IF c.inbound = "tun-in" THEN {"type"} ELSE {"type", "listen_port"}
           out == {"type", "server_port"}
                  \cup (IF c.outbound.transport = "raw" THEN {} ELSE {"transport"})
                  \cup (IF c.outbound.tlsMode = "none" THEN {} ELSE {"tls"})
           items == <<in, out, {"type"}>>
           xroute == {"rules", "balancers", "domainStrategy", "domainMatcher"} \cap
                     (IF "routing" \in keys.root THEN keys.route ELSE {})
           sroute == {"rules", "rule_set", "final", "auto_detect_interface",
                      "default_interface", "default_domain_resolver"} \cap
                     (IF "route" \in keys.root THEN keys.route ELSE {})
<1>1. keys = [root |-> {"inbounds", "outbounds", "route"}, route |-> route, items |-> items]
  BY Zenon DEF ConfigKeys
<1>2. keys.root = {"inbounds", "outbounds", "route"} /\ keys.items = items
  <2> HIDE DEF keys, route, items
  <2> QED BY <1>1
<1>3. /\ IsList(items) /\ Len(items) = 3
      /\ \A i \in 1 .. 3 : "type" \in items[i] /\ items[i] \subseteq
            {"type", "listen_port", "server_port", "transport", "tls"}
  <2>1. "type" \in in /\ in \subseteq {"type", "listen_port", "server_port", "transport", "tls"}
    OBVIOUS
  <2>2. "type" \in out /\ out \subseteq {"type", "listen_port", "server_port", "transport", "tls"}
    OBVIOUS
  <2> HIDE DEF in, out
  <2>3. items \in Seq({in, out, {"type"}}) /\ Len(items) = 3
        /\ items[1] = in /\ items[2] = out /\ items[3] = {"type"}
    OBVIOUS
  <2>4. \A i \in 1 .. 3 : i = 1 \/ i = 2 \/ i = 3 OBVIOUS
  <2> HIDE DEF items
  <2> QED BY <2>1, <2>2, <2>3, <2>4 DEF IsList
<1> HIDE DEF keys, route, items, in, out
<1>4. xroute = {} BY <1>2
<1>5. IsFiniteSet(xroute) /\ IsFiniteSet(sroute)
  BY ScoreSets, FS_Intersection
<1> HIDE DEF xroute, sroute
<1>6. config_score_xray(keys) = 0
  <2> DEFINE root == {"routing", "api", "policy", "transport", "stats"}
             item == {"streamSettings", "sendThrough", "proxySettings", "mux", "targetStrategy"}
  <2>1. keys.root \cap root = {} BY <1>2
  <2>2. keys.route \cap xroute = {} BY <1>4
  <2>3. \A i \in 1 .. Len(keys.items) :
          "protocol" \notin keys.items[i] /\ keys.items[i] \cap item = {}
    BY <1>2, <1>3
  <2>4. IsFiniteSet(root) /\ IsFiniteSet(item) BY ScoreSets
  <2>5. config_score_xray(keys) = Score(keys, root, xroute, item, "protocol")
    BY DEF config_score_xray, xroute
  <2> HIDE DEF root, item
  <2> QED BY <1>2, <1>3, <1>5, <2>1, <2>2, <2>3, <2>4, <2>5, ScoreIs
<1>7. config_score_sing_box(keys) \in Nat /\ config_score_sing_box(keys) > 0
  <2> DEFINE root == {"route", "ntp", "certificate", "endpoints", "services", "experimental"}
             item == {"listen_port", "server_port", "tls", "transport", "dialer"}
  <2>1. 1 \in 1 .. Len(keys.items) /\ "type" \in keys.items[1]
    BY <1>2, <1>3
  <2>2. IsFiniteSet(root) /\ IsFiniteSet(item) BY ScoreSets
  <2>3. config_score_sing_box(keys) = Score(keys, root, sroute, item, "type")
    BY DEF config_score_sing_box, sroute
  <2> HIDE DEF root, item
  <2> QED BY <1>2, <1>3, <1>5, <2>1, <2>2, <2>3, ScoreIs
<1> QED BY <1>6, <1>7 DEF keys

LEMMA XrayScores ==
  ASSUME NEW c, c.core = "xray"
  PROVE  LET keys == ConfigKeys(c)
         IN  /\ config_score_xray(keys) > config_score_sing_box(keys)
             /\ ~(config_score_sing_box(keys) > config_score_xray(keys))
<1> DEFINE keys == ConfigKeys(c)
           root0 == {"inbounds", "outbounds"} \cup (IF c.rules = <<>> THEN {} ELSE {"routing"})
           route == IF c.rules = <<>> THEN {} ELSE {"domainStrategy", "rules"}
           mid == <<{"protocol"}, {"protocol", "streamSettings"}>>
           a == When(c.inbound = "socks-in", <<{"protocol"}>>)
           b == When(c.dns, <<{"protocol"}>>)
           d == <<{"protocol"}, {"protocol"}>>
           items == a \o mid \o b \o d
           xroute == {"rules", "balancers", "domainStrategy", "domainMatcher"} \cap
                     (IF "routing" \in keys.root THEN keys.route ELSE {})
           sroute == {"rules", "rule_set", "final", "auto_detect_interface",
                      "default_interface", "default_domain_resolver"} \cap
                     (IF "route" \in keys.root THEN keys.route ELSE {})
           Items(s) == /\ IsList(s)
                       /\ \A i \in 1 .. Len(s) :
                             "protocol" \in s[i] /\ s[i] \subseteq {"protocol", "streamSettings"}
<1>1. keys = [root |-> root0, route |-> route, items |-> items]
  BY Zenon DEF ConfigKeys
<1>2. keys.root = root0 /\ keys.items = items
  <2> HIDE DEF keys, root0, route, items
  <2> QED BY <1>1
<1>3. root0 \subseteq {"inbounds", "outbounds", "routing"} OBVIOUS
<1>4. ASSUME NEW s, NEW t, Items(s), Items(t)
      PROVE  Items(s \o t) /\ Len(s \o t) = Len(s) + Len(t) /\ Len(s) \in Nat
  <2>1. IsList(s) /\ IsList(t) BY <1>4
  <2>2. /\ Len(s) \in Nat /\ DOMAIN s = 1 .. Len(s) /\ Len(t) \in Nat
        /\ DOMAIN t = 1 .. Len(t)
    BY <2>1, ListFacts
  <2>3. IsList(s \o t) /\ Len(s \o t) = Len(s) + Len(t) BY <2>1, ConcatLists
  <2>4. ASSUME NEW i \in 1 .. Len(s \o t)
        PROVE  "protocol" \in (s \o t)[i] /\ (s \o t)[i] \subseteq {"protocol", "streamSettings"}
    <3>1. i \in DOMAIN (s \o t) BY <2>3, ListFacts
    <3>2. (s \o t)[i] = IF i <= Len(s) THEN s[i] ELSE t[i - Len(s)]
      BY <2>1, <3>1, ConcatLists
    <3>3. CASE i <= Len(s)
      <4>1. i \in 1 .. Len(s) BY <2>2, <2>3, <3>3
      <4> QED BY <1>4, <3>2, <3>3, <4>1
    <3>4. CASE ~(i <= Len(s))
      <4>1. i - Len(s) \in 1 .. Len(t) BY <2>2, <2>3, <3>4
      <4> QED BY <1>4, <3>2, <3>4, <4>1
    <3> QED BY <3>3, <3>4
  <2> QED BY <2>2, <2>3, <2>4
<1>5. Items(<<>>) /\ Items(<<{"protocol"}>>)
  BY ListOf
<1>6. Items(mid) /\ Len(mid) = 2 /\ Items(d)
  <2>1. /\ mid \in Seq({{"protocol"}, {"protocol", "streamSettings"}}) /\ Len(mid) = 2
        /\ mid[1] = {"protocol"} /\ mid[2] = {"protocol", "streamSettings"}
        /\ d \in Seq({{"protocol"}}) /\ Len(d) = 2 /\ d[1] = {"protocol"} /\ d[2] = {"protocol"}
    OBVIOUS
  <2>2. \A i \in 1 .. 2 : i = 1 \/ i = 2 OBVIOUS
  <2> HIDE DEF mid, d
  <2> QED BY <2>1, <2>2 DEF IsList
<1>7. Items(a) /\ Items(b) BY <1>5 DEF When
<1> HIDE DEF Items, a, b, mid, d
<1>8. Items(a \o mid) /\ Len(a \o mid) = Len(a) + 2 /\ Len(a) \in Nat BY <1>4, <1>6, <1>7
<1>9. Items((a \o mid) \o b) /\ Len((a \o mid) \o b) = Len(a) + 2 + Len(b)
      /\ Len(b) \in Nat
  <2>1. Len((a \o mid) \o b) = Len(a \o mid) + Len(b) /\ Items((a \o mid) \o b)
    BY <1>4, <1>7, <1>8
  <2>2. Len(b) \in Nat BY <1>4, <1>7
  <2> QED BY <1>8, <2>1, <2>2
<1>10. Items(items) /\ Len(items) >= 2
  <2>1. /\ Items(((a \o mid) \o b) \o d)
        /\ Len(((a \o mid) \o b) \o d) = Len((a \o mid) \o b) + Len(d)
    BY <1>4, <1>6, <1>9
  <2>2. Len(d) \in Nat BY <1>4, <1>6
  <2> QED BY <1>8, <1>9, <2>1, <2>2
<1> HIDE DEF keys, route, items, root0
<1>11. IsFiniteSet(xroute) /\ IsFiniteSet(sroute)
  BY ScoreSets, FS_Intersection
<1>12. sroute = {} BY <1>2, <1>3
<1> HIDE DEF xroute, sroute
<1>13. config_score_sing_box(keys) = 0
  <2> DEFINE root == {"route", "ntp", "certificate", "endpoints", "services", "experimental"}
             item == {"listen_port", "server_port", "tls", "transport", "dialer"}
  <2>1. keys.root \cap root = {} BY <1>2, <1>3
  <2>2. keys.route \cap sroute = {} BY <1>12
  <2>3. \A i \in 1 .. Len(keys.items) :
          "type" \notin keys.items[i] /\ keys.items[i] \cap item = {}
    BY <1>2, <1>10 DEF Items
  <2>4. IsFiniteSet(root) /\ IsFiniteSet(item) /\ IsList(keys.items)
    BY <1>2, <1>10, ScoreSets DEF Items
  <2>5. config_score_sing_box(keys) = Score(keys, root, sroute, item, "type")
    BY DEF config_score_sing_box, sroute
  <2> HIDE DEF root, item
  <2> QED BY <1>11, <2>1, <2>2, <2>3, <2>4, <2>5, ScoreIs
<1>14. config_score_xray(keys) \in Nat /\ config_score_xray(keys) > 0
  <2> DEFINE root == {"routing", "api", "policy", "transport", "stats"}
             item == {"streamSettings", "sendThrough", "proxySettings", "mux", "targetStrategy"}
  <2>1. IsList(keys.items) /\ Len(keys.items) \in Nat /\ Len(keys.items) >= 2
    BY <1>2, <1>10, ListFacts DEF Items
  <2>2. 1 \in 1 .. Len(keys.items) BY <2>1
  <2>3. "protocol" \in keys.items[1] BY <1>2, <1>10, <2>2 DEF Items
  <2>4. IsFiniteSet(root) /\ IsFiniteSet(item) BY ScoreSets
  <2>5. config_score_xray(keys) = Score(keys, root, xroute, item, "protocol")
    BY DEF config_score_xray, xroute
  <2> HIDE DEF root, item
  <2> QED BY <1>11, <2>1, <2>2, <2>3, <2>4, <2>5, ScoreIs
<1> QED BY <1>13, <1>14 DEF keys

(* What a configuration of the app is imported as.                         *)
LEMMA ShownIs ==
  ASSUME NEW p, NEW s, s = Shown(p)
  PROVE  /\ s = [f \in Fields |-> s[f]] /\ s.singBoxConfigJson = <<>> /\ s.xrayConfigJson = <<>>
         /\ s.protocol = p.protocol /\ s.server = p.server /\ s.port = p.port
         /\ s.userId = p.userId /\ s.method = p.method /\ s.serverPorts = <<>>
<1> DEFINE e == EmptyProfile
<1>1. s = [e EXCEPT !.protocol = p.protocol, !.server = p.server, !.port = p.port,
        !.userId = p.userId, !.password = p.password, !.method = p.method,
        !.transport = p.transport, !.tlsMode = p.tlsMode, !.alpn = p.alpn,
        !.host = p.host, !.publicKey = p.publicKey]
  BY DEF Shown
<1>2. /\ e = [f \in Fields |-> e[f]] /\ e.singBoxConfigJson = <<>> /\ e.xrayConfigJson = <<>>
      /\ e.serverPorts = <<>>
  BY EmptyIs DEF LinkProfile, NotParsed, EmptyProfile
<1> HIDE DEF e
<1> QED BY <1>1, <1>2 DEF Fields

LEMMA SingBoxCopy ==
  ASSUME NEW c, c.core = "singBox", NEW label,
         NEW copied, copied = core_config_profile(c, label)
  PROVE  LET p == c.outbound
             ports == IF p.protocol = "hysteria2" THEN p.serverPorts ELSE <<>>
         IN  /\ {"singBoxConfigJson", "xrayConfigJson"} \subseteq DOMAIN copied
             /\ copied.singBoxConfigJson = <<AsImported(c)>> /\ copied.xrayConfigJson = <<>>
             /\ copied.protocol = p.protocol /\ copied.server = p.server
             /\ copied.userId = p.userId /\ copied.method = p.method
             /\ copied.serverPorts = ports
             /\ copied.port = IF ports = <<>> THEN p.port ELSE first_server_port(ports)
<1> DEFINE p == c.outbound
           ports == IF p.protocol = "hysteria2" THEN p.serverPorts ELSE <<>>
           s == Shown(p)
           port == IF ports = <<>> THEN p.port ELSE first_server_port(ports)
           password == IF p.protocol = "hysteria" THEN "" ELSE p.password
           security == IF p.protocol = "vmess" THEN OrElse(p.security, "auto") ELSE ""
           transport == IF p.protocol \in {"vless", "vmess", "trojan"} THEN p.transport ELSE "raw"
           obfs == IF p.protocol = "hysteria2" /\ p.obfsPassword # ""
                   THEN OrElse(p.obfs, "salamander") ELSE ""
           up == p.uploadMbps
           down == p.downloadMbps
           obfsPassword == p.obfsPassword
           e == [s EXCEPT !.serverPorts = ports, !.port = port, !.password = password,
                   !.security = security, !.transport = transport, !.uploadMbps = up,
                   !.downloadMbps = down, !.obfs = obfs, !.obfsPassword = obfsPassword]
           text == AsImported(c)
<1>1. e = endpoint_from_sing_box_outbound(c) BY Zenon DEF endpoint_from_sing_box_outbound
<1>2. copied = [e EXCEPT !.remark = label, !.singBoxConfigJson = <<text>>]
  BY <1>1, SingBoxScores, Zenon DEF core_config_profile
<1>3. /\ s = [f \in Fields |-> s[f]] /\ s.singBoxConfigJson = <<>> /\ s.xrayConfigJson = <<>>
      /\ s.protocol = p.protocol /\ s.server = p.server
      /\ s.userId = p.userId /\ s.method = p.method
  BY ShownIs
<1> HIDE DEF s, ports, port, password, security, transport, obfs, up, down, obfsPassword, text
<1>4. /\ e = [f \in Fields |-> e[f]] /\ e.xrayConfigJson = <<>>
      /\ e.protocol = p.protocol /\ e.server = p.server
      /\ e.userId = p.userId /\ e.method = p.method
      /\ e.serverPorts = ports /\ e.port = port
  BY <1>3 DEF Fields
<1> HIDE DEF e
<1>5. /\ {"singBoxConfigJson", "xrayConfigJson"} \subseteq DOMAIN copied
      /\ copied.singBoxConfigJson = <<text>> /\ copied.xrayConfigJson = <<>>
      /\ copied.protocol = p.protocol /\ copied.server = p.server
      /\ copied.userId = p.userId /\ copied.method = p.method
      /\ copied.serverPorts = ports /\ copied.port = port
  BY <1>2, <1>4 DEF Fields
<1> QED BY <1>5 DEF ports, port, text

LEMMA XrayCopy ==
  ASSUME NEW c, c.core = "xray", NEW label,
         NEW copied, copied = core_config_profile(c, label)
  PROVE  LET p == c.outbound
         IN  /\ {"singBoxConfigJson", "xrayConfigJson"} \subseteq DOMAIN copied
             /\ copied.singBoxConfigJson = <<>> /\ copied.xrayConfigJson = <<c>>
             /\ copied.protocol = p.protocol /\ copied.server = p.server
             /\ copied.userId = p.userId /\ copied.method = p.method
             /\ copied.serverPorts = <<>> /\ copied.port = p.port
<1> DEFINE p == c.outbound
           s == Shown(p)
           security == IF c.outbound.protocol = "vless"
                       THEN OrElse(c.outbound.security, "none")
                       ELSE IF c.outbound.protocol = "vmess"
                       THEN OrElse(c.outbound.security, "auto") ELSE ""
           r == [s EXCEPT !.security = security]
           network == c.network
           e == [r EXCEPT !.transport = network, !.publicKey = ""]
<1>1. e = endpoint_from_xray_outbound(c)
  BY Zenon DEF endpoint_from_xray_outbound, fill_xray_stream
<1>2. copied = [e EXCEPT !.remark = label, !.xrayConfigJson = <<c>>]
  <2> DEFINE k == ConfigKeys(c)
  <2>1. ~(config_score_sing_box(k) > config_score_xray(k))
        /\ config_score_xray(k) > config_score_sing_box(k)
    BY XrayScores
  <2> QED BY <1>1, <2>1, Zenon DEF core_config_profile
<1>3. /\ s = [f \in Fields |-> s[f]] /\ s.singBoxConfigJson = <<>> /\ s.xrayConfigJson = <<>>
      /\ s.protocol = p.protocol /\ s.server = p.server /\ s.port = p.port
      /\ s.userId = p.userId /\ s.method = p.method /\ s.serverPorts = <<>>
  BY ShownIs
<1> HIDE DEF s, security, network
<1>4. /\ e = [f \in Fields |-> e[f]] /\ e.singBoxConfigJson = <<>>
      /\ e.protocol = p.protocol /\ e.server = p.server /\ e.port = p.port
      /\ e.userId = p.userId /\ e.method = p.method /\ e.serverPorts = <<>>
  BY <1>3 DEF Fields
<1> HIDE DEF e
<1> QED BY <1>2, <1>4 DEF Fields

(* A profile of a link, and what is built of it after it went through its  *)
(* JSON text, of its own fields.                                           *)
Parsed(p) == LinkProfile(p) /\ Usable(p)
BuiltOf(c, p, o) ==
  Parsed(p) /\ c = build_core_config(profile_from_json(p), o) /\ c # Failed /\ ~c.imported

(* What the calls on a link left.                                          *)
DialInv ==
  /\ stage = "link" => \E l \in Links : input[1] = l.link
  /\ stage = "parsed" => Parsed(profile)
  /\ stage \in {"link", "parsed", "built"} => copy = NotParsed
  /\ stage \in {"built", "imported"} => BuiltOf(config, profile, options)
  /\ stage = "imported" => \E label : copy = core_config_profile(config, label)
  /\ stage \in {"import", "imported"} => copy # NotParsed
  /\ stage = "error" /\ copy = NotParsed /\ profile # NotParsed /\ PlainTexts(profile) =>
       Refused(options.core, profile)
  /\ stage = "misread" /\ copy = NotParsed => ~PlainTexts(profile)

(* It is built for the core that was asked for; imported again it is known *)
(* for that core.                                                          *)
LEMMA BuiltCore ==
  ASSUME NEW c, NEW p, NEW o, BuiltOf(c, p, o), Routed(o)
  PROVE  c.core = o.core /\ c.outbound = profile_from_json(p)
BY BuiltIs DEF BuiltOf

LEMMA CopyIsParsed ==
  ASSUME NEW c, NEW o, Routed(o), c.core = o.core, NEW label,
         NEW copied, copied = core_config_profile(c, label)
  PROVE  copied # NotParsed
<1>1. NotParsed.singBoxConfigJson = <<>> /\ NotParsed.xrayConfigJson = <<>>
  BY EmptyIs DEF LinkProfile
<1>2. \A x : <<x>> # <<>> OBVIOUS
<1>3. CASE o.core = "singBox"
  <2>1. copied.singBoxConfigJson = <<AsImported(c)>> BY <1>3, SingBoxCopy
  <2> QED BY <1>1, <1>2, <2>1
<1>4. CASE o.core = "xray"
  <2>1. copied.xrayConfigJson = <<c>> BY <1>4, XrayCopy
  <2> QED BY <1>1, <1>2, <2>1
<1> QED BY <1>3, <1>4 DEF Routed

(* An import carries its text.                                             *)
LEMMA ImportedIs ==
  ASSUME NEW i \in Imports, NEW p, p = [i.shown EXCEPT !.singBoxConfigJson = <<i.config>>]
  PROVE  p.singBoxConfigJson = <<i.config>> /\ p # NotParsed
<1> DEFINE t == i.config
           x == i.shown
<1>1. DOMAIN x = Fields BY FieldKinds, NativeLibraryAssumption
<1>2. "singBoxConfigJson" \in DOMAIN x BY <1>1 DEF Fields
<1>3. p = [x EXCEPT !.singBoxConfigJson = <<t>>] OBVIOUS
<1> HIDE DEF t, x
<1>4. p.singBoxConfigJson = <<t>> BY <1>2, <1>3
<1>5. NotParsed.singBoxConfigJson = <<>> BY EmptyIs DEF LinkProfile
<1>6. <<t>> # <<>> OBVIOUS
<1> QED BY <1>4, <1>5, <1>6 DEF t

LEMMA DialInit == Init => DialInv
<1> SUFFICES ASSUME Init PROVE DialInv OBVIOUS
<1>1. stage = "import" => copy # NotParsed
  BY ImportedIs DEF Init, LibraryInit, LibraryIdle, Starts
<1> QED BY <1>1 DEF Init, LibraryInit, LibraryIdle, Starts, DialInv

LEMMA DialStep == LibInv /\ DialInv /\ [Next]_vars => DialInv'
<1> SUFFICES ASSUME LibInv, DialInv, [Next]_vars PROVE DialInv' OBVIOUS
<1>0. stage \in {"link", "parsed", "built", "imported"} => Routed(options)
  BY DEF LibInv, ConfigOptions, Routed
<1>1. CASE ParseShareLink
  <2>1. /\ stage = "link" /\ profile' = parse_profile(input[1])
        /\ stage' = IF profile' = NotParsed THEN "error" ELSE "parsed"
        /\ copy' = copy /\ copy = NotParsed
    BY <1>1 DEF ParseShareLink, DialInv
  <2>2. PICK l \in Links : input[1] = l.link BY <2>1 DEF DialInv
  <2>3. input[1].up \in Nat /\ input[1].down \in Nat /\ IsList(input[1].alpn)
    BY <2>2, NativeLibraryAssumption DEF IsList
  <2>4. LinkProfile(profile') /\ (profile' = NotParsed \/ Usable(profile'))
    BY <2>1, <2>3, ParsedIs
  <2> QED BY <2>1, <2>4 DEF DialInv, Parsed
<1>2. CASE ParseShareLinks BY <1>2 DEF ParseShareLinks, DialInv
<1>3. CASE BuildCoreConfig("parsed", "built")
  <2>1. /\ stage = "parsed" /\ config' = build_core_config(profile_from_json(profile), options)
        /\ profile' = profile /\ options' = options /\ copy' = copy /\ copy = NotParsed
    BY <1>3 DEF BuildCoreConfig, DialInv
  <2>2. /\ config' = Failed => stage' = "error"
        /\ config' # Failed /\ ~config'.imported => stage' = "built"
        /\ config' # Failed /\ config'.imported => stage' = "misread"
    BY <1>3 DEF BuildCoreConfig, AsWritten
  <2>3. Parsed(profile) /\ Routed(options) BY <1>0, <2>1 DEF DialInv
  <2>4. PlainTexts(profile) =>
          IF config' = Failed THEN Refused(options.core, profile) ELSE ~config'.imported
    <3> SUFFICES ASSUME PlainTexts(profile)
                 PROVE  IF config' = Failed THEN Refused(options.core, profile)
                        ELSE ~config'.imported
      OBVIOUS
    <3>1. config' = build_core_config(profile, options) BY <2>1, <2>3, ReadBack DEF Parsed
    <3> QED BY <2>3, <3>1, RefusedIs DEF Parsed, LinkProfile
  <2>5. CASE config' = Failed BY <2>1, <2>2, <2>4, <2>5 DEF DialInv
  <2>6. CASE config' # Failed /\ ~config'.imported
    <3>1. BuiltOf(config', profile', options') BY <2>1, <2>3, <2>6 DEF BuiltOf
    <3> QED BY <2>1, <2>2, <2>6, <3>1 DEF DialInv
  <2>7. CASE config' # Failed /\ config'.imported BY <2>1, <2>2, <2>4, <2>7 DEF DialInv
  <2> QED BY <2>5, <2>6, <2>7
<1>4. CASE BuildCoreConfig("imported", "rebuilt") \/ BuildCoreConfig("import", "applied")
  <2>1. /\ stage \in {"imported", "import"} /\ copy' = copy /\ copy # NotParsed
        /\ stage' \in {"error", "rebuilt", "applied", "misread"}
    BY <1>4 DEF BuildCoreConfig, DialInv
  <2> QED BY <2>1 DEF DialInv
<1>5. CASE ParseCoreConfig
  <2>1. PICK label \in Labels : copy' = core_config_profile(config, label)
    BY <1>5 DEF ParseCoreConfig
  <2>2. /\ stage = "built" /\ profile' = profile /\ options' = options /\ config' = config
        /\ stage' = IF copy' = NotParsed THEN "error" ELSE "imported"
    BY <1>5 DEF ParseCoreConfig
  <2>3. BuiltOf(config, profile, options) /\ Routed(options) BY <1>0, <2>2 DEF DialInv
  <2>4. config.core = options.core BY <2>3, BuiltCore
  <2>5. copy' # NotParsed BY <2>1, <2>3, <2>4, CopyIsParsed
  <2> QED BY <2>1, <2>2, <2>3, <2>5 DEF DialInv
<1>6. CASE ExtractEndpoint BY <1>6 DEF ExtractEndpoint, DialInv
<1>7. CASE UNCHANGED libraryVars BY <1>7 DEF libraryVars, DialInv
<1> QED BY <1>1, <1>2, <1>3, <1>4, <1>5, <1>6, <1>7 DEF Next, LibraryNext, vars

(* How extract_share_links reads one text after another.                   *)
StartsLink(text, i) ==
  is_likely_share_link_boundary(text, i) /\ is_share_link_scheme(text[i].link.scheme)
NextLinks(text, r, i) ==
  CASE StartsLink(text, i) -> [links |-> Append(r.links, text[i].link), open |-> TRUE]
    [] ~StartsLink(text, i) /\ r.open /\ text[i].before # "line" ->
         [r EXCEPT !.links[Len(r.links)].remark = "with a tail"]
    [] OTHER -> [r EXCEPT !.open = FALSE]

(* The recursive function of extract_share_links exists, and reads one     *)
(* text at each step.                                                      *)
LEMMA LinksRead ==
  ASSUME NEW text, IsList(text)
  PROVE  \E f : /\ extract_share_links(text) = f[Len(text)].links
                /\ f[0] = [links |-> <<>>, open |-> FALSE]
                /\ \A i \in 1 .. Len(text) : f[i] = NextLinks(text, f[i - 1], i)
<1> DEFINE n == Len(text)
           none == [links |-> <<>>, open |-> FALSE]
           Step(f, i) == IF i = 0 THEN none ELSE NextLinks(text, f[i - 1], i)
           Defined(f, k) == f = [i \in 0 .. k |-> Step(f, i)]
           K == {k \in Nat : \E f : Defined(f, k)}
           read == CHOOSE f : Defined(f, n)
<1>0. n \in Nat BY ListFacts
<1>1. 0 \in K
  <2> DEFINE f == [i \in 0 .. 0 |-> none]
  <2>1. \A i \in 0 .. 0 : i = 0 OBVIOUS
  <2>2. Defined(f, 0) BY <2>1
  <2> QED BY <2>2
<1>2. ASSUME NEW k \in Nat, k \in K PROVE k + 1 \in K
  <2>1. PICK f : Defined(f, k) BY <1>2
  <2> DEFINE g == [i \in 0 .. k + 1 |-> IF i = k + 1 THEN Step(f, k + 1) ELSE f[i]]
  <2>2. \A i \in 0 .. k : i \in 0 .. k + 1 /\ i # k + 1 OBVIOUS
  <2>3. \A i \in 0 .. k : g[i] = f[i] BY <2>2
  <2>4. \A i \in 0 .. k + 1 : i = 0 \/ i - 1 \in 0 .. k OBVIOUS
  <2>5. \A i \in 0 .. k + 1 : Step(g, i) = Step(f, i) BY <2>3, <2>4
  <2>6. \A i \in 0 .. k : f[i] = Step(f, i) BY <2>1
  <2>7. \A i \in 0 .. k + 1 : i = k + 1 \/ i \in 0 .. k OBVIOUS
  <2> HIDE DEF Step
  <2>8. \A i \in 0 .. k + 1 : g[i] = Step(g, i) BY <2>5, <2>6, <2>7
  <2>9. Defined(g, k + 1) BY <2>8
  <2> HIDE DEF Defined, g
  <2> QED BY <2>9
<1> HIDE DEF K
<1>3. Nat \subseteq K BY <1>1, <1>2, Inductive
<1>4. Defined(read, n)
  <2>1. \E f : Defined(f, n) BY <1>0, <1>3 DEF K
  <2> HIDE DEF Defined
  <2> QED BY <2>1
<1>5. extract_share_links(text) = read[n].links
  BY DEF extract_share_links, NextLinks, StartsLink
<1> HIDE DEF read, none
<1>6. \A i \in 0 .. n : read[i] = Step(read, i) BY <1>4
<1>7. 0 \in 0 .. n /\ \A i \in 1 .. n : i \in 0 .. n /\ i # 0 BY <1>0
<1>8. read[0] = none BY <1>6, <1>7
<1>9. \A i \in 1 .. n : read[i] = NextLinks(text, read[i - 1], i) BY <1>6, <1>7
<1> HIDE DEF Step, Defined
<1> QED BY <1>5, <1>8, <1>9 DEF none

(* A tail is added to the last link only, and leaves the others.           *)
LEMMA TailedList ==
  ASSUME NEW s, IsList(s), NEW x
  PROVE  LET t == [s EXCEPT ![Len(s)] = x]
         IN  IsList(t) /\ Len(t) = Len(s) /\ \A j \in 1 .. Len(s) : j # Len(s) => t[j] = s[j]
<1> DEFINE t == [s EXCEPT ![Len(s)] = x]
<1>1. Len(s) \in Nat /\ DOMAIN s = 1 .. Len(s) BY ListFacts
<1>2. t = [j \in 1 .. Len(s) |-> IF j = Len(s) THEN x ELSE s[j]] BY <1>1
<1>3. t = [j \in 1 .. Len(s) |-> t[j]] BY <1>2
<1>4. \A j \in 1 .. Len(s) : j # Len(s) => t[j] = s[j] BY <1>2
<1> HIDE DEF t
<1>5. IsList(t) /\ Len(t) = Len(s) BY <1>1, <1>3, MappedList
<1> QED BY <1>4, <1>5 DEF t

(* What is read so far: a list of links, one of them open if any is.       *)
Reading(r) ==
  /\ r = [links |-> r.links, open |-> r.open] /\ IsList(r.links) /\ r.open \in BOOLEAN

LEMMA NextIs ==
  ASSUME NEW text, NEW i, NEW r, Reading(r), NEW s, s = NextLinks(text, r, i)
  PROVE  /\ Reading(s)
         /\ \/ StartsLink(text, i) /\ s.links = Append(r.links, text[i].link) /\ s.open
            \/ /\ ~StartsLink(text, i) /\ r.open /\ text[i].before # "line" /\ s.open
               /\ Len(s.links) = Len(r.links)
               /\ \A j \in 1 .. Len(r.links) : j # Len(r.links) => s.links[j] = r.links[j]
            \/ ~StartsLink(text, i) /\ s.links = r.links /\ ~s.open
<1> DEFINE a == r.links
           o == r.open
<1>0. r = [links |-> a, open |-> o] /\ IsList(a) /\ o \in BOOLEAN BY DEF Reading
<1>1. CASE StartsLink(text, i)
  <2>1. s = [links |-> Append(a, text[i].link), open |-> TRUE] BY <1>1 DEF NextLinks
  <2>2. IsList(Append(a, text[i].link)) BY <1>0, AppendList
  <2> QED BY <1>1, <2>1, <2>2 DEF Reading
<1>2. CASE ~StartsLink(text, i) /\ r.open /\ text[i].before # "line"
  <2> DEFINE x == [a[Len(a)] EXCEPT !.remark = "with a tail"]
             b == [a EXCEPT ![Len(a)] = x]
  <2>1. s = [r EXCEPT !.links = b] BY <1>2 DEF NextLinks
  <2>2. IsList(b) /\ Len(b) = Len(a) /\ \A j \in 1 .. Len(a) : j # Len(a) => b[j] = a[j]
    BY <1>0, TailedList
  <2> HIDE DEF b, a, o
  <2>3. s = [links |-> b, open |-> o] BY <1>0, <2>1
  <2>4. s.links = b /\ s.open = o BY <2>3
  <2> QED BY <1>0, <1>2, <2>2, <2>3, <2>4 DEF Reading, a, o
<1>3. CASE ~StartsLink(text, i) /\ ~(r.open /\ text[i].before # "line")
  <2>1. s = [r EXCEPT !.open = FALSE] BY <1>3 DEF NextLinks
  <2> HIDE DEF a, o
  <2>2. s = [links |-> a, open |-> FALSE] BY <1>0, <2>1
  <2> QED BY <1>0, <1>3, <2>2 DEF Reading, a
<1> QED BY <1>1, <1>2, <1>3

(* A link on a line of its own.                                            *)
Alone(text, i) ==
  /\ i = 1 \/ text[i].before = "line"
  /\ i = Len(text) \/ text[i + 1].before = "line"

(* A link on a line of its own is found, and nothing is added to it; if    *)
(* every line holds one link only, nothing else is found.                  *)
LEMMA LinksFound ==
  ASSUME NEW text, IsList(text)
  PROVE  LET links == extract_share_links(text)
         IN  /\ IsList(links)
             /\ \A i \in 1 .. Len(text) :
                  Alone(text, i) /\ is_share_link_scheme(text[i].link.scheme) =>
                    \E j \in 1 .. Len(links) : links[j] = text[i].link
             /\ (\A i \in 1 .. Len(text) : Alone(text, i)) =>
                  \A j \in 1 .. Len(links) : \E i \in 1 .. Len(text) : links[j] = text[i].link
<1> DEFINE n == Len(text)
           links == extract_share_links(text)
<1>0. n \in Nat BY ListFacts
<1>1. PICK f : /\ links = f[n].links /\ f[0] = [links |-> <<>>, open |-> FALSE]
               /\ \A i \in 1 .. n : f[i] = NextLinks(text, f[i - 1], i)
  BY LinksRead
<1> HIDE DEF links
<1>2. \A k \in 0 .. n : Reading(f[k])
  <2> DEFINE K == {k \in Nat : k <= n => Reading(f[k])}
  <2>1. 0 \in K
    <3>1. f[0].links = <<>> /\ f[0].open = FALSE BY <1>1
    <3>2. IsList(<<>>) BY DEF IsList
    <3>3. Reading(f[0]) BY <1>1, <3>1, <3>2 DEF Reading
    <3> QED BY <3>3
  <2>2. ASSUME NEW k \in Nat, k \in K PROVE k + 1 \in K
    <3> SUFFICES ASSUME k + 1 <= n PROVE Reading(f[k + 1]) OBVIOUS
    <3>1. k + 1 \in 1 .. n /\ k + 1 - 1 = k /\ k <= n BY <1>0
    <3>2. f[k + 1] = NextLinks(text, f[k], k + 1) BY <1>1, <3>1
    <3>3. Reading(f[k]) BY <2>2, <3>1
    <3> QED BY <3>2, <3>3, NextIs
  <2> HIDE DEF K
  <2>3. Nat \subseteq K BY <2>1, <2>2, Inductive
  <2>4. \A k \in 0 .. n : k \in Nat /\ k <= n BY <1>0
  <2> QED BY <2>3, <2>4 DEF K
<1>3. IsList(links)
  <2>1. n \in 0 .. n BY <1>0
  <2> QED BY <1>1, <1>2, <2>1 DEF Reading
<1>4. ASSUME NEW i \in 1 .. n, Alone(text, i), is_share_link_scheme(text[i].link.scheme)
      PROVE  \E j \in 1 .. Len(links) : links[j] = text[i].link
  <2> DEFINE link == text[i].link
             Stays(r, k) == \E j \in 1 .. Len(r.links) :
                              r.links[j] = link /\ (k > 0 /\ r.open => j < Len(r.links))
             K == {k \in Nat : i + k <= n => Stays(f[i + k], k)}
  <2>1. i \in Nat /\ i <= n /\ i - 1 \in 0 .. n BY <1>0
  <2>2. 0 \in K
    <3>1. StartsLink(text, i) BY <1>4 DEF StartsLink, is_likely_share_link_boundary, Alone
    <3>2. f[i] = NextLinks(text, f[i - 1], i) /\ Reading(f[i - 1]) BY <1>1, <1>2, <2>1
    <3>3. f[i].links = Append(f[i - 1].links, link) BY <3>1, <3>2, NextIs
    <3>4. IsList(f[i - 1].links) BY <3>2 DEF Reading
    <3> DEFINE m == Len(f[i - 1].links)
    <3>5. m \in Nat BY <3>4, ListFacts
    <3>6. Len(f[i].links) = m + 1 /\ f[i].links[m + 1] = link BY <3>3, <3>4, AppendList
    <3>7. m + 1 \in 1 .. Len(f[i].links) BY <3>5, <3>6
    <3>8. Stays(f[i], 0) BY <3>6, <3>7
    <3>9. i + 0 = i BY <2>1
    <3> QED BY <3>8, <3>9
  <2>3. ASSUME NEW k \in Nat, k \in K PROVE k + 1 \in K
    <3> SUFFICES ASSUME i + (k + 1) <= n PROVE Stays(f[i + (k + 1)], k + 1) OBVIOUS
    <3> DEFINE at == i + (k + 1)
               r == f[i + k]
               s == f[at]
    <3>1. at \in 1 .. n /\ at - 1 = i + k /\ i + k <= n /\ i + k \in 0 .. n /\ at # 1
      BY <1>0, <2>1
    <3>2. s = NextLinks(text, r, at) /\ Reading(r) BY <1>1, <1>2, <3>1
    <3>3. PICK j \in 1 .. Len(r.links) :
            r.links[j] = link /\ (k > 0 /\ r.open => j < Len(r.links))
      BY <2>3, <3>1
    <3>4. k = 0 => text[at].before = "line"
      <4>1. k = 0 => at = i + 1 /\ i # n BY <2>1, <3>1
      <4> QED BY <1>4, <4>1 DEF Alone
    <3> HIDE DEF r, s, at
    <3>5. /\ IsList(r.links) /\ Len(r.links) \in Nat
      BY <3>2, ListFacts DEF Reading
    <3>6. CASE StartsLink(text, at) /\ s.links = Append(r.links, text[at].link) /\ s.open
      <4>1. /\ Len(s.links) = Len(r.links) + 1
            /\ \A x \in 1 .. Len(r.links) : s.links[x] = r.links[x]
        BY <3>5, <3>6, AppendList
      <4>2. j \in 1 .. Len(s.links) /\ j < Len(s.links) BY <3>5, <4>1
      <4> QED BY <3>3, <4>1, <4>2 DEF s, at
    <3>7. CASE /\ r.open /\ text[at].before # "line" /\ s.open
               /\ Len(s.links) = Len(r.links)
               /\ \A x \in 1 .. Len(r.links) : x # Len(r.links) => s.links[x] = r.links[x]
      <4>1. k > 0 BY <3>4, <3>7
      <4>2. j < Len(r.links) BY <3>3, <3>7, <4>1
      <4>3. j # Len(r.links) BY <3>5, <4>2
      <4>4. j \in 1 .. Len(s.links) /\ s.links[j] = link /\ j < Len(s.links)
        BY <3>3, <3>7, <4>2, <4>3
      <4> QED BY <4>4 DEF s, at
    <3>8. CASE s.links = r.links /\ ~s.open
      BY <3>3, <3>8 DEF s, at
    <3>9. \/ StartsLink(text, at) /\ s.links = Append(r.links, text[at].link) /\ s.open
          \/ /\ r.open /\ text[at].before # "line" /\ s.open
             /\ Len(s.links) = Len(r.links)
             /\ \A x \in 1 .. Len(r.links) : x # Len(r.links) => s.links[x] = r.links[x]
          \/ s.links = r.links /\ ~s.open
      BY <3>2, NextIs
    <3> QED BY <3>6, <3>7, <3>8, <3>9
  <2> HIDE DEF K, Stays
  <2>4. Nat \subseteq K BY <2>2, <2>3, Inductive
  <2>5. n - i \in Nat /\ i + (n - i) = n BY <1>0, <2>1
  <2>6. Stays(f[n], n - i) BY <2>4, <2>5 DEF K
  <2> QED BY <1>1, <2>6 DEF Stays
<1>5. ASSUME \A i \in 1 .. n : Alone(text, i)
      PROVE  \A j \in 1 .. Len(links) : \E i \in 1 .. n : links[j] = text[i].link
  <2> DEFINE Lines(r) == \A j \in 1 .. Len(r.links) : \E i \in 1 .. n : r.links[j] = text[i].link
             K == {k \in Nat : k <= n => Lines(f[k])}
  <2>1. 0 \in K
    <3>1. f[0].links = <<>> BY <1>1
    <3> QED BY <3>1
  <2>2. ASSUME NEW k \in Nat, k \in K PROVE k + 1 \in K
    <3> SUFFICES ASSUME k + 1 <= n PROVE Lines(f[k + 1]) OBVIOUS
    <3> DEFINE r == f[k]
               s == f[k + 1]
    <3>1. k + 1 \in 1 .. n /\ k + 1 - 1 = k /\ k <= n /\ k \in 0 .. n BY <1>0
    <3>2. s = NextLinks(text, r, k + 1) /\ Reading(r) BY <1>1, <1>2, <3>1
    <3>3. Lines(r) BY <2>2, <3>1
    <3>4. ~(r.open /\ text[k + 1].before # "line")
      <4>1. CASE k = 0 BY <1>1, <4>1
      <4>2. CASE k # 0
        <5>1. k + 1 # 1 BY <4>2
        <5> QED BY <1>5, <3>1, <5>1 DEF Alone
      <4> QED BY <4>1, <4>2
    <3> HIDE DEF r, s
    <3>5. IsList(r.links) /\ Len(r.links) \in Nat BY <3>2, ListFacts DEF Reading
    <3>6. s.links = r.links \/ s.links = Append(r.links, text[k + 1].link)
      BY <3>2, <3>4, NextIs
    <3>7. CASE s.links = r.links BY <3>3, <3>7 DEF s
    <3>8. CASE s.links = Append(r.links, text[k + 1].link)
      <4>1. /\ Len(s.links) = Len(r.links) + 1 /\ s.links[Len(r.links) + 1] = text[k + 1].link
            /\ \A x \in 1 .. Len(r.links) : s.links[x] = r.links[x]
        BY <3>5, <3>8, AppendList
      <4>2. \A j \in 1 .. Len(s.links) : j = Len(r.links) + 1 \/ j \in 1 .. Len(r.links)
        BY <3>5, <4>1
      <4> QED BY <3>1, <3>3, <4>1, <4>2 DEF s
    <3> QED BY <3>6, <3>7, <3>8
  <2> HIDE DEF K, Lines
  <2>3. Nat \subseteq K BY <2>1, <2>2, Inductive
  <2>4. Lines(f[n]) BY <1>0, <2>3 DEF K
  <2> QED BY <1>1, <2>4 DEF Lines
<1> QED BY <1>3, <1>4, <1>5 DEF links

(* A link whose scheme the library does not know gives no profile.         *)
LEMMA SchemeKnown ==
  ASSUME NEW l, parse_profile(l) # NotParsed PROVE is_share_link_scheme(l.scheme)
BY DEF parse_profile, is_share_link_scheme

(* Each item of a list of no more than n different ones: there are at most *)
(* n of them.                                                              *)
LEMMA AtMost ==
  ASSUME NEW s, IsList(s), \A i, j \in 1 .. Len(s) : s[i] = s[j] => i = j,
         NEW n \in Nat, NEW g, DOMAIN g = 1 .. n,
         \A i \in 1 .. Len(s) : \E j \in 1 .. n : s[i] = g[j]
  PROVE  Len(s) <= Cardinality({g[j] : j \in 1 .. n})
<1> DEFINE T == {g[j] : j \in 1 .. n}
           f == [j \in 1 .. n |-> g[j]]
           h == [i \in 1 .. Len(s) |-> s[i]]
<1>0. Len(s) \in Nat BY ListFacts
<1>1. IsFiniteSet(T)
  <2>1. f \in Surjection(1 .. n, T) BY DEF Surjection
  <2>2. IsFiniteSet(1 .. n) BY FS_Interval
  <2> HIDE DEF T, f
  <2> QED BY <2>1, <2>2, FS_Surjection
<1>2. h \in Injection(1 .. Len(s), T)
  <2>1. h \in [1 .. Len(s) -> T] OBVIOUS
  <2>2. \A a, b \in 1 .. Len(s) : h[a] = h[b] => a = b OBVIOUS
  <2> HIDE DEF h, T
  <2> QED BY <2>1, <2>2 DEF Injection, IsInjective
<1>3. Cardinality(1 .. Len(s)) = Len(s)
  <2> DEFINE m == Len(s)
  <2>1. m \in Int /\ 1 \in Int /\ m \in Nat BY <1>0
  <2> HIDE DEF m
  <2>2. Cardinality(1 .. m) = IF 1 > m THEN 0 ELSE m - 1 + 1 BY <2>1, FS_Interval
  <2>3. Cardinality(1 .. m) = m BY <2>1, <2>2
  <2> QED BY <2>3 DEF m
<1> HIDE DEF T, h
<1>4. Cardinality(1 .. Len(s)) <= Cardinality(T) BY <1>1, <1>2, FS_Injection
<1> QED BY <1>3, <1>4 DEF T

(* The profiles of a subscription.                                         *)
LEMMA SubscriptionIs ==
  ASSUME NEW text, IsList(text), NEW list, list = parse_share_links_json(text)
  PROVE  /\ \A i \in 1 .. Len(text) :
              Alone(text, i) /\ parse_profile(text[i].link) # NotParsed =>
                Contains(list, parse_profile(text[i].link))
         /\ (\A i \in 1 .. Len(text) : Alone(text, i)) =>
              Len(list) <= Cardinality({text[i].link : i \in 1 .. Len(text)})
<1> DEFINE links == extract_share_links(text)
           seen(i) == \E j \in 1 .. i - 1 : links[j] = links[i]
           S == {i \in DOMAIN links : ~seen(i) /\ parse_profile(links[i]) # NotParsed}
           a == InOrder(S, Len(links))
           kept == Picked(links, S)
<1>1. IsList(links) /\ Len(links) \in Nat /\ DOMAIN links = 1 .. Len(links)
  BY LinksFound, ListFacts
<1>2. list = [i \in DOMAIN kept |-> parse_profile(kept[i])]
  BY DEF parse_share_links_json
<1>3. \A i \in 1 .. Len(text) :
        Alone(text, i) /\ is_share_link_scheme(text[i].link.scheme) =>
          \E j \in 1 .. Len(links) : links[j] = text[i].link
  BY LinksFound
<1>4. (\A i \in 1 .. Len(text) : Alone(text, i)) =>
        \A j \in 1 .. Len(links) : \E i \in 1 .. Len(text) : links[j] = text[i].link
  BY LinksFound
<1> HIDE DEF links
<1>5. /\ Listed(a, S, Len(links)) /\ IsList(kept) /\ Len(kept) = Len(a)
      /\ \A i \in 1 .. Len(a) : kept[i] = links[a[i]]
  BY <1>1, PickedIs
<1>6. Len(kept) \in Nat /\ DOMAIN kept = 1 .. Len(kept) /\ IsList(a)
  BY <1>5, ListFacts DEF Listed
<1>7. \A i \in 1 .. Len(links) :
        i \in S <=> ~seen(i) /\ parse_profile(links[i]) # NotParsed
  BY <1>1
<1> HIDE DEF a, kept, S
<1>8. /\ list = [i \in 1 .. Len(kept) |-> list[i]] /\ Len(list) = Len(kept)
      /\ \A i \in 1 .. Len(kept) : list[i] = parse_profile(kept[i])
  <2>1. list = [i \in 1 .. Len(kept) |-> parse_profile(kept[i])] BY <1>2, <1>6
  <2>2. list = [i \in 1 .. Len(kept) |-> list[i]] BY <2>1
  <2>3. \A i \in 1 .. Len(kept) : list[i] = parse_profile(kept[i]) BY <2>1
  <2>4. Len(list) = Len(kept) BY <1>6, <2>2, MappedList
  <2> QED BY <2>2, <2>3, <2>4
<1>9. ASSUME NEW i \in 1 .. Len(text), Alone(text, i),
             parse_profile(text[i].link) # NotParsed
      PROVE  Contains(list, parse_profile(text[i].link))
  <2> DEFINE link == text[i].link
             I == {j \in 1 .. Len(links) : links[j] = link}
  <2>1. \E j \in 1 .. Len(links) : links[j] = link BY <1>3, <1>9, SchemeKnown
  <2>2. I # {} /\ I \subseteq Nat BY <1>1, <2>1
  <2> HIDE DEF link
  <2>3. PICK j \in I : \A m \in I : j <= m
    <3> HIDE DEF I
    <3> QED BY <2>2, LeastNat
  <2>4. j \in 1 .. Len(links) /\ links[j] = link OBVIOUS
  <2>5. ~seen(j)
    <3> SUFFICES ASSUME NEW m \in 1 .. j - 1, links[m] = links[j] PROVE FALSE OBVIOUS
    <3>1. m \in 1 .. Len(links) /\ m \in Nat /\ j \in Nat /\ ~(j <= m) BY <1>1, <2>4
    <3>2. m \in I BY <2>4, <3>1
    <3> HIDE DEF I
    <3> QED BY <2>3, <3>1, <3>2
  <2>6. j \in S BY <1>7, <1>9, <2>4, <2>5 DEF link
  <2>7. PICK m \in 1 .. Len(a) : a[m] = j BY <1>5, <2>4, <2>6 DEF Listed
  <2>8. m \in 1 .. Len(kept) /\ kept[m] = link BY <1>5, <2>4, <2>7
  <2>9. m \in 1 .. Len(list) /\ list[m] = parse_profile(link) BY <1>8, <2>8
  <2> QED BY <2>9 DEF Contains, link
<1>10. ASSUME \A i \in 1 .. Len(text) : Alone(text, i)
       PROVE  Len(list) <= Cardinality({text[i].link : i \in 1 .. Len(text)})
  <2> DEFINE n == Len(text)
             g == [i \in 1 .. n |-> text[i].link]
             T == {g[i] : i \in 1 .. n}
             s == kept
  <2>1. n \in Nat /\ DOMAIN g = 1 .. n BY ListFacts
  <2>2. \A i \in 1 .. Len(s) : a[i] \in 1 .. Len(links) /\ a[i] \in S
    BY <1>5 DEF Listed
  <2>3. ASSUME NEW i \in 1 .. Len(s), NEW j \in 1 .. Len(s), s[i] = s[j] PROVE i = j
    <3>0. i \in Nat /\ j \in Nat /\ a[i] \in Nat /\ a[j] \in Nat
          /\ a[i] \in 1 .. Len(links) /\ a[j] \in 1 .. Len(links) /\ a[i] \in S /\ a[j] \in S
      BY <1>1, <1>6, <2>2
    <3>1. links[a[i]] = links[a[j]] BY <1>5, <2>3
    <3>2. ~(a[i] < a[j])
      <4> SUFFICES ASSUME a[i] < a[j] PROVE FALSE OBVIOUS
      <4>1. a[i] \in 1 .. a[j] - 1 BY <3>0
      <4>2. seen(a[j]) BY <3>1, <4>1
      <4> QED BY <1>7, <3>0, <4>2
    <3>3. ~(a[j] < a[i])
      <4> SUFFICES ASSUME a[j] < a[i] PROVE FALSE OBVIOUS
      <4>1. a[j] \in 1 .. a[i] - 1 BY <3>0
      <4>2. seen(a[i]) BY <3>1, <4>1
      <4> QED BY <1>7, <3>0, <4>2
    <3>4. (i < j => a[i] < a[j]) /\ (j < i => a[j] < a[i]) BY <1>5 DEF Listed
    <3> QED BY <3>0, <3>2, <3>3, <3>4
  <2>4. \A i \in 1 .. Len(s) : \E j \in 1 .. n : s[i] = g[j]
    <3> TAKE i \in 1 .. Len(s)
    <3>1. a[i] \in 1 .. Len(links) /\ s[i] = links[a[i]] BY <1>5, <2>2
    <3>2. PICK j \in 1 .. n : links[a[i]] = text[j].link BY <1>4, <1>10, <3>1
    <3> QED BY <3>1, <3>2
  <2>5. T = {text[i].link : i \in 1 .. n} OBVIOUS
  <2> HIDE DEF g
  <2>6. Len(s) <= Cardinality(T) BY <1>5, <2>1, <2>3, <2>4, AtMost
  <2> QED BY <1>8, <2>5, <2>6
<1> QED BY <1>9, <1>10

(* The text a subscription is read from.                                   *)
TextInv ==
  /\ stage \in {"text", "listed"} => input[1] \in Texts
  /\ stage = "listed" => profile = parse_share_links_json(input[1])

LEMMA TextInit == Init => TextInv
BY DEF Init, LibraryInit, LibraryIdle, Starts, TextInv

LEMMA TextStep == TextInv /\ [Next]_vars => TextInv'
<1> SUFFICES ASSUME TextInv, [Next]_vars PROVE TextInv' OBVIOUS
<1>1. CASE ParseShareLinks BY <1>1 DEF ParseShareLinks, TextInv
<1>2. CASE ParseShareLink BY <1>2 DEF ParseShareLink, TextInv
<1>3. CASE BuildCoreConfig("parsed", "built") BY <1>3 DEF BuildCoreConfig, TextInv
<1>4. CASE BuildCoreConfig("imported", "rebuilt") \/ BuildCoreConfig("import", "applied")
  BY <1>4 DEF BuildCoreConfig, TextInv
<1>5. CASE ParseCoreConfig \/ ExtractEndpoint
  BY <1>5 DEF ParseCoreConfig, ExtractEndpoint, TextInv
<1>6. CASE UNCHANGED libraryVars BY <1>6 DEF libraryVars, TextInv
<1> QED BY <1>1, <1>2, <1>3, <1>4, <1>5, <1>6 DEF Next, LibraryNext, vars

(* The two parts of LinkIsDialled.                                         *)
LEMMA LinksKept == TextInv => SubscriptionKeepsLinks
<1> SUFFICES ASSUME TextInv, stage = "listed" PROVE SubscriptionKeepsLinks
  BY DEF SubscriptionKeepsLinks
<1> DEFINE text == input[1]
           n == Len(text)
           alone == {i \in DOMAIN text : /\ i = 1 \/ text[i].before = "line"
                                         /\ i = n \/ text[i + 1].before = "line"}
<1>1. IsList(text) /\ profile = parse_share_links_json(text)
  BY NativeLibraryAssumption DEF TextInv, IsList
<1>2. DOMAIN text = 1 .. n BY <1>1, ListFacts
<1>3. \A i \in 1 .. n : i \in alone <=> Alone(text, i) BY <1>2 DEF Alone
<1>4. alone \subseteq 1 .. n BY <1>2
<1> HIDE DEF text
<1>5. \A i \in alone : parse_profile(text[i].link) # NotParsed =>
        Contains(profile, parse_profile(text[i].link))
  <2> HIDE DEF alone
  <2> QED BY <1>1, <1>3, <1>4, SubscriptionIs
<1>6. alone = DOMAIN text =>
        Len(profile) <= Cardinality({text[i].link : i \in alone})
  <2> HIDE DEF alone
  <2> SUFFICES ASSUME alone = DOMAIN text
               PROVE  Len(profile) <= Cardinality({text[i].link : i \in alone})
    OBVIOUS
  <2>1. alone = 1 .. n BY <1>2
  <2>2. \A i \in 1 .. n : Alone(text, i) BY <1>3, <2>1
  <2>3. Len(profile) <= Cardinality({text[i].link : i \in 1 .. n})
    BY <1>1, <2>2, SubscriptionIs
  <2> QED BY <2>1, <2>3
<1> QED BY <1>5, <1>6 DEF SubscriptionKeepsLinks, text

LEMMA LinkDialled == LibInv /\ DialInv /\ TextInv => LinkIsDialled
<1> SUFFICES ASSUME LibInv, DialInv, TextInv PROVE LinkIsDialled OBVIOUS
<1>1. SubscriptionKeepsLinks BY LinksKept
<1>2. ASSUME Generated, PlainTexts(profile), stage # "rebuilt"
      PROVE  config.outbound = profile
  <2>1. stage \in {"built", "imported"} BY <1>2 DEF Generated
  <2>2. BuiltOf(config, profile, options) BY <2>1 DEF DialInv
  <2>3. Routed(options) BY <2>1 DEF LibInv, ConfigOptions, Routed
  <2>4. config.outbound = profile_from_json(profile) BY <2>2, <2>3, BuiltCore
  <2>5. profile_from_json(profile) = profile BY <1>2, <2>2, ReadBack DEF BuiltOf, Parsed
  <2> QED BY <2>4, <2>5
<1>3. stage = "error" /\ copy = NotParsed /\ profile # NotParsed /\ PlainTexts(profile) =>
        Refused(options.core, profile)
  BY DEF DialInv
<1>4. stage = "misread" /\ copy = NotParsed => ~PlainTexts(profile) BY DEF DialInv
<1> QED BY <1>1, <1>2, <1>3, <1>4 DEF LinkIsDialled, Refused

(* LinkIsDialled: whatever the links, subscriptions and options, the       *)
(* profile that is built is the one the link was parsed into, unless one   *)
(* of its texts is the name of a JSON field or holds a control character;  *)
(* then the library may run another text, and only then.  A link the       *)
(* parser accepts builds but for credentials that only a core asks for or  *)
(* that are white space, and a subscription keeps the links it holds       *)
(* (parse_profile, parse_share_links_json, profile_from_json,              *)
(* build_core_config).                                                     *)
THEOREM LinksAreDialled == Spec => []LinkIsDialled
<1>1. Init => LibInv /\ DialInv /\ TextInv BY LibInit, DialInit, TextInit
<1>2. LibInv /\ DialInv /\ TextInv /\ [Next]_vars => (LibInv /\ DialInv /\ TextInv)'
  BY LibStep, DialStep, TextStep
<1> QED BY <1>1, <1>2, LinkDialled, PTL DEF Spec

-----------------------------------------------------------------------------
(* Lists with an item inserted.                                            *)
LEMMA InsertIs ==
  ASSUME NEW s, IsList(s), NEW i \in 1 .. Len(s) + 1, NEW x
  PROVE  LET t == InsertAt(s, i, x)
         IN  /\ IsList(t) /\ Len(t) = Len(s) + 1 /\ t[i] = x
             /\ \A j \in 1 .. Len(s) : j < i => t[j] = s[j]
             /\ \A j \in 1 .. Len(s) : j >= i => t[j + 1] = s[j]
<1> DEFINE n == Len(s)
           a == SubSeq(s, 1, i - 1)
           b == SubSeq(s, i, n)
           m == a \o <<x>>
           t == m \o b
<1>1. PICK S : s \in Seq(S) BY DEF IsList
<1>2. n \in Nat /\ i \in Nat /\ i >= 1 /\ i <= n + 1 BY ListFacts
<1>3. \A j \in 1 .. n : s[j] \in S BY <1>1, ElementOfSeq
<1>4. /\ a \in Seq(S) /\ Len(a) = i - 1 /\ \A j \in 1 .. i - 1 : a[j] = s[j]
  <2>1. \A j \in 1 .. i - 1 : s[j] \in S BY <1>2, <1>3
  <2>2. 1 \in Int /\ i - 1 \in Int BY <1>2
  <2>3. /\ a \in Seq(S) /\ Len(a) = IF 1 <= i - 1 THEN (i - 1) - 1 + 1 ELSE 0
        /\ \A j \in 1 .. (i - 1) - 1 + 1 : a[j] = s[1 + j - 1]
    BY <2>1, <2>2, SubSeqProperties
  <2> HIDE DEF a
  <2>4. Len(a) = i - 1 BY <1>2, <2>3
  <2>5. \A j \in 1 .. i - 1 : j \in 1 .. (i - 1) - 1 + 1 /\ 1 + j - 1 = j BY <1>2
  <2> QED BY <2>3, <2>4, <2>5
<1>5. /\ b \in Seq(S) /\ Len(b) = n - i + 1 /\ \A j \in 1 .. n - i + 1 : b[j] = s[i + j - 1]
  <2>1. \A j \in i .. n : s[j] \in S BY <1>2, <1>3
  <2>2. n \in Int /\ i \in Int BY <1>2
  <2> HIDE DEF n
  <2>3. /\ b \in Seq(S) /\ Len(b) = IF i <= n THEN n - i + 1 ELSE 0
        /\ \A j \in 1 .. n - i + 1 : b[j] = s[i + j - 1]
    BY <2>1, <2>2, SubSeqProperties
  <2> HIDE DEF b
  <2>4. Len(b) = n - i + 1 BY <1>2, <2>3
  <2> QED BY <2>3, <2>4
<1>6. InsertAt(s, i, x) = t BY DEF InsertAt
<1> HIDE DEF a, b, n
<1>7. IsList(a) /\ IsList(b) /\ IsList(<<x>>) /\ Len(<<x>>) = 1 /\ <<x>>[1] = x
  BY <1>4, <1>5, ListOf DEF IsList
<1>8. /\ IsList(m) /\ Len(m) = i
      /\ \A j \in DOMAIN m : m[j] = IF j <= Len(a) THEN a[j] ELSE <<x>>[j - Len(a)]
  <2>1. IsList(m) /\ Len(m) = Len(a) + Len(<<x>>) BY <1>7, ConcatLists
  <2>2. \A j \in DOMAIN m : m[j] = IF j <= Len(a) THEN a[j] ELSE <<x>>[j - Len(a)]
    BY <1>7, ConcatLists
  <2>3. Len(m) = i BY <1>2, <1>4, <1>7, <2>1
  <2> QED BY <2>1, <2>2, <2>3
<1>9. DOMAIN m = 1 .. i BY <1>8, ListFacts
<1>10. m[i] = x /\ \A j \in 1 .. n : j < i => m[j] = s[j]
  <2> HIDE DEF m
  <2>1. i \in DOMAIN m /\ ~(i <= Len(a)) /\ i - Len(a) = 1 BY <1>2, <1>4, <1>9
  <2>2. m[i] = x BY <1>7, <1>8, <2>1
  <2>3. \A j \in 1 .. n : j < i => j \in DOMAIN m /\ j <= Len(a) /\ j \in 1 .. i - 1
    BY <1>2, <1>4, <1>9
  <2>4. \A j \in 1 .. n : j < i => m[j] = s[j] BY <1>4, <1>8, <2>3
  <2> QED BY <2>2, <2>4
<1> HIDE DEF m
<1>11. /\ IsList(t) /\ Len(t) = n + 1
       /\ \A j \in DOMAIN t : t[j] = IF j <= Len(m) THEN m[j] ELSE b[j - Len(m)]
  <2>1. IsList(t) /\ Len(t) = Len(m) + Len(b) BY <1>7, <1>8, ConcatLists
  <2>2. \A j \in DOMAIN t : t[j] = IF j <= Len(m) THEN m[j] ELSE b[j - Len(m)]
    BY <1>7, <1>8, ConcatLists
  <2>3. Len(t) = n + 1 BY <1>2, <1>5, <1>8, <2>1
  <2> QED BY <2>1, <2>2, <2>3
<1>12. DOMAIN t = 1 .. n + 1 BY <1>11, ListFacts
<1> HIDE DEF t
<1>13. t[i] = x
  <2>1. i \in DOMAIN t /\ i <= Len(m) BY <1>2, <1>8, <1>12
  <2> QED BY <1>10, <1>11, <2>1
<1>14. \A j \in 1 .. n : j < i => t[j] = s[j]
  <2>1. \A j \in 1 .. n : j < i => j \in DOMAIN t /\ j <= Len(m) BY <1>2, <1>8, <1>12
  <2> QED BY <1>10, <1>11, <2>1
<1>15. ASSUME NEW j \in 1 .. n, j >= i PROVE t[j + 1] = s[j]
  <2>1. j + 1 \in DOMAIN t /\ ~(j + 1 <= Len(m)) /\ j + 1 - Len(m) \in 1 .. n - i + 1
        /\ i + (j + 1 - Len(m)) - 1 = j
    BY <1>2, <1>8, <1>12, <1>15
  <2>2. t[j + 1] = b[j + 1 - Len(m)] BY <1>11, <2>1
  <2> QED BY <1>5, <2>1, <2>2
<1> QED BY <1>6, <1>11, <1>13, <1>14, <1>15 DEF n

-----------------------------------------------------------------------------
(* The settings of the app on imported rules.  After them the first        *)
(* resolve rule for the whole TUN has the strategy of the IP mode, and     *)
(* some rule takes the DNS queries of the TUN.                             *)
ResolvesFirst(rules, ip, matcher) ==
  \E m \in 1 .. Len(rules) :
    /\ is_generic_resolve_rule(rules[m], matcher)
    /\ rules[m] = [rules[m] EXCEPT !.strategy = dns_strategy(ip)]
    /\ \A k \in 1 .. m - 1 : ~is_generic_resolve_rule(rules[k], matcher)
Hijacked(rules, matcher) ==
  \E i \in DOMAIN rules : is_dns_hijack_rule(rules[i], matcher)

(* The place of the first rule of a kind.                                  *)
LEMMA FirstOf ==
  ASSUME NEW n \in Nat, NEW I, I \subseteq 1 .. n, NEW first,
         first = IF I # {} THEN Min(I) ELSE 0
  PROVE  /\ first \in 0 .. n /\ (first # 0 <=> I # {})
         /\ first # 0 => first \in I /\ \A k \in 1 .. first - 1 : k \notin I
<1>1. CASE I = {} BY <1>1
<1>2. CASE I # {}
  <2>0. I \subseteq Nat OBVIOUS
  <2>1. first \in I /\ \A y \in I : first <= y BY <1>2, <2>0, FirstIs
  <2>2. first \in 1 .. n BY <2>1
  <2>3. \A k \in 1 .. first - 1 : ~(first <= k) BY <2>2
  <2> QED BY <1>2, <2>1, <2>2, <2>3
<1> QED BY <1>1, <1>2

(* Settled rules are left as they are.                                     *)
LEMMA ResolveKept ==
  ASSUME NEW rules, IsList(rules), NEW ip, NEW matcher, ResolvesFirst(rules, ip, matcher)
  PROVE  ensure_resolve_rule_after_sniff(rules, ip, matcher) = rules
<1> DEFINE n == Len(rules)
           I == {i \in 1 .. n : is_generic_resolve_rule(rules[i], matcher)}
           present == IF I # {} THEN Min(I) ELSE 0
           kept == [rules EXCEPT ![present].strategy = dns_strategy(ip)]
<1>1. n \in Nat /\ DOMAIN rules = 1 .. n BY ListFacts
<1>2. PICK m \in 1 .. n :
        /\ is_generic_resolve_rule(rules[m], matcher)
        /\ rules[m] = [rules[m] EXCEPT !.strategy = dns_strategy(ip)]
        /\ \A k \in 1 .. m - 1 : ~is_generic_resolve_rule(rules[k], matcher)
  BY DEF ResolvesFirst
<1>3. m \in I BY <1>2
<1>4. \A k \in 1 .. m - 1 : k \notin I BY <1>2
<1>5. I \subseteq 1 .. n OBVIOUS
<1>6. present = IF I # {} THEN Min(I) ELSE 0 OBVIOUS
<1>7. ensure_resolve_rule_after_sniff(rules, ip, matcher) = kept
  <2>1. present # 0
    <3> HIDE DEF I, present, n
    <3> QED BY <1>1, <1>3, <1>5, <1>6, FirstOf
  <2> QED BY <2>1 DEF ensure_resolve_rule_after_sniff, SelectInSeq
<1> HIDE DEF I, present, n
<1>8. present \in I /\ present \in 1 .. n /\ \A k \in 1 .. present - 1 : k \notin I
  BY <1>1, <1>3, <1>5, <1>6, FirstOf
<1>9. present = m
  <2>1. present \in Nat /\ m \in Nat /\ present >= 1 /\ m >= 1 BY <1>1, <1>8
  <2>2. ~(m < present) /\ ~(present < m) BY <1>3, <1>4, <1>8, <2>1
  <2> QED BY <2>1, <2>2
<1>10. kept = [i \in 1 .. n |-> rules[i]]
  <2>1. kept = [i \in 1 .. n |-> IF i = m THEN [rules[m] EXCEPT !.strategy = dns_strategy(ip)]
                                 ELSE rules[i]]
    BY <1>1, <1>9
  <2> HIDE DEF kept
  <2> QED BY <1>2, <2>1
<1>11. rules = [i \in 1 .. n |-> rules[i]]
  <2>1. PICK S : rules \in Seq(S) BY DEF IsList
  <2> QED BY <1>1, <2>1, LenProperties
<1> QED BY <1>7, <1>10, <1>11

LEMMA HijackKept ==
  ASSUME NEW rules, NEW matcher, Hijacked(rules, matcher)
  PROVE  ensure_dns_hijack_rule_after_resolve(rules, matcher) = rules
BY DEF Hijacked, ensure_dns_hijack_rule_after_resolve

LEMMA SameMatches ==
  ASSUME NEW matcher, matcher # {} PROVE rule_inbound_matches(matcher, matcher)
BY DEF rule_inbound_matches

(* Inserting a rule that is no resolve rule leaves the first resolve rule  *)
(* the first.                                                              *)
LEMMA InsertKeepsResolved ==
  ASSUME NEW rules, IsList(rules), NEW ip, NEW matcher, ResolvesFirst(rules, ip, matcher),
         NEW i \in 1 .. Len(rules) + 1, NEW x, ~is_generic_resolve_rule(x, matcher)
  PROVE  ResolvesFirst(InsertAt(rules, i, x), ip, matcher)
<1> DEFINE n == Len(rules)
           t == InsertAt(rules, i, x)
           G(r) == is_generic_resolve_rule(r, matcher)
<1>1. n \in Nat /\ i \in Nat BY ListFacts
<1>2. /\ Len(t) = n + 1 /\ t[i] = x
      /\ \A j \in 1 .. n : j < i => t[j] = rules[j]
      /\ \A j \in 1 .. n : j >= i => t[j + 1] = rules[j]
  BY InsertIs
<1> HIDE DEF t
<1>3. PICK m \in 1 .. n :
        /\ G(rules[m]) /\ rules[m] = [rules[m] EXCEPT !.strategy = dns_strategy(ip)]
        /\ \A k \in 1 .. m - 1 : ~G(rules[k])
  BY DEF ResolvesFirst
<1> HIDE DEF G, n
<1>4. CASE m < i
  <2>1. m \in 1 .. Len(t) /\ t[m] = rules[m] BY <1>1, <1>2, <1>4
  <2>2. \A k \in 1 .. m - 1 : k \in 1 .. n /\ k < i BY <1>1, <1>4
  <2>3. \A k \in 1 .. m - 1 : ~G(t[k]) BY <1>2, <1>3, <2>2
  <2> QED BY <1>3, <2>1, <2>3 DEF ResolvesFirst, G, t
<1>5. CASE m >= i
  <2>1. m + 1 \in 1 .. Len(t) /\ t[m + 1] = rules[m] BY <1>1, <1>2, <1>5
  <2>2. ASSUME NEW k \in 1 .. (m + 1) - 1 PROVE ~G(t[k])
    <3>1. k \in 1 .. n /\ k <= m /\ k \in Nat BY <1>1
    <3>2. CASE k < i
      <4>1. k \in 1 .. m - 1 BY <1>1, <1>5, <3>1, <3>2
      <4> QED BY <1>2, <1>3, <3>1, <3>2, <4>1
    <3>3. CASE k = i
      <4>1. ~G(x) BY DEF G
      <4> QED BY <1>2, <3>3, <4>1
    <3>4. CASE k > i
      <4>1. k - 1 \in 1 .. m - 1 /\ k - 1 \in 1 .. n /\ k - 1 >= i /\ (k - 1) + 1 = k
        BY <1>1, <3>1, <3>4
      <4>2. t[(k - 1) + 1] = rules[k - 1] BY <1>2, <4>1
      <4>3. t[k] = rules[k - 1] BY <4>1, <4>2
      <4> QED BY <1>3, <4>1, <4>3
    <3> QED BY <1>1, <3>1, <3>2, <3>3, <3>4
  <2> QED BY <1>3, <2>1, <2>2 DEF ResolvesFirst, G, t
<1> QED BY <1>1, <1>4, <1>5

(* The resolve rule with the strategy is there afterwards, and the rule    *)
(* for DNS queries after that.                                             *)
LEMMA ResolveSet ==
  ASSUME NEW rules, IsList(rules), NEW ip, NEW matcher, matcher # {},
         NEW r, r = ensure_resolve_rule_after_sniff(rules, ip, matcher)
  PROVE  IsList(r) /\ ResolvesFirst(r, ip, matcher)
<1> DEFINE n == Len(rules)
           s == dns_strategy(ip)
           I == {i \in 1 .. n : is_generic_resolve_rule(rules[i], matcher)}
           J == {i \in 1 .. n : /\ rules[i].action = "sniff"
                                /\ rule_inbound_matches(rules[i].inbound, matcher)}
           present == IF I # {} THEN Min(I) ELSE 0
           sniff == IF J # {} THEN Min(J) ELSE 0
           x == [PlainRule("resolve", matcher) EXCEPT !.strategy = s]
           y == PlainRule("sniff", matcher)
           kept == [rules EXCEPT ![present].strategy = s]
<1>1. n \in Nat /\ DOMAIN rules = 1 .. n BY ListFacts
<1>2. r = CASE present # 0 -> kept
            [] present = 0 /\ sniff # 0 -> InsertAt(rules, sniff + 1, x)
            [] OTHER -> <<y, x>> \o rules
  BY DEF ensure_resolve_rule_after_sniff, SelectInSeq
<1>3. /\ present \in 0 .. n /\ (present # 0 <=> I # {})
      /\ present # 0 => present \in I /\ \A k \in 1 .. present - 1 : k \notin I
  <2>1. I \subseteq 1 .. n /\ present = IF I # {} THEN Min(I) ELSE 0 OBVIOUS
  <2> HIDE DEF n, I, present
  <2> QED BY <1>1, <2>1, FirstOf
<1>4. sniff \in 0 .. n
  <2>1. J \subseteq 1 .. n /\ sniff = IF J # {} THEN Min(J) ELSE 0 OBVIOUS
  <2> HIDE DEF n, J, sniff
  <2> QED BY <1>1, <2>1, FirstOf
<1>5. \A i \in 1 .. n : i \in I <=> is_generic_resolve_rule(rules[i], matcher) OBVIOUS
<1>6. /\ is_generic_resolve_rule(x, matcher) /\ x = [x EXCEPT !.strategy = s]
      /\ ~is_generic_resolve_rule(y, matcher)
  BY SameMatches DEF is_generic_resolve_rule, PlainRule
<1> HIDE DEF n, I, J, present, sniff, x, y
<1>7. CASE present # 0
  <2> DEFINE old == rules[present]
             new == [old EXCEPT !.strategy = s]
  <2>1. present \in 1 .. n /\ is_generic_resolve_rule(old, matcher)
    BY <1>1, <1>3, <1>5, <1>7
  <2>2. kept = [i \in 1 .. n |-> IF i = present THEN new ELSE rules[i]] BY <1>1, <2>1
  <2>3. new = [new EXCEPT !.strategy = s] OBVIOUS
  <2>4. new.action = old.action /\ new.inbound = old.inbound /\ new.generic = old.generic
    OBVIOUS
  <2>5. is_generic_resolve_rule(new, matcher) BY <2>1, <2>4 DEF is_generic_resolve_rule
  <2> HIDE DEF new, old
  <2>6. r = [i \in 1 .. n |-> IF i = present THEN new ELSE rules[i]] BY <1>2, <1>7, <2>2
  <2> HIDE DEF kept
  <2>7. r = [i \in 1 .. n |-> r[i]] /\ r[present] = new
        /\ \A i \in 1 .. n : i # present => r[i] = rules[i]
    BY <2>1, <2>6
  <2>8. IsList(r) /\ Len(r) = n BY <1>1, <2>7, MappedList
  <2>9. \A k \in 1 .. present - 1 : k \in 1 .. n /\ k # present BY <1>1, <2>1
  <2>10. \A k \in 1 .. present - 1 : ~is_generic_resolve_rule(r[k], matcher)
    BY <1>3, <1>5, <1>7, <2>7, <2>9
  <2> QED BY <2>1, <2>3, <2>5, <2>7, <2>8, <2>10 DEF ResolvesFirst
<1>8. CASE present = 0 /\ sniff # 0
  <2>1. r = InsertAt(rules, sniff + 1, x) BY <1>2, <1>8
  <2>2. sniff + 1 \in 1 .. n + 1 BY <1>1, <1>4
  <2>3. /\ IsList(r) /\ Len(r) = n + 1 /\ r[sniff + 1] = x
        /\ \A j \in 1 .. n : j < sniff + 1 => r[j] = rules[j]
    BY <2>1, <2>2, InsertIs DEF n
  <2>4. \A k \in 1 .. (sniff + 1) - 1 : k \in 1 .. n /\ k < sniff + 1 BY <1>1, <1>4
  <2>5. \A k \in 1 .. (sniff + 1) - 1 : ~is_generic_resolve_rule(r[k], matcher)
    BY <1>3, <1>5, <1>8, <2>3, <2>4
  <2> QED BY <1>6, <2>2, <2>3, <2>5 DEF ResolvesFirst
<1>9. CASE present = 0 /\ sniff = 0
  <2> DEFINE f == <<y, x>>
  <2>1. r = f \o rules BY <1>2, <1>9
  <2>2. IsList(f) /\ Len(f) = 2 /\ f[1] = y /\ f[2] = x
    <3>1. f \in Seq({y, x}) OBVIOUS
    <3> QED BY <3>1 DEF IsList
  <2> HIDE DEF f
  <2>3. IsList(r) /\ Len(r) = Len(f) + Len(rules)
        /\ \A j \in DOMAIN r : r[j] = IF j <= Len(f) THEN f[j] ELSE rules[j - Len(f)]
    <3>1. IsList(f) BY <2>2
    <3>2. /\ IsList(f \o rules) /\ Len(f \o rules) = Len(f) + Len(rules)
          /\ \A j \in DOMAIN (f \o rules) :
                (f \o rules)[j] = IF j <= Len(f) THEN f[j] ELSE rules[j - Len(f)]
      BY <3>1, ConcatLists
    <3> QED BY <2>1, <3>2
  <2>4. DOMAIN r = 1 .. Len(r) BY <2>3, ListFacts
  <2>5. 1 \in DOMAIN r /\ 2 \in DOMAIN r BY <1>1, <2>2, <2>3, <2>4 DEF n
  <2>6. r[1] = y /\ r[2] = x BY <2>2, <2>3, <2>5
  <2>7. \A k \in 1 .. 2 - 1 : k = 1 OBVIOUS
  <2>8. \A k \in 1 .. 2 - 1 : ~is_generic_resolve_rule(r[k], matcher) BY <1>6, <2>6, <2>7
  <2>9. 2 \in 1 .. Len(r) BY <2>4, <2>5
  <2> QED BY <1>6, <2>3, <2>6, <2>8, <2>9 DEF ResolvesFirst
<1> QED BY <1>7, <1>8, <1>9

LEMMA HijackIs ==
  ASSUME NEW rules, IsList(rules), NEW ip, NEW matcher, matcher # {},
         ResolvesFirst(rules, ip, matcher),
         NEW r, r = ensure_dns_hijack_rule_after_resolve(rules, matcher)
  PROVE  IsList(r) /\ ResolvesFirst(r, ip, matcher) /\ Hijacked(r, matcher)
<1> DEFINE n == Len(rules)
           I(action) == {i \in 1 .. n : /\ rules[i].action = action
                                        /\ rule_inbound_matches(rules[i].inbound, matcher)}
           first(action) == IF I(action) # {} THEN Min(I(action)) ELSE 0
           after == IF first("resolve") # 0 THEN first("resolve") ELSE first("sniff")
           x == PlainRule("hijack-dns", matcher)
<1>1. n \in Nat /\ DOMAIN rules = 1 .. n BY ListFacts
<1>2. r = IF Hijacked(rules, matcher) THEN rules ELSE InsertAt(rules, after + 1, x)
  BY DEF ensure_dns_hijack_rule_after_resolve, SelectInSeq, Hijacked
<1>3. \A action : first(action) \in 0 .. n
  <2> TAKE action
  <2> DEFINE K == I(action)
             g == first(action)
  <2>1. K \subseteq 1 .. n /\ g = IF K # {} THEN Min(K) ELSE 0 OBVIOUS
  <2> HIDE DEF n, K, g
  <2>2. g \in 0 .. n BY <1>1, <2>1, FirstOf
  <2> QED BY <2>2 DEF g
<1> HIDE DEF first
<1>4. after \in 0 .. n BY <1>3
<1>5. ~is_generic_resolve_rule(x, matcher) /\ is_dns_hijack_rule(x, matcher)
  BY SameMatches DEF is_generic_resolve_rule, is_dns_hijack_rule, PlainRule
<1> HIDE DEF after, x
<1>6. CASE Hijacked(rules, matcher) BY <1>2, <1>6
<1>7. CASE ~Hijacked(rules, matcher)
  <2>1. after + 1 \in 1 .. Len(rules) + 1 BY <1>1, <1>4
  <2>2. r = InsertAt(rules, after + 1, x) BY <1>2, <1>7
  <2>3. IsList(r) /\ Len(r) = Len(rules) + 1 /\ r[after + 1] = x BY <2>1, <2>2, InsertIs
  <2>4. ResolvesFirst(r, ip, matcher) BY <1>5, <2>1, <2>2, InsertKeepsResolved
  <2>5. after + 1 \in DOMAIN r BY <2>1, <2>3, ListFacts
  <2>6. Hijacked(r, matcher) BY <1>5, <2>3, <2>5 DEF Hijacked
  <2> QED BY <2>3, <2>4, <2>6
<1> QED BY <1>6, <1>7

(* Neither adds a rule that asks for DNS and for something else besides.   *)
Narrowed(rules, matcher) ==
  \E j \in DOMAIN rules : is_dns_hijack_rule(rules[j], matcher) /\ rules[j].narrow

LEMMA InsertNarrows ==
  ASSUME NEW s, IsList(s), NEW i \in 1 .. Len(s) + 1, NEW x, NEW matcher,
         ~(is_dns_hijack_rule(x, matcher) /\ x.narrow),
         Narrowed(InsertAt(s, i, x), matcher)
  PROVE  Narrowed(s, matcher)
<1> DEFINE n == Len(s)
           t == InsertAt(s, i, x)
           N(r) == is_dns_hijack_rule(r, matcher) /\ r.narrow
<1>1. n \in Nat /\ i \in Nat /\ DOMAIN s = 1 .. n BY ListFacts
<1>2. /\ IsList(t) /\ Len(t) = n + 1 /\ t[i] = x
      /\ \A j \in 1 .. n : j < i => t[j] = s[j]
      /\ \A j \in 1 .. n : j >= i => t[j + 1] = s[j]
  BY InsertIs
<1>3. DOMAIN t = 1 .. n + 1 BY <1>2, ListFacts
<1>4. PICK j \in DOMAIN t : N(t[j]) BY DEF Narrowed
<1>5. ~N(x) OBVIOUS
<1> HIDE DEF N, t, n
<1>6. j \in 1 .. n + 1 BY <1>3
<1>7. CASE j < i
  <2>1. j \in 1 .. n BY <1>1, <1>6, <1>7 DEF n
  <2> QED BY <1>1, <1>2, <1>4, <1>7, <2>1 DEF N, Narrowed
<1>8. CASE j = i BY <1>2, <1>4, <1>5, <1>8
<1>9. CASE j > i
  <2>1. j - 1 \in 1 .. n /\ j - 1 >= i /\ (j - 1) + 1 = j BY <1>1, <1>6, <1>9
  <2>2. t[(j - 1) + 1] = s[j - 1] BY <1>2, <2>1
  <2>3. N(s[j - 1]) BY <1>4, <2>1, <2>2
  <2> QED BY <1>1, <2>1, <2>3 DEF N, Narrowed
<1> QED BY <1>1, <1>6, <1>7, <1>8, <1>9

LEMMA ResolveNarrows ==
  ASSUME NEW rules, IsList(rules), NEW ip, NEW matcher,
         NEW r, r = ensure_resolve_rule_after_sniff(rules, ip, matcher), Narrowed(r, matcher)
  PROVE  Narrowed(rules, matcher)
<1> DEFINE n == Len(rules)
           s == dns_strategy(ip)
           I == {i \in 1 .. n : is_generic_resolve_rule(rules[i], matcher)}
           J == {i \in 1 .. n : /\ rules[i].action = "sniff"
                                /\ rule_inbound_matches(rules[i].inbound, matcher)}
           present == IF I # {} THEN Min(I) ELSE 0
           sniff == IF J # {} THEN Min(J) ELSE 0
           x == [PlainRule("resolve", matcher) EXCEPT !.strategy = s]
           y == PlainRule("sniff", matcher)
           kept == [rules EXCEPT ![present].strategy = s]
           N(a) == is_dns_hijack_rule(a, matcher) /\ a.narrow
<1>1. n \in Nat /\ DOMAIN rules = 1 .. n BY ListFacts
<1>2. r = CASE present # 0 -> kept
            [] present = 0 /\ sniff # 0 -> InsertAt(rules, sniff + 1, x)
            [] OTHER -> <<y, x>> \o rules
  BY DEF ensure_resolve_rule_after_sniff, SelectInSeq
<1>3. present # 0 => present \in I
  <2>1. I \subseteq 1 .. n /\ present = IF I # {} THEN Min(I) ELSE 0 OBVIOUS
  <2> HIDE DEF n, I, present
  <2> QED BY <1>1, <2>1, FirstOf
<1>4. sniff \in 0 .. n
  <2>1. J \subseteq 1 .. n /\ sniff = IF J # {} THEN Min(J) ELSE 0 OBVIOUS
  <2> HIDE DEF n, J, sniff
  <2> QED BY <1>1, <2>1, FirstOf
<1>5. \A i \in I : i \in 1 .. n /\ rules[i].action = "resolve" BY DEF is_generic_resolve_rule
<1>6. ~N(x) /\ ~N(y)
  <2>1. x.action = "resolve" /\ y.action = "sniff" BY DEF PlainRule
  <2> QED BY <2>1 DEF is_dns_hijack_rule
<1>7. PICK j \in DOMAIN r : N(r[j]) BY DEF Narrowed
<1>8. ASSUME NEW k \in 1 .. n, N(rules[k]) PROVE Narrowed(rules, matcher)
  BY <1>1, <1>8 DEF Narrowed
<1> HIDE DEF n, I, J, present, sniff, x, y
<1>9. CASE present # 0
  <2> DEFINE old == rules[present]
             new == [old EXCEPT !.strategy = s]
  <2>1. present \in 1 .. n /\ old.action = "resolve" BY <1>3, <1>5, <1>9
  <2>2. kept = [i \in 1 .. n |-> IF i = present THEN new ELSE rules[i]] BY <1>1, <2>1
  <2>3. new.action = old.action OBVIOUS
  <2>4. ~N(new) BY <2>1, <2>3 DEF is_dns_hijack_rule
  <2> HIDE DEF new, old, N
  <2>5. r = [i \in 1 .. n |-> IF i = present THEN new ELSE rules[i]] BY <1>2, <1>9, <2>2
  <2> HIDE DEF kept
  <2>6. j \in 1 .. n /\ (j # present => r[j] = rules[j]) /\ (j = present => r[j] = new)
    BY <2>5
  <2> QED BY <1>7, <1>8, <2>4, <2>6
<1>10. CASE present = 0 /\ sniff # 0
  <2>1. r = InsertAt(rules, sniff + 1, x) BY <1>2, <1>10
  <2>2. sniff + 1 \in 1 .. Len(rules) + 1 BY <1>1, <1>4 DEF n
  <2> QED BY <1>6, <2>1, <2>2, InsertNarrows
<1>11. CASE present = 0 /\ sniff = 0
  <2> DEFINE f == <<y, x>>
  <2>1. r = f \o rules BY <1>2, <1>11
  <2>2. IsList(f) /\ Len(f) = 2 /\ f[1] = y /\ f[2] = x
    <3>1. f \in Seq({y, x}) OBVIOUS
    <3> QED BY <3>1 DEF IsList
  <2> HIDE DEF f, N
  <2>3. IsList(r) /\ Len(r) = Len(f) + Len(rules)
        /\ \A i \in DOMAIN r : r[i] = IF i <= Len(f) THEN f[i] ELSE rules[i - Len(f)]
    BY <2>1, <2>2, ConcatLists
  <2>4. DOMAIN r = 1 .. n + 2 BY <1>1, <2>2, <2>3, ListFacts DEF n
  <2>5. CASE j <= 2
    <3>1. j = 1 \/ j = 2 BY <1>1, <2>4, <2>5
    <3>2. r[j] = f[j] BY <2>2, <2>3, <2>5
    <3> QED BY <1>6, <1>7, <2>2, <3>1, <3>2
  <2>6. CASE ~(j <= 2)
    <3>1. j - 2 \in 1 .. n BY <1>1, <2>4, <2>6
    <3>2. r[j] = rules[j - 2] BY <2>2, <2>3, <2>6
    <3> QED BY <1>7, <1>8, <3>1, <3>2
  <2> QED BY <2>5, <2>6
<1> QED BY <1>9, <1>10, <1>11

LEMMA HijackNarrows ==
  ASSUME NEW rules, IsList(rules), NEW matcher,
         NEW r, r = ensure_dns_hijack_rule_after_resolve(rules, matcher), Narrowed(r, matcher)
  PROVE  Narrowed(rules, matcher)
<1> DEFINE n == Len(rules)
           I(action) == {i \in 1 .. n : /\ rules[i].action = action
                                        /\ rule_inbound_matches(rules[i].inbound, matcher)}
           first(action) == IF I(action) # {} THEN Min(I(action)) ELSE 0
           after == IF first("resolve") # 0 THEN first("resolve") ELSE first("sniff")
           x == PlainRule("hijack-dns", matcher)
<1>1. n \in Nat BY ListFacts
<1>2. r = rules \/ r = InsertAt(rules, after + 1, x)
  BY DEF ensure_dns_hijack_rule_after_resolve, SelectInSeq
<1>3. \A action : first(action) \in 0 .. n
  <2> TAKE action
  <2> DEFINE K == I(action)
             g == first(action)
  <2>1. K \subseteq 1 .. n /\ g = IF K # {} THEN Min(K) ELSE 0 OBVIOUS
  <2> HIDE DEF n, K, g
  <2>2. g \in 0 .. n BY <1>1, <2>1, FirstOf
  <2> QED BY <2>2 DEF g
<1> HIDE DEF first
<1>4. after + 1 \in 1 .. Len(rules) + 1 BY <1>1, <1>3
<1>5. ~x.narrow BY DEF PlainRule
<1> HIDE DEF after, x
<1>6. CASE r = rules BY <1>6
<1>7. CASE r = InsertAt(rules, after + 1, x) BY <1>4, <1>5, <1>7, InsertNarrows
<1> QED BY <1>2, <1>6, <1>7

-----------------------------------------------------------------------------
(* The settings of the app on a TUN inbound.                               *)
Renamed(in, o) ==
  LET named == IF o.windows THEN [in EXCEPT !.named = TRUE] ELSE in
  IN  IF o.android THEN apply_android_tun_compatibility([named EXCEPT !.mtu = 1400])
      ELSE named
SetInbound(in, o) == apply_tun_ip_mode_to_inbound(Renamed(in, o), o.ip)

(* What Renamed sets.                                                      *)
No == FALSE
Yes == TRUE
Renames(in, o) ==
  /\ o.android => in.mtu = 1400 /\ in.named = No /\ in.strict = No
                  /\ in.stack = "gvisor"
  /\ o.windows /\ ~o.android => in.named = Yes

(* What the settings for Android leave of an inbound m.                    *)
Compatible(r, m) ==
  /\ TunInbound(r) /\ r.mtu = m.mtu
  /\ r.named = No /\ r.strict = No /\ r.stack = "gvisor"
  /\ r.tag = m.tag /\ r.address = m.address /\ r.legacy = m.legacy
  /\ r.route = m.route /\ r.exclude = m.exclude

LEMMA CompatibleIs ==
  ASSUME NEW m, TunInbound(m), NEW r, r = apply_android_tun_compatibility(m)
  PROVE  Compatible(r, m)
<1>2. r = [m EXCEPT !.named = FALSE, !.strict = FALSE, !.stack = "gvisor"]
  BY DEF apply_android_tun_compatibility
<1>3. r = [m EXCEPT !.named = No, !.strict = No, !.stack = "gvisor"] BY <1>2 DEF No
<1>4. /\ TunInbound(r) /\ r.mtu = m.mtu
      /\ r.named = No /\ r.strict = No /\ r.stack = "gvisor"
      /\ r.tag = m.tag /\ r.address = m.address /\ r.legacy = m.legacy
      /\ r.route = m.route /\ r.exclude = m.exclude
  BY <1>3 DEF TunInbound, TunFields
<1> QED BY <1>4 DEF Compatible

(* Name, MTU and stack are set once: setting them again changes nothing.   *)
LEMMA RenamedIs ==
  ASSUME NEW in, TunInbound(in), NEW o, NEW r, r = Renamed(in, o)
  PROVE  /\ TunInbound(r) /\ Renames(r, o)
         /\ r.tag = in.tag /\ r.address = in.address /\ r.legacy = in.legacy
         /\ r.route = in.route /\ r.exclude = in.exclude
         /\ Renames(in, o) => r = in
<1>1. CASE o.android
  <2> DEFINE named == IF o.windows THEN [in EXCEPT !.named = TRUE] ELSE in
             m == [named EXCEPT !.mtu = 1400]
  <2>1. TunInbound(named) /\ named.tag = in.tag /\ named.address = in.address
        /\ named.legacy = in.legacy /\ named.route = in.route /\ named.exclude = in.exclude
        /\ named.strict = in.strict /\ named.stack = in.stack /\ named.mtu = in.mtu
    BY DEF TunInbound, TunFields
  <2>2. r = apply_android_tun_compatibility(m) BY <1>1 DEF Renamed
  <2> HIDE DEF named
  <2>3. TunInbound(m) /\ m.tag = in.tag /\ m.address = in.address
        /\ m.legacy = in.legacy /\ m.route = in.route /\ m.exclude = in.exclude
        /\ m.mtu = 1400
    BY <2>1 DEF TunInbound, TunFields
  <2> HIDE DEF m
  <2>4. Compatible(r, m) BY <2>2, <2>3, CompatibleIs
  <2>5. Renames(in, o) => r = in
    <3> SUFFICES ASSUME Renames(in, o) PROVE r = in OBVIOUS
    <3>0. r.named = in.named /\ r.strict = in.strict /\ r.stack = in.stack /\ r.mtu = in.mtu
      BY <1>1, <2>3, <2>4 DEF Renames, Compatible
    <3>1. \A f \in TunFields : r[f] = in[f] BY <2>3, <2>4, <3>0 DEF TunFields, Compatible
    <3>2. r = [f \in TunFields |-> r[f]] BY <2>4 DEF TunInbound, Compatible
    <3>3. in = [f \in TunFields |-> in[f]] BY DEF TunInbound
    <3>4. [f \in TunFields |-> r[f]] = [f \in TunFields |-> in[f]] BY <3>1
    <3> QED BY <3>2, <3>3, <3>4, Zenon
  <2> QED BY <1>1, <2>3, <2>4, <2>5 DEF Renames, Compatible
<1>2. CASE ~o.android /\ o.windows
  <2>1. r = [in EXCEPT !.named = Yes] BY <1>2 DEF Renamed, Yes
  <2> QED BY <1>2, <2>1 DEF Renames, TunInbound, TunFields
<1>3. CASE ~o.android /\ ~o.windows
  <2>1. r = in BY <1>3 DEF Renamed
  <2> QED BY <1>3, <2>1 DEF Renames
<1> QED BY <1>1, <1>2, <1>3

(* The IP mode keeps a family, leaves no inbound without an address, and   *)
(* changes nothing the second time (apply_tun_ip_mode_to_inbound).         *)
LEMMA KeptFamilies ==
  \A ip : tun_addresses(ip) # {}
BY DEF tun_addresses

LEMMA IpModeIs ==
  ASSUME NEW in, TunInbound(in), NEW ip, NEW r, r = apply_tun_ip_mode_to_inbound(in, ip)
  PROVE  /\ TunInbound(r) /\ r.tag = in.tag /\ r.mtu = in.mtu /\ r.named = in.named
         /\ r.strict = in.strict /\ r.stack = in.stack
         /\ ip # "dualStack" =>
              /\ r.address \cup r.legacy # {}
              /\ r.address \cup r.legacy \cup r.route \cup r.exclude \subseteq tun_addresses(ip)
         /\ r.exclude \subseteq in.exclude
         /\ in.address = tun_addresses(ip) => r.address = in.address
         /\ apply_tun_ip_mode_to_inbound(r, ip) = r
<1>1. CASE ip = "dualStack" BY <1>1 DEF apply_tun_ip_mode_to_inbound
<1>2. CASE ip # "dualStack"
  <2> DEFINE keep == tun_addresses(ip)
             Filtered(x) == IF x.address = {} THEN {} ELSE IF x.address \cap keep = {} THEN keep
                            ELSE x.address \cap keep
             Address(x) == IF Filtered(x) \cup (x.legacy \cap keep) = {} THEN keep
                           ELSE Filtered(x)
             Set(x) == [x EXCEPT !.address = Address(x), !.legacy = @ \cap keep,
                                 !.route = @ \cap keep, !.exclude = @ \cap keep]
  <2>1. \A x : apply_tun_ip_mode_to_inbound(x, ip) = Set(x)
    BY <1>2 DEF apply_tun_ip_mode_to_inbound
  <2>2. keep # {} BY KeptFamilies
  <2> DEFINE a == Address(in)
             l == in.legacy \cap keep
  <2>4. /\ a \subseteq keep /\ a \cup l # {}
        /\ in.address = keep => a = keep
    <3> HIDE DEF keep
    <3> QED BY <2>2
  <2> HIDE DEF keep, a
  <2>5. r = [in EXCEPT !.address = a, !.legacy = l, !.route = in.route \cap keep,
                       !.exclude = in.exclude \cap keep]
    BY <2>1 DEF a
  <2>6. /\ TunInbound(r) /\ r.address = a /\ r.legacy = l
        /\ r.route = in.route \cap keep /\ r.exclude = in.exclude \cap keep
        /\ r.tag = in.tag /\ r.mtu = in.mtu /\ r.named = in.named
        /\ r.strict = in.strict /\ r.stack = in.stack
    <3> HIDE DEF l
    <3> QED BY <2>5 DEF TunInbound, TunFields
  <2>7. Address(r) = r.address BY <2>2, <2>4, <2>6
  <2>8. /\ r.legacy \cap keep = r.legacy /\ r.route \cap keep = r.route
        /\ r.exclude \cap keep = r.exclude
    BY <2>6
  <2>9. Set(r) = r
    <3> DEFINE b == Address(r)
    <3>1. Set(r) = [r EXCEPT !.address = b, !.legacy = r.legacy, !.route = r.route,
                             !.exclude = r.exclude]
      BY <2>8
    <3> HIDE DEF b, Set
    <3>2. b = r.address BY <2>7 DEF b
    <3> QED BY <2>6, <3>1, <3>2 DEF TunInbound, TunFields
  <2> HIDE DEF Set, Address
  <2>10. apply_tun_ip_mode_to_inbound(r, ip) = r BY <2>1, <2>9
  <2> QED BY <1>2, <2>4, <2>6, <2>10 DEF keep
<1> QED BY <1>1, <1>2

(* What the settings make of an inbound.                                   *)
IsSet(r, in, o) ==
  /\ TunInbound(r) /\ r.tag = in.tag
  /\ o.ip # "dualStack" =>
       /\ r.address \cup r.legacy # {}
       /\ r.address \cup r.legacy \cup r.route \cup r.exclude \subseteq tun_addresses(o.ip)
  /\ r.exclude \subseteq in.exclude
  /\ in.address = tun_addresses(o.ip) => r.address = in.address
  /\ SetInbound(r, o) = r

LEMMA SetInboundIs ==
  ASSUME NEW in, TunInbound(in), NEW o, NEW r, r = SetInbound(in, o)
  PROVE  IsSet(r, in, o)
<1> DEFINE s == Renamed(in, o)
<1>1. /\ TunInbound(s) /\ Renames(s, o) /\ s.tag = in.tag /\ s.address = in.address
      /\ s.legacy = in.legacy /\ s.route = in.route /\ s.exclude = in.exclude
  BY RenamedIs
<1>2. r = apply_tun_ip_mode_to_inbound(s, o.ip) BY DEF SetInbound
<1> HIDE DEF s
<1>3. /\ TunInbound(r) /\ r.tag = s.tag /\ r.mtu = s.mtu /\ r.named = s.named
      /\ r.strict = s.strict /\ r.stack = s.stack
      /\ r.exclude \subseteq s.exclude
      /\ apply_tun_ip_mode_to_inbound(r, o.ip) = r
  BY <1>1, <1>2, IpModeIs
<1>4. Renames(r, o) BY <1>1, <1>3 DEF Renames
<1>5. Renamed(r, o) = r BY <1>3, <1>4, RenamedIs
<1>6. SetInbound(r, o) = r BY <1>3, <1>5 DEF SetInbound
<1>7. /\ o.ip # "dualStack" =>
           /\ r.address \cup r.legacy # {}
           /\ r.address \cup r.legacy \cup r.route \cup r.exclude \subseteq tun_addresses(o.ip)
      /\ s.address = tun_addresses(o.ip) => r.address = s.address
  BY <1>1, <1>2, IpModeIs
<1> QED BY <1>1, <1>3, <1>6, <1>7 DEF IsSet

-----------------------------------------------------------------------------
(* The settings of the app on a configuration.                             *)
Applied(c, o, matcher) ==
  [c EXCEPT
     !.tuns = [i \in DOMAIN c.tuns |-> SetInbound(c.tuns[i], o)],
     !.autoDetect = c.autoDetect \/ o.android,
     !.dnsStrategy = IF c.dnsStrategy = "no dns" THEN c.dnsStrategy ELSE dns_strategy(o.ip),
     !.rules = ensure_dns_hijack_rule_after_resolve(
                 ensure_resolve_rule_after_sniff(c.rules, o.ip, matcher), matcher)]

(* The record that apply_native_sing_box_tun_settings returns.             *)
LEMMA AppliedText ==
  ASSUME NEW c, c.tuns # <<>>, NEW o
  PROVE  apply_native_sing_box_tun_settings(c, o) =
           Applied(c, o, build_tun_inbound_matcher(c.tuns))
BY DEF apply_native_sing_box_tun_settings, SetInbound, Renamed, Applied

LEMMA AppliedIs ==
  ASSUME NEW c, ImportedConfig(c), c.tuns # <<>>, NEW o,
         NEW r, r = apply_native_sing_box_tun_settings(c, o)
  PROVE  LET matcher == build_tun_inbound_matcher(c.tuns)
         IN  r = [tuns |-> [i \in DOMAIN c.tuns |-> SetInbound(c.tuns[i], o)],
                  autoDetect |-> c.autoDetect \/ o.android,
                  dnsStrategy |-> IF c.dnsStrategy = "no dns" THEN "no dns"
                                  ELSE dns_strategy(o.ip),
                  rules |-> ensure_dns_hijack_rule_after_resolve(
                              ensure_resolve_rule_after_sniff(c.rules, o.ip, matcher), matcher)]
<1> DEFINE matcher == build_tun_inbound_matcher(c.tuns)
           tuns == [i \in DOMAIN c.tuns |-> SetInbound(c.tuns[i], o)]
           auto == c.autoDetect \/ o.android
           strategy == IF c.dnsStrategy = "no dns" THEN c.dnsStrategy ELSE dns_strategy(o.ip)
           rules == ensure_dns_hijack_rule_after_resolve(
                      ensure_resolve_rule_after_sniff(c.rules, o.ip, matcher), matcher)
<1>1. r = [c EXCEPT !.tuns = tuns, !.autoDetect = auto, !.dnsStrategy = strategy, !.rules = rules]
  BY AppliedText, Zenon DEF Applied
<1>2. c = [tuns |-> c.tuns, autoDetect |-> c.autoDetect,
           dnsStrategy |-> c.dnsStrategy, rules |-> c.rules]
  BY DEF ImportedConfig
<1>3. strategy = IF c.dnsStrategy = "no dns" THEN "no dns" ELSE dns_strategy(o.ip) OBVIOUS
<1> HIDE DEF tuns, auto, strategy, rules
<1>4. r = [tuns |-> tuns, autoDetect |-> auto, dnsStrategy |-> strategy, rules |-> rules]
  BY <1>1, <1>2
<1> QED BY <1>3, <1>4 DEF tuns, auto, rules

(* A rule that holds for the whole TUN takes the queries of each inbound.  *)
LEMMA HijacksEach ==
  ASSUME NEW tuns, NEW rule, is_dns_hijack_rule(rule, build_tun_inbound_matcher(tuns)),
         NEW i \in DOMAIN tuns
  PROVE  rule.action = "hijack-dns" /\ rule.dns
         /\ (rule.inbound = AnyInbound \/ tuns[i].tag \in rule.inbound)
BY DEF is_dns_hijack_rule, rule_inbound_matches, build_tun_inbound_matcher

(* The inbounds a rule is asked to match depend on the tags only.          *)
LEMMA SameTags ==
  ASSUME NEW s, NEW t, DOMAIN s = DOMAIN t, \A i \in DOMAIN s : s[i].tag = t[i].tag
  PROVE  build_tun_inbound_matcher(s) = build_tun_inbound_matcher(t)
BY DEF build_tun_inbound_matcher

(* ImportedTunSettings for one configuration: addresses of the mode, a     *)
(* rule for the DNS queries of each TUN unless the import has a narrow     *)
(* one, and nothing changed the second time.                               *)
LEMMA AppliedSettles ==
  ASSUME NEW c, ImportedConfig(c), NEW o,
         NEW r, r = apply_native_sing_box_tun_settings(c, o)
  PROVE  /\ \A i \in DOMAIN r.tuns :
              /\ o.ip # "dualStack" =>
                   /\ r.tuns[i].address \cup r.tuns[i].legacy # {}
                   /\ r.tuns[i].address \cup r.tuns[i].legacy
                      \cup r.tuns[i].route \cup r.tuns[i].exclude \subseteq tun_addresses(o.ip)
              /\ \/ NarrowHijack(c)
                 \/ \E j \in DOMAIN r.rules :
                      /\ r.rules[j].action = "hijack-dns"
                      /\ r.rules[j].dns /\ ~r.rules[j].narrow
                      /\ (r.rules[j].inbound = AnyInbound \/ r.tuns[i].tag \in r.rules[j].inbound)
         /\ apply_native_sing_box_tun_settings(r, o) = r
<1>1. CASE c.tuns = <<>>
  <2>1. r = c BY <1>1 DEF apply_native_sing_box_tun_settings
  <2>2. DOMAIN r.tuns = {} BY <1>1, <2>1
  <2>3. apply_native_sing_box_tun_settings(r, o) = r
    BY <1>1, <2>1 DEF apply_native_sing_box_tun_settings
  <2> QED BY <2>2, <2>3
<1>2. CASE c.tuns # <<>>
  <2> DEFINE matcher == build_tun_inbound_matcher(c.tuns)
             tuns == [i \in DOMAIN c.tuns |-> SetInbound(c.tuns[i], o)]
             auto == c.autoDetect \/ o.android
             strategy == IF c.dnsStrategy = "no dns" THEN "no dns" ELSE dns_strategy(o.ip)
             resolved == ensure_resolve_rule_after_sniff(c.rules, o.ip, matcher)
             rules == ensure_dns_hijack_rule_after_resolve(resolved, matcher)
             n == Len(c.tuns)
  <2>1. r = [tuns |-> tuns, autoDetect |-> auto, dnsStrategy |-> strategy, rules |-> rules]
    BY <1>2, AppliedIs
  <2>2. IsList(c.tuns) /\ IsList(c.rules)
    BY DEF ImportedConfig, IsList
  <2>3. n \in Nat /\ DOMAIN c.tuns = 1 .. n /\ n # 0 BY <1>2, <2>2, ListFacts
  <2>4. \A i \in 1 .. n : TunInbound(c.tuns[i]) BY <2>3 DEF ImportedConfig
  <2>5. matcher # {}
    <3>1. 1 \in DOMAIN c.tuns BY <2>3
    <3> QED BY <3>1 DEF build_tun_inbound_matcher, AnyInbound
  <2>6. /\ tuns = [i \in 1 .. n |-> tuns[i]] /\ DOMAIN tuns = 1 .. n
        /\ \A i \in 1 .. n : tuns[i] = SetInbound(c.tuns[i], o)
    BY <2>3
  <2> HIDE DEF tuns
  <2>7. IsList(tuns) /\ Len(tuns) = n BY <2>3, <2>6, MappedList
  <2>8. \A i \in 1 .. n :
          /\ TunInbound(tuns[i]) /\ tuns[i].tag = c.tuns[i].tag
          /\ o.ip # "dualStack" =>
               /\ tuns[i].address \cup tuns[i].legacy # {}
               /\ tuns[i].address \cup tuns[i].legacy \cup tuns[i].route \cup tuns[i].exclude
                  \subseteq tun_addresses(o.ip)
          /\ SetInbound(tuns[i], o) = tuns[i]
    <3>1. \A i \in 1 .. n : IsSet(tuns[i], c.tuns[i], o) BY <2>4, <2>6, SetInboundIs
    <3> QED BY <3>1 DEF IsSet
  <2>9. tuns # <<>> BY <2>3, <2>7, ListFacts
  <2>10. build_tun_inbound_matcher(tuns) = matcher BY <2>3, <2>6, <2>8, SameTags
  <2>11. IsList(resolved) /\ ResolvesFirst(resolved, o.ip, matcher)
    <3> HIDE DEF matcher
    <3> QED BY <2>2, <2>5, ResolveSet
  <2>12. IsList(rules) /\ ResolvesFirst(rules, o.ip, matcher) /\ Hijacked(rules, matcher)
    <3> HIDE DEF matcher, resolved
    <3> QED BY <2>5, <2>11, HijackIs
  <2>18. Narrowed(rules, matcher) => NarrowHijack(c)
    <3>1. Narrowed(resolved, matcher) => Narrowed(c.rules, matcher)
      <4> HIDE DEF matcher
      <4> QED BY <2>2, ResolveNarrows
    <3>2. Narrowed(rules, matcher) => Narrowed(resolved, matcher)
      <4> HIDE DEF matcher, resolved
      <4> QED BY <2>11, HijackNarrows
    <3> QED BY <3>1, <3>2 DEF Narrowed, NarrowHijack
  <2> HIDE DEF rules, auto, strategy, matcher
  <2>13. r.tuns = tuns /\ r.autoDetect = auto /\ r.dnsStrategy = strategy /\ r.rules = rules
    BY <2>1
  <2>14. PICK j \in DOMAIN rules : is_dns_hijack_rule(rules[j], matcher)
    BY <2>12 DEF Hijacked
  <2>15. \A i \in DOMAIN tuns :
           rules[j].action = "hijack-dns" /\ rules[j].dns
           /\ (rules[j].inbound = AnyInbound \/ tuns[i].tag \in rules[j].inbound)
    BY <2>10, <2>14, HijacksEach
  <2>16. apply_native_sing_box_tun_settings(r, o) = r
    <3> DEFINE again == [i \in DOMAIN tuns |-> SetInbound(tuns[i], o)]
               auto2 == auto \/ o.android
               strategy2 == IF strategy = "no dns" THEN strategy ELSE dns_strategy(o.ip)
               rules2 == ensure_dns_hijack_rule_after_resolve(
                           ensure_resolve_rule_after_sniff(rules, o.ip, matcher), matcher)
    <3>0. apply_native_sing_box_tun_settings(r, o) = Applied(r, o, matcher)
      BY <2>9, <2>10, <2>13, AppliedText
    <3>1. Applied(r, o, matcher) =
            [r EXCEPT !.tuns = again, !.autoDetect = auto2, !.dnsStrategy = strategy2,
                      !.rules = rules2]
      BY <2>13, Zenon DEF Applied
    <3>2. again = tuns
      <4>1. again = [i \in 1 .. n |-> tuns[i]] BY <2>6, <2>8
      <4> QED BY <2>6, <4>1
    <3>3. auto2 = auto BY DEF auto
    <3>4. strategy2 = strategy BY DEF strategy
    <3>5. rules2 = rules BY <2>12, ResolveKept, HijackKept
    <3> HIDE DEF again, auto2, strategy2, rules2
    <3> QED BY <2>1, <3>0, <3>1, <3>2, <3>3, <3>4, <3>5
  <2>17. \A i \in DOMAIN r.tuns :
           \/ NarrowHijack(c)
           \/ \E k \in DOMAIN r.rules :
              /\ r.rules[k].action = "hijack-dns"
              /\ r.rules[k].dns /\ ~r.rules[k].narrow
              /\ (r.rules[k].inbound = AnyInbound \/ r.tuns[i].tag \in r.rules[k].inbound)
    <3>1. rules[j].narrow => NarrowHijack(c) BY <2>14, <2>18 DEF Narrowed
    <3> QED BY <2>13, <2>14, <2>15, <3>1
  <2> QED BY <2>6, <2>8, <2>13, <2>16, <2>17
<1> QED BY <1>1, <1>2

-----------------------------------------------------------------------------
(* What the builder wrote is settled.  A list of rules one of which takes  *)
(* the DNS queries.                                                        *)
Takes(s) ==
  \E i \in 1 .. Len(s) : s[i].do = "hijack-dns" /\ s[i].on \subseteq dns_matcher

LEMMA RuleTakes ==
  ASSUME NEW on PROVE IsList(Rule(on, "hijack-dns"))
                      /\ (on \subseteq dns_matcher => Takes(Rule(on, "hijack-dns")))
<1> DEFINE r == [on |-> on, do |-> "hijack-dns"]
           s == <<r>>
<1>1. s \in Seq({r}) /\ Len(s) = 1 /\ s[1] = r OBVIOUS
<1>2. r.on = on /\ r.do = "hijack-dns" OBVIOUS
<1> HIDE DEF r, s
<1>3. IsList(s) BY <1>1 DEF IsList
<1>4. on \subseteq dns_matcher => Takes(s)
  <2>1. 1 \in 1 .. Len(s) BY <1>1
  <2> QED BY <1>1, <1>2, <2>1 DEF Takes
<1> QED BY <1>3, <1>4 DEF Rule, r, s

LEMMA JoinTakes ==
  ASSUME NEW a, NEW b, IsList(a), IsList(b), Takes(a) \/ Takes(b)
  PROVE  Takes(a \o b)
<1> DEFINE t == a \o b
<1>1. /\ IsList(t) /\ Len(t) = Len(a) + Len(b)
      /\ \A i \in DOMAIN t : t[i] = IF i <= Len(a) THEN a[i] ELSE b[i - Len(a)]
  BY ConcatLists
<1>2. Len(a) \in Nat /\ Len(b) \in Nat /\ DOMAIN t = 1 .. Len(t) BY <1>1, ListFacts
<1> HIDE DEF t
<1>3. CASE Takes(a)
  <2>1. PICK i \in 1 .. Len(a) : a[i].do = "hijack-dns" /\ a[i].on \subseteq dns_matcher
    BY <1>3 DEF Takes
  <2>2. i \in 1 .. Len(t) /\ i <= Len(a) BY <1>1, <1>2
  <2>3. t[i] = a[i] BY <1>1, <1>2, <2>2
  <2> QED BY <2>1, <2>2, <2>3 DEF Takes, t
<1>4. CASE Takes(b)
  <2>1. PICK i \in 1 .. Len(b) : b[i].do = "hijack-dns" /\ b[i].on \subseteq dns_matcher
    BY <1>4 DEF Takes
  <2>2. Len(a) + i \in 1 .. Len(t) /\ ~(Len(a) + i <= Len(a)) /\ Len(a) + i - Len(a) = i
    BY <1>1, <1>2
  <2>3. t[Len(a) + i] = b[i] BY <1>1, <1>2, <2>2
  <2> QED BY <2>1, <2>2, <2>3 DEF Takes, t
<1> QED BY <1>3, <1>4

(* The rules of append_sing_box_route_rules begin with sniff and resolve,  *)
(* and one of them takes DNS queries unless a whitelist is empty.          *)
LEMMA TunRules ==
  ASSUME NEW o, NEW r, r = append_sing_box_route_rules(o)
  PROVE  /\ IsList(r) /\ 2 \in 1 .. Len(r) /\ r[1].do = "sniff" /\ r[2].do = "resolve"
         /\ (HasWhitelist(o) => Apps(o, "whitelist") \/ Domains(o, "whitelist")) => Takes(r)
<1> DEFINE r1 == Rule(Flow, "sniff")
           r2 == Rule(Flow, "resolve")
           quic == Rule(quic_matcher, "reject")
           private == Rule(private_matcher, "direct")
           b1 == When(Apps(o, "blacklist"), Rule(process_matcher, "direct"))
           b2 == When(Domains(o, "blacklist"), Rule(domain_matcher, "direct"))
           h1 == When(Apps(o, "whitelist"), Rule(process_matcher \cap dns_matcher, "hijack-dns"))
           h2 == When(Domains(o, "whitelist"), Rule(domain_matcher \cap dns_matcher, "hijack-dns"))
           p1 == When(Apps(o, "whitelist"), Rule(process_matcher, "proxy"))
           p2 == When(Domains(o, "whitelist"), Rule(domain_matcher, "proxy"))
           hijack == Rule(dns_matcher, "hijack-dns")
           x == quic \o private \o (b1 \o b2) \o (h1 \o h2) \o (p1 \o p2)
           y == private \o (b1 \o b2) \o hijack \o quic
           z == hijack \o quic \o private
           front == r1 \o r2
           given == HasWhitelist(o) => Apps(o, "whitelist") \/ Domains(o, "whitelist")
<1>1. /\ HasWhitelist(o) => r = front \o x
      /\ ~HasWhitelist(o) /\ HasBlacklist(o) => r = front \o y
      /\ ~HasWhitelist(o) /\ ~HasBlacklist(o) => r = front \o z
  BY DEF append_sing_box_route_rules
<1>2. IsList(quic) /\ IsList(private) /\ IsList(r1) /\ IsList(r2)
  BY OutcomeRule
<1>3. \A cond, on, do : IsList(When(cond, Rule(on, do)))
  BY ListOf DEF When, Rule
<1>4. IsList(hijack) /\ Takes(hijack) BY RuleTakes
<1>5. /\ Apps(o, "whitelist") => Takes(h1)
      /\ Domains(o, "whitelist") => Takes(h2)
  <2>1. process_matcher \cap dns_matcher \subseteq dns_matcher
        /\ domain_matcher \cap dns_matcher \subseteq dns_matcher
    OBVIOUS
  <2> QED BY <2>1, RuleTakes DEF When
<1>6. IsList(b1) /\ IsList(b2) /\ IsList(h1) /\ IsList(h2) /\ IsList(p1) /\ IsList(p2)
  BY <1>3
<1>7. Len(r1) = 1 /\ Len(r2) = 1 /\ r1[1].do = "sniff" /\ r2[1].do = "resolve" BY DEF Rule
<1> HIDE DEF r1, r2, quic, private, b1, b2, h1, h2, p1, p2, hijack
<1>8. IsList(x) /\ (given /\ HasWhitelist(o) => Takes(x))
  <2>1. IsList(quic \o private) /\ IsList(b1 \o b2) /\ IsList(h1 \o h2) /\ IsList(p1 \o p2)
    BY <1>2, <1>6, ConcatLists
  <2>2. IsList(quic \o private \o (b1 \o b2)) BY <2>1, ConcatLists
  <2>3. IsList(quic \o private \o (b1 \o b2) \o (h1 \o h2)) BY <2>1, <2>2, ConcatLists
  <2>4. IsList(x) BY <2>1, <2>3, ConcatLists
  <2>5. given /\ HasWhitelist(o) => Takes(h1 \o h2) BY <1>5, <1>6, JoinTakes
  <2>6. given /\ HasWhitelist(o) => Takes(quic \o private \o (b1 \o b2) \o (h1 \o h2))
    BY <2>1, <2>2, <2>5, JoinTakes
  <2>7. given /\ HasWhitelist(o) => Takes(x) BY <2>1, <2>3, <2>6, JoinTakes
  <2> QED BY <2>4, <2>7
<1>9. IsList(y) /\ Takes(y)
  <2>1. IsList(b1 \o b2) BY <1>6, ConcatLists
  <2>2. IsList(private \o (b1 \o b2)) BY <1>2, <2>1, ConcatLists
  <2>3. IsList(private \o (b1 \o b2) \o hijack) /\ Takes(private \o (b1 \o b2) \o hijack)
    BY <1>4, <2>2, ConcatLists, JoinTakes
  <2> QED BY <1>2, <2>3, ConcatLists, JoinTakes
<1>10. IsList(z) /\ Takes(z)
  <2>1. IsList(hijack \o quic) /\ Takes(hijack \o quic)
    BY <1>2, <1>4, ConcatLists, JoinTakes
  <2> QED BY <1>2, <2>1, ConcatLists, JoinTakes
<1> HIDE DEF x, y, z
<1>11. /\ IsList(front) /\ Len(front) = 2 /\ front[1].do = "sniff" /\ front[2].do = "resolve"
  <2>1. /\ IsList(front) /\ Len(front) = Len(r1) + Len(r2)
        /\ \A i \in DOMAIN front : front[i] = IF i <= Len(r1) THEN r1[i] ELSE r2[i - Len(r1)]
    BY <1>2, ConcatLists
  <2>2. DOMAIN front = 1 .. Len(front) BY <2>1, ListFacts
  <2> HIDE DEF front
  <2>3. Len(front) = 2 /\ 1 \in DOMAIN front /\ 2 \in DOMAIN front BY <1>7, <2>1, <2>2
  <2>4. front[1] = r1[1] /\ front[2] = r2[1] BY <1>7, <2>1, <2>3
  <2> QED BY <1>7, <2>1, <2>3, <2>4
<1> HIDE DEF front
<1>12. PICK rest : r = front \o rest /\ IsList(rest) /\ (given => Takes(rest))
  BY <1>1, <1>8, <1>9, <1>10
<1>13. /\ IsList(r) /\ Len(r) = 2 + Len(rest)
       /\ \A i \in DOMAIN r : r[i] = IF i <= Len(front) THEN front[i] ELSE rest[i - Len(front)]
  <2>1. /\ IsList(front \o rest) /\ Len(front \o rest) = Len(front) + Len(rest)
        /\ \A i \in DOMAIN (front \o rest) :
              (front \o rest)[i] = IF i <= Len(front) THEN front[i] ELSE rest[i - Len(front)]
    BY <1>11, <1>12, ConcatLists
  <2> QED BY <1>11, <1>12, <2>1
<1>14. DOMAIN r = 1 .. Len(r) /\ Len(rest) \in Nat BY <1>12, <1>13, ListFacts
<1>15. 1 \in DOMAIN r /\ 2 \in DOMAIN r BY <1>13, <1>14
<1>16. r[1] = front[1] /\ r[2] = front[2] BY <1>11, <1>13, <1>15
<1>17. given => Takes(r) BY <1>11, <1>12, JoinTakes
<1> QED BY <1>11, <1>13, <1>14, <1>15, <1>16, <1>17

-----------------------------------------------------------------------------
(* The text of a configuration of the app, as the settings see it.         *)
RuleText(c, i) ==
  [action |-> IF c.rules[i].do \in {"direct", "proxy"} THEN "route" ELSE c.rules[i].do,
   inbound |-> AnyInbound, dns |-> c.rules[i].on \subseteq dns_matcher,
   narrow |-> c.rules[i].on # dns_matcher, generic |-> TRUE,
   strategy |-> IF c.rules[i].do = "resolve" THEN c.strategy ELSE ""]

(* The rules of the app name no inbound: each holds for any TUN. The       *)
(* resolve rule has the strategy of the mode, and the hijack rule takes    *)
(* the DNS queries.                                                        *)
LEMMA AnyMatches == \A matcher : rule_inbound_matches(AnyInbound, matcher)
BY DEF rule_inbound_matches

LEMMA SniffText ==
  ASSUME NEW c, NEW i, c.rules[i].do = "sniff", NEW matcher
  PROVE  ~is_generic_resolve_rule(RuleText(c, i), matcher)
<1>1. RuleText(c, i).action = "sniff" BY DEF RuleText
<1> QED BY <1>1 DEF is_generic_resolve_rule

LEMMA ResolveText ==
  ASSUME NEW c, NEW i, c.rules[i].do = "resolve", NEW matcher,
         NEW ip, c.strategy = dns_strategy(ip), NEW r, r = RuleText(c, i)
  PROVE  is_generic_resolve_rule(r, matcher) /\ r = [r EXCEPT !.strategy = dns_strategy(ip)]
<1> DEFINE taken == c.rules[i].on \subseteq dns_matcher
           narrow == c.rules[i].on # dns_matcher
           s == dns_strategy(ip)
<1>1. r = [action |-> "resolve", inbound |-> AnyInbound, dns |-> taken,
           narrow |-> narrow, generic |-> TRUE, strategy |-> s]
  BY DEF RuleText
<1> HIDE DEF taken, narrow, s
<1>2. r.action = "resolve" /\ r.inbound = AnyInbound /\ r.generic BY <1>1
<1>3. r.strategy = s
      /\ r = [f \in {"action", "inbound", "dns", "narrow", "generic", "strategy"} |-> r[f]]
  BY <1>1
<1>4. r = [r EXCEPT !.strategy = s] BY <1>3
<1> QED BY <1>2, <1>4, AnyMatches DEF is_generic_resolve_rule, s

LEMMA HijackText ==
  ASSUME NEW c, NEW i, c.rules[i].do = "hijack-dns", c.rules[i].on \subseteq dns_matcher,
         NEW matcher
  PROVE  is_dns_hijack_rule(RuleText(c, i), matcher)
<1> DEFINE r == RuleText(c, i)
<1>1. r.action = "hijack-dns" /\ r.inbound = AnyInbound BY DEF RuleText
<1>2. r.dns BY DEF RuleText
<1> QED BY <1>1, <1>2, AnyMatches DEF is_dns_hijack_rule

LEMMA ListIn == ASSUME NEW s, IsList(s) PROVE s \in Seq(ToSet(s))
<1>1. PICK S : s \in Seq(S) BY DEF IsList
<1>2. s \in [1 .. Len(s) -> S] /\ Len(s) \in Nat /\ DOMAIN s = 1 .. Len(s)
  BY <1>1, LenProperties
<1>3. s \in [1 .. Len(s) -> ToSet(s)] BY <1>2 DEF ToSet
<1> QED BY <1>2, <1>3, SeqDef

(* The configuration the builder wrote, read as an imported one: the       *)
(* settings have nothing to add to it.                                     *)
Complete(b, c, o) ==
  /\ ImportedConfig(b) /\ b.dnsStrategy = c.strategy
  /\ ~o.tun => b.tuns = <<>>
  /\ o.tun =>
       /\ b.tuns # <<>> /\ build_tun_inbound_matcher(b.tuns) = {"tun-in"}
       /\ \A i \in DOMAIN b.tuns :
             TunInbound(b.tuns[i]) /\ b.tuns[i].address = tun_addresses(o.ip)
       /\ IsList(b.rules) /\ ResolvesFirst(b.rules, o.ip, {"tun-in"})
       /\ (HasWhitelist(o) => Apps(o, "whitelist") \/ Domains(o, "whitelist")) =>
            Hijacked(b.rules, {"tun-in"})

LEMMA TextSettled ==
  ASSUME NEW c, NEW p, NEW o, MadeForSingBox(c, p, o), NEW b, b = AsImported(c)
  PROVE  Complete(b, c, o)
<1> DEFINE in == [tag |-> "tun-in", address |-> c.address, legacy |-> {},
                  route |-> c.route, exclude |-> c.exclude, mtu |-> 1400,
                  named |-> c.named, strict |-> c.strict, stack |-> c.stack]
           tuns == When(c.inbound = "tun-in", <<in>>)
           rules == [i \in DOMAIN c.rules |-> RuleText(c, i)]
           auto == c.autoDetect
           strategy == c.strategy
           given == HasWhitelist(o) => Apps(o, "whitelist") \/ Domains(o, "whitelist")
<1>1. b = [tuns |-> tuns, autoDetect |-> auto, dnsStrategy |-> strategy, rules |-> rules]
  BY Zenon DEF AsImported, RuleText
<1>2. in.tag = "tun-in" /\ in.address = c.address /\ TunInbound(in)
  BY DEF TunInbound, TunFields
<1>3. c.inbound = (IF o.tun THEN "tun-in" ELSE "mixed-in")
      /\ c.rules = (IF o.tun THEN append_sing_box_route_rules(o) ELSE <<>>)
      /\ (o.tun => c.strategy = dns_strategy(o.ip) /\ c.address = tun_addresses(o.ip))
  BY DEF MadeForSingBox
<1> HIDE DEF in
<1>4. IsList(c.rules) /\ Len(c.rules) \in Nat /\ DOMAIN c.rules = 1 .. Len(c.rules)
  BY <1>3, TunRules, ListOf, ListFacts
<1>5. /\ rules = [i \in 1 .. Len(c.rules) |-> rules[i]]
      /\ \A i \in 1 .. Len(c.rules) : rules[i] = RuleText(c, i)
  BY <1>4
<1> HIDE DEF rules
<1>6. IsList(rules) /\ Len(rules) = Len(c.rules) BY <1>4, <1>5, MappedList
<1>7. /\ IsList(<<in>>) /\ <<in>> # <<>> /\ DOMAIN <<in>> = {1} /\ <<in>>[1] = in
  BY ListOf
<1>8. CASE ~o.tun
  <2>1. tuns = <<>> BY <1>3, <1>8 DEF When
  <2> HIDE DEF tuns, auto, strategy
  <2>2. b.tuns = tuns /\ b.dnsStrategy = strategy /\ b.rules = rules
        /\ b = [f \in {"tuns", "autoDetect", "dnsStrategy", "rules"} |-> b[f]]
    BY <1>1
  <2>3. b.tuns \in Seq(ToSet(b.tuns)) /\ b.rules \in Seq(ToSet(b.rules))
    BY <1>6, <2>1, <2>2, ListIn, ListOf
  <2>4. DOMAIN b.tuns = {} BY <2>1, <2>2
  <2>5. ImportedConfig(b) BY <2>2, <2>3, <2>4 DEF ImportedConfig
  <2> QED BY <1>8, <2>1, <2>2, <2>5 DEF Complete, strategy
<1>9. CASE o.tun
  <2>1. tuns = <<in>> BY <1>3, <1>9 DEF When
  <2> HIDE DEF tuns, auto, strategy
  <2>2. b.tuns = tuns /\ b.dnsStrategy = strategy /\ b.rules = rules
        /\ b = [f \in {"tuns", "autoDetect", "dnsStrategy", "rules"} |-> b[f]]
    BY <1>1
  <2>3. b.tuns \in Seq(ToSet(b.tuns)) /\ b.rules \in Seq(ToSet(b.rules))
    BY <1>6, <1>7, <2>1, <2>2, ListIn
  <2>4. b.tuns # <<>> /\ \A i \in DOMAIN b.tuns :
          TunInbound(b.tuns[i]) /\ b.tuns[i].address = tun_addresses(o.ip)
    BY <1>2, <1>3, <1>7, <1>9, <2>1, <2>2
  <2>5. ImportedConfig(b) BY <2>2, <2>3, <2>4 DEF ImportedConfig
  <2>6. build_tun_inbound_matcher(b.tuns) = {"tun-in"}
    <3>1. DOMAIN b.tuns = {1} /\ b.tuns[1].tag = "tun-in" BY <1>2, <1>7, <2>1, <2>2
    <3> QED BY <3>1 DEF build_tun_inbound_matcher
  <2> DEFINE matcher == {"tun-in"}
  <2>7. /\ 2 \in 1 .. Len(c.rules) /\ c.rules[1].do = "sniff" /\ c.rules[2].do = "resolve"
        /\ given => Takes(c.rules)
    BY <1>3, <1>9, TunRules
  <2> HIDE DEF matcher
  <2>8. ResolvesFirst(rules, o.ip, matcher)
    <3>1. 1 \in 1 .. Len(c.rules) BY <1>4, <2>7
    <3>2. rules[1] = RuleText(c, 1) /\ rules[2] = RuleText(c, 2) BY <1>5, <2>7, <3>1
    <3>3. /\ is_generic_resolve_rule(rules[2], matcher)
          /\ rules[2] = [rules[2] EXCEPT !.strategy = dns_strategy(o.ip)]
      BY <1>3, <1>9, <2>7, <3>2, ResolveText
    <3>4. ~is_generic_resolve_rule(rules[1], matcher) BY <2>7, <3>2, SniffText
    <3>5. \A k \in 1 .. 2 - 1 : k = 1 OBVIOUS
    <3>6. \A k \in 1 .. 2 - 1 : ~is_generic_resolve_rule(rules[k], matcher) BY <3>4, <3>5
    <3>7. 2 \in 1 .. Len(rules) BY <1>6, <2>7
    <3> QED BY <3>3, <3>6, <3>7 DEF ResolvesFirst
  <2>9. given => Hijacked(rules, matcher)
    <3> SUFFICES ASSUME given PROVE Hijacked(rules, matcher) OBVIOUS
    <3>1. PICK i \in 1 .. Len(c.rules) :
            c.rules[i].do = "hijack-dns" /\ c.rules[i].on \subseteq dns_matcher
      BY <2>7 DEF Takes
    <3>2. is_dns_hijack_rule(rules[i], matcher) BY <1>5, <3>1, HijackText
    <3>3. i \in DOMAIN rules BY <1>6, ListFacts
    <3> QED BY <3>2, <3>3 DEF Hijacked
  <2> QED
    BY <1>6, <1>9, <2>2, <2>4, <2>5, <2>6, <2>8, <2>9 DEF Complete, strategy, matcher
<1> QED BY <1>8, <1>9

(* A whitelist has something on it.                                        *)
WhitelistFilled(o) ==
  HasWhitelist(o) => Apps(o, "whitelist") \/ Domains(o, "whitelist")

(* What the settings leave of a configuration that has them.               *)
Unchanged(r, b) ==
  /\ r.rules = b.rules /\ r.dnsStrategy = b.dnsStrategy
  /\ \A i \in DOMAIN r.tuns : /\ r.tuns[i].address = b.tuns[i].address
                              /\ r.tuns[i].exclude \subseteq b.tuns[i].exclude

LEMMA SettledStays ==
  ASSUME NEW b, NEW c, NEW p, NEW o, Complete(b, c, o), MadeForSingBox(c, p, o),
         WhitelistFilled(o),
         NEW r, r = apply_native_sing_box_tun_settings(b, o)
  PROVE  Unchanged(r, b)
<1>1. CASE ~o.tun
  <2>1. b.tuns = <<>> BY <1>1 DEF Complete
  <2>2. r = b BY <2>1 DEF apply_native_sing_box_tun_settings
  <2>3. DOMAIN b.tuns = {} BY <2>1
  <2>4. DOMAIN r.tuns = {} BY <2>2, <2>3
  <2> QED BY <2>2, <2>4 DEF Unchanged
<1>2. CASE o.tun
  <2>0. /\ ImportedConfig(b) /\ b.tuns # <<>> /\ b.dnsStrategy = dns_strategy(o.ip)
        /\ build_tun_inbound_matcher(b.tuns) = {"tun-in"}
        /\ \A i \in DOMAIN b.tuns :
             TunInbound(b.tuns[i]) /\ b.tuns[i].address = tun_addresses(o.ip)
        /\ IsList(b.rules) /\ ResolvesFirst(b.rules, o.ip, {"tun-in"})
        /\ Hijacked(b.rules, {"tun-in"})
    BY <1>2 DEF Complete, MadeForSingBox, WhitelistFilled
  <2> DEFINE matcher == build_tun_inbound_matcher(b.tuns)
             tuns == [i \in DOMAIN b.tuns |-> SetInbound(b.tuns[i], o)]
             auto == b.autoDetect \/ o.android
             strategy == IF b.dnsStrategy = "no dns" THEN "no dns" ELSE dns_strategy(o.ip)
             rules == ensure_dns_hijack_rule_after_resolve(
                        ensure_resolve_rule_after_sniff(b.rules, o.ip, matcher), matcher)
  <2>1. r = [tuns |-> tuns, autoDetect |-> auto, dnsStrategy |-> strategy, rules |-> rules]
    BY <2>0, AppliedIs
  <2>2. DOMAIN tuns = DOMAIN b.tuns /\ \A i \in DOMAIN tuns : tuns[i] = SetInbound(b.tuns[i], o)
    OBVIOUS
  <2>3. rules = b.rules
    <3>1. ensure_resolve_rule_after_sniff(b.rules, o.ip, matcher) = b.rules
      BY <2>0, ResolveKept
    <3>2. ensure_dns_hijack_rule_after_resolve(b.rules, matcher) = b.rules
      BY <2>0, HijackKept
    <3> QED BY <3>1, <3>2
  <2>4. strategy = b.dnsStrategy BY <2>0
  <2> HIDE DEF matcher, tuns, auto, strategy, rules
  <2>5. r.tuns = tuns /\ r.dnsStrategy = strategy /\ r.rules = rules BY <2>1
  <2>6. ASSUME NEW i \in DOMAIN tuns
        PROVE  tuns[i].address = b.tuns[i].address /\ tuns[i].exclude \subseteq b.tuns[i].exclude
    <3>1. TunInbound(b.tuns[i]) /\ b.tuns[i].address = tun_addresses(o.ip)
          /\ tuns[i] = SetInbound(b.tuns[i], o)
      BY <2>0, <2>2
    <3>2. IsSet(tuns[i], b.tuns[i], o) BY <3>1, SetInboundIs
    <3> QED BY <3>1, <3>2 DEF IsSet
  <2> QED BY <2>3, <2>4, <2>5, <2>6 DEF Unchanged
<1> QED BY <1>1, <1>2

-----------------------------------------------------------------------------
(* What is built of an imported configuration: its own text, unless a text *)
(* of its profile is misread for it, which the result shows.               *)
LEMMA LinkBuilt ==
  ASSUME NEW p, NEW o, p.singBoxConfigJson = <<>>,
         NEW c, c = build_sing_box_config(p, o)
  PROVE  c = Failed \/ ~c.imported
<1>1. CASE ~sing_box_outbound_ok(p) BY <1>1 DEF build_sing_box_config
<1>2. CASE sing_box_outbound_ok(p) BY <1>2, SingBoxBuilt
<1> QED BY <1>1, <1>2

LEMMA XrayLinkBuilt ==
  ASSUME NEW p, NEW o, p.xrayConfigJson = <<>>, NEW c, c = build_xray_config(p, o)
  PROVE  c = Failed \/ ~c.imported
<1>1. CASE ~xray_outbound_ok(p) BY <1>1 DEF build_xray_config
<1>2. CASE xray_outbound_ok(p) BY <1>2, XrayBuilt
<1> QED BY <1>1, <1>2

LEMMA NotStray ==
  ASSUME NEW t, ImportedConfig(t)
  PROVE  /\ ~IsStray(t)
         /\ \A o : ~IsStray(apply_native_sing_box_tun_settings(t, o))
<1>1. DOMAIN t = {"tuns", "autoDetect", "dnsStrategy", "rules"} BY DEF ImportedConfig
<1>2. ASSUME NEW o PROVE ~IsStray(apply_native_sing_box_tun_settings(t, o))
  <2> DEFINE r == apply_native_sing_box_tun_settings(t, o)
  <2>1. CASE t.tuns = <<>>
    <3>1. r = t BY <2>1 DEF apply_native_sing_box_tun_settings
    <3> QED BY <1>1, <3>1 DEF IsStray
  <2>2. CASE t.tuns # <<>>
    <3>1. \E a, b, d, e : r = [tuns |-> a, autoDetect |-> b, dnsStrategy |-> d, rules |-> e]
      BY <2>2, AppliedIs
    <3> HIDE DEF r
    <3>2. DOMAIN r = {"tuns", "autoDetect", "dnsStrategy", "rules"} BY <3>1
    <3>3. ~IsStray(r) BY <3>2 DEF IsStray
    <3> QED BY <3>3 DEF r
  <2> QED BY <2>1, <2>2
<1> QED BY <1>1, <1>2 DEF IsStray

LEMMA RunIs ==
  ASSUME NEW p, NEW t, ImportedConfig(t), p.singBoxConfigJson = <<t>>,
         NEW o, o.core = "singBox", NEW c, c = build_core_config(profile_from_json(p), o)
  PROVE  /\ PlainTexts(p) => c # Failed /\ AsWritten("imported", c)
         /\ c # Failed /\ AsWritten("imported", c) =>
              c.config = apply_native_sing_box_tun_settings(t, o)
<1> DEFINE q == profile_from_json(p)
           s == q.singBoxConfigJson
           own == apply_native_sing_box_tun_settings(t, o)
<1>1. c = build_sing_box_config(q, o) BY DEF build_core_config
<1>2. ~IsStray(t) /\ ~IsStray(own) BY NotStray
<1>3. /\ PlainTexts(p) => s = <<t>>
      /\ s = <<t>> \/ s = <<>> \/ \E text : s = <<[stray |-> text]>>
  <2> DEFINE f == "singBoxConfigJson"
  <2>1. f \in ConfigFields BY DEF ConfigFields
  <2> DEFINE v == q[f]
  <2>2. v = profile_from_json(p)[f] OBVIOUS
  <2> HIDE DEF f, v
  <2>3. (PlainTexts(p) => v = p[f]) /\ ReadFor(v, p[f]) BY <2>1, <2>2, ReadConfig
  <2> QED BY <2>3 DEF f, v, ReadFor
<1>4. \A x : <<x>> # <<>> /\ <<x>>[1] = x OBVIOUS
<1>5. Failed.core = "none" BY DEF Failed
<1> HIDE DEF q
<1>6. CASE s = <<t>>
  <2>1. c = [core |-> "singBox", imported |-> TRUE, config |-> own]
    <3>1. s # <<>> /\ s[1] = t BY <1>4, <1>6
    <3> QED BY <1>1, <1>2, <3>1, Zenon DEF build_sing_box_config
  <2> HIDE DEF own
  <2>2. c.core = "singBox" /\ c.imported /\ c.config = own BY <2>1
  <2> QED BY <1>2, <1>5, <2>2 DEF AsWritten, own
<1>7. CASE s = <<>>
  <2>1. c = Failed \/ ~c.imported BY <1>1, <1>7, LinkBuilt
  <2>2. ~PlainTexts(p) BY <1>3, <1>4, <1>7
  <2> QED BY <2>1, <2>2 DEF AsWritten
<1>8. CASE s # <<t>> /\ \E text : s = <<[stray |-> text]>>
  <2>1. PICK text : s = <<[stray |-> text]>> BY <1>8
  <2> DEFINE x == [stray |-> text]
  <2>2. IsStray(x) BY DEF IsStray
  <2> HIDE DEF x
  <2>3. s # <<>> /\ s[1] = x BY <1>4, <2>1 DEF x
  <2>4. c = Failed \/ c = [core |-> "singBox", imported |-> TRUE, config |-> x]
    BY <1>1, <2>2, <2>3, Zenon DEF build_sing_box_config
  <2>5. c = Failed \/ IsStray(c.config) BY <2>2, <2>4
  <2> QED BY <1>3, <1>8, <2>5 DEF AsWritten
<1> QED BY <1>3, <1>6, <1>7, <1>8

LEMMA XrayRunIs ==
  ASSUME NEW p, NEW t, ~IsStray(t), p.xrayConfigJson = <<t>>,
         NEW o, o.core = "xray", NEW c, c = build_core_config(profile_from_json(p), o)
  PROVE  /\ PlainTexts(p) => c # Failed /\ AsWritten("imported", c)
         /\ c # Failed /\ AsWritten("imported", c) => c.config = t
<1> DEFINE q == profile_from_json(p)
           s == q.xrayConfigJson
<1>1. c = build_xray_config(q, o) BY DEF build_core_config
<1>2. /\ PlainTexts(p) => s = <<t>>
      /\ s = <<t>> \/ s = <<>> \/ \E text : s = <<[stray |-> text]>>
  <2> DEFINE f == "xrayConfigJson"
  <2>1. f \in ConfigFields BY DEF ConfigFields
  <2> DEFINE v == q[f]
  <2>2. v = profile_from_json(p)[f] OBVIOUS
  <2> HIDE DEF f, v
  <2>3. (PlainTexts(p) => v = p[f]) /\ ReadFor(v, p[f]) BY <2>1, <2>2, ReadConfig
  <2> QED BY <2>3 DEF f, v, ReadFor
<1>3. \A x : <<x>> # <<>> /\ <<x>>[1] = x OBVIOUS
<1>4. Failed.core = "none" BY DEF Failed
<1> HIDE DEF q
<1>5. ASSUME NEW x, s = <<x>> PROVE c.core = "xray" /\ c.imported /\ c.config = x
  <2>1. s # <<>> /\ s[1] = x BY <1>3, <1>5
  <2>2. c = [core |-> "xray", imported |-> TRUE, config |-> x]
    BY <1>1, <2>1, Zenon DEF build_xray_config
  <2> QED BY <2>2
<1>6. CASE s = <<t>> BY <1>4, <1>5, <1>6 DEF AsWritten
<1>7. CASE s = <<>>
  <2>1. c = Failed \/ ~c.imported BY <1>1, <1>7, XrayLinkBuilt
  <2>2. ~PlainTexts(p) BY <1>2, <1>3, <1>7
  <2> QED BY <2>1, <2>2 DEF AsWritten
<1>8. CASE s # <<t>> /\ \E text : s = <<[stray |-> text]>>
  <2>1. PICK text : s = <<[stray |-> text]>> BY <1>8
  <2> DEFINE x == [stray |-> text]
  <2>2. IsStray(x) BY DEF IsStray
  <2> HIDE DEF x
  <2>3. c.config = x BY <1>5, <2>1 DEF x
  <2> QED BY <1>2, <1>8, <2>2, <2>3 DEF AsWritten
<1> QED BY <1>2, <1>6, <1>7, <1>8

(* What an import and a build of it left.                                  *)
Rebuilding(c) ==
  /\ BuiltOf(c, profile, options) /\ \E label : copy = core_config_profile(c, label)
ImportInv ==
  /\ stage = "import" =>
       \E i \in Imports : options = i.options /\ copy.singBoxConfigJson = <<i.config>>
  /\ stage = "applied" =>
       \E t : /\ ImportedConfig(t) /\ copy.singBoxConfigJson = <<t>>
              /\ config.config = apply_native_sing_box_tun_settings(t, options)
  /\ stage = "rebuilt" =>
       \E c : /\ Rebuilding(c)
              /\ config = build_core_config(profile_from_json(copy), options)
              /\ config # Failed /\ AsWritten("imported", config)
  /\ stage \in {"error", "misread"} /\ copy # NotParsed => ~PlainTexts(copy)

(* The text that a copy of a built configuration carries.                  *)
LEMMA CopyCarries ==
  ASSUME NEW c, NEW p, NEW o, BuiltOf(c, p, o), Routed(o),
         NEW label, NEW copied, copied = core_config_profile(c, label)
  PROVE  \/ /\ o.core = "singBox" /\ copied.singBoxConfigJson = <<AsImported(c)>>
            /\ MadeForSingBox(c, profile_from_json(p), o) /\ Complete(AsImported(c), c, o)
         \/ /\ o.core = "xray" /\ copied.singBoxConfigJson = <<>>
            /\ copied.xrayConfigJson = <<c>> /\ ~IsStray(c)
<1> DEFINE q == profile_from_json(p)
<1>1. c = build_core_config(q, o) /\ c # Failed /\ ~c.imported BY DEF BuiltOf
<1>2. c.core = o.core BY BuiltCore
<1> HIDE DEF q
<1>3. CASE o.core = "singBox"
  <2>1. MadeForSingBox(c, q, o) BY <1>1, <1>3, SingBoxIs
  <2>2. Complete(AsImported(c), c, o) BY <2>1, TextSettled
  <2> QED BY <1>2, <1>3, <2>1, <2>2, SingBoxCopy DEF q
<1>4. CASE o.core = "xray"
  <2>1. ~IsStray(c) BY <1>1, <1>4, BuiltIs
  <2> QED BY <1>2, <1>4, <2>1, XrayCopy
<1> QED BY <1>3, <1>4 DEF Routed

LEMMA ImportInit == Init => ImportInv
<1> SUFFICES ASSUME Init PROVE ImportInv OBVIOUS
<1>1. stage = "import" =>
        \E i \in Imports : options = i.options /\ copy.singBoxConfigJson = <<i.config>>
  BY ImportedIs DEF Init, LibraryInit, LibraryIdle, Starts
<1> QED BY <1>1 DEF Init, LibraryInit, LibraryIdle, Starts, ImportInv

LEMMA ImportStep == LibInv /\ DialInv /\ ImportInv /\ [Next]_vars => ImportInv'
<1> SUFFICES ASSUME LibInv, DialInv, ImportInv, [Next]_vars PROVE ImportInv' OBVIOUS
<1>1. CASE ParseShareLink
  <2>1. copy' = NotParsed /\ stage' \in {"error", "parsed"}
    BY <1>1 DEF ParseShareLink, DialInv
  <2> QED BY <2>1 DEF ImportInv
<1>2. CASE ParseShareLinks \/ ExtractEndpoint
  BY <1>2 DEF ParseShareLinks, ExtractEndpoint, ImportInv
<1>3. CASE ParseCoreConfig
  <2>1. PICK label \in Labels : copy' = core_config_profile(config, label)
    BY <1>3 DEF ParseCoreConfig
  <2>2. /\ stage = "built" /\ stage' = IF copy' = NotParsed THEN "error" ELSE "imported"
    BY <1>3 DEF ParseCoreConfig
  <2>3. BuiltOf(config, profile, options) /\ Routed(options)
    BY <2>2 DEF DialInv, LibInv, ConfigOptions, Routed
  <2>4. config.core = options.core BY <2>3, BuiltCore
  <2>5. copy' # NotParsed BY <2>1, <2>3, <2>4, CopyIsParsed
  <2> QED BY <2>2, <2>5 DEF ImportInv
<1>4. CASE BuildCoreConfig("parsed", "built")
  <2>1. copy' = NotParsed /\ stage' \in {"error", "built", "misread"}
    BY <1>4 DEF BuildCoreConfig, DialInv
  <2> QED BY <2>1 DEF ImportInv
<1>5. CASE BuildCoreConfig("imported", "rebuilt")
  <2>1. /\ stage = "imported" /\ config' = build_core_config(profile_from_json(copy), options)
        /\ profile' = profile /\ options' = options /\ copy' = copy
        /\ config' = Failed => stage' = "error"
        /\ config' # Failed /\ AsWritten("imported", config') => stage' = "rebuilt"
        /\ config' # Failed /\ ~AsWritten("imported", config') => stage' = "misread"
    BY <1>5 DEF BuildCoreConfig
  <2>2. PICK label : copy = core_config_profile(config, label) BY <2>1 DEF DialInv
  <2>3. BuiltOf(config, profile, options) /\ Routed(options)
    BY <2>1 DEF DialInv, LibInv, ConfigOptions, Routed
  <2>4. PlainTexts(copy) => config' # Failed /\ AsWritten("imported", config')
    <3>1. CASE options.core = "singBox"
      <4>1. copy.singBoxConfigJson = <<AsImported(config)>> /\ ImportedConfig(AsImported(config))
        BY <2>2, <2>3, <3>1, CopyCarries DEF Complete
      <4> QED BY <2>1, <3>1, <4>1, RunIs
    <3>2. CASE options.core = "xray"
      <4>1. copy.xrayConfigJson = <<config>> /\ ~IsStray(config)
        BY <2>2, <2>3, <3>2, CopyCarries
      <4> QED BY <2>1, <3>2, <4>1, XrayRunIs
    <3> QED BY <2>3, <3>1, <3>2 DEF Routed
  <2>5. stage' \in {"error", "rebuilt", "misread"} BY <2>1
  <2>6. (BuiltOf(config, profile, options) /\ \E l : copy = core_config_profile(config, l))
        BY <2>2, <2>3
  <2>7. stage' = "rebuilt" =>
          \E c : /\ BuiltOf(c, profile', options')
                 /\ \E l : copy' = core_config_profile(c, l)
                 /\ config' = build_core_config(profile_from_json(copy'), options')
                 /\ config' # Failed /\ AsWritten("imported", config')
    BY <2>1, <2>6
  <2>8. stage' \in {"error", "misread"} => ~PlainTexts(copy') BY <2>1, <2>4
  <2> QED BY <2>5, <2>7, <2>8 DEF ImportInv, Rebuilding
<1>6. CASE BuildCoreConfig("import", "applied")
  <2>1. /\ stage = "import" /\ config' = build_core_config(profile_from_json(copy), options)
        /\ options' = options /\ copy' = copy
        /\ config' = Failed => stage' = "error"
        /\ config' # Failed /\ AsWritten("import", config') => stage' = "applied"
        /\ config' # Failed /\ ~AsWritten("import", config') => stage' = "misread"
    BY <1>6 DEF BuildCoreConfig
  <2>2. PICK i \in Imports : options = i.options /\ copy.singBoxConfigJson = <<i.config>>
    BY <2>1 DEF ImportInv
  <2>3. options.core = "singBox" /\ ImportedConfig(i.config)
    BY <2>2, NativeLibraryAssumption
  <2> DEFINE t == i.config
  <2>4. /\ PlainTexts(copy) => config' # Failed /\ AsWritten("imported", config')
        /\ config' # Failed /\ AsWritten("imported", config') =>
             config'.config = apply_native_sing_box_tun_settings(t, options)
    BY <2>1, <2>2, <2>3, RunIs
  <2>5. AsWritten("import", config') <=> AsWritten("imported", config') BY DEF AsWritten
  <2>6. stage' \in {"error", "applied", "misread"} BY <2>1
  <2>7. stage' = "applied" =>
          \E x : /\ ImportedConfig(x) /\ copy'.singBoxConfigJson = <<x>>
                 /\ config'.config = apply_native_sing_box_tun_settings(x, options')
    BY <2>1, <2>2, <2>3, <2>4, <2>5
  <2>8. stage' \in {"error", "misread"} => ~PlainTexts(copy')
    BY <2>1, <2>4, <2>5
  <2> QED BY <2>6, <2>7, <2>8 DEF ImportInv
<1>7. CASE UNCHANGED libraryVars
  BY <1>7 DEF libraryVars, ImportInv, Rebuilding, AsWritten, PlainTexts
<1> QED BY <1>1, <1>2, <1>3, <1>4, <1>5, <1>6, <1>7 DEF Next, LibraryNext, vars

(* The parts of ImportRoundTrip.                                           *)
LEMMA SettingsKept == ImportInv => ImportedTunSettings
<1> SUFFICES ASSUME ImportInv, stage = "applied" PROVE ImportedTunSettings
  BY DEF ImportedTunSettings
<1> DEFINE r == config.config
<1>1. PICK t : /\ ImportedConfig(t) /\ copy.singBoxConfigJson = <<t>>
               /\ r = apply_native_sing_box_tun_settings(t, options)
  BY DEF ImportInv
<1>2. copy.singBoxConfigJson[1] = t BY <1>1
<1>3. /\ \A i \in DOMAIN r.tuns :
           /\ options.ip # "dualStack" =>
                /\ r.tuns[i].address \cup r.tuns[i].legacy # {}
                /\ r.tuns[i].address \cup r.tuns[i].legacy
                   \cup r.tuns[i].route \cup r.tuns[i].exclude \subseteq tun_addresses(options.ip)
           /\ \/ NarrowHijack(t)
              \/ \E j \in DOMAIN r.rules :
                   /\ r.rules[j].action = "hijack-dns"
                   /\ r.rules[j].dns /\ ~r.rules[j].narrow
                   /\ (r.rules[j].inbound = AnyInbound \/ r.tuns[i].tag \in r.rules[j].inbound)
      /\ apply_native_sing_box_tun_settings(r, options) = r
  BY <1>1, AppliedSettles
<1> QED BY <1>2, <1>3 DEF ImportedTunSettings

(* What is imported shows the server of the configuration, and what is     *)
(* built of it runs with the same rules and addresses.                     *)
LEMMA CopyShows ==
  ASSUME LibInv, DialInv, stage = "imported"
  PROVE  /\ copy.singBoxConfigJson # <<>> <=> options.core = "singBox"
         /\ \A f \in {"protocol", "server", "port", "userId", "method", "serverPorts"} :
              \/ copy[f] = config.outbound[f]
              \/ f = "serverPorts" /\ copy.protocol # "hysteria2"
              \/ f = "port" /\ ~PlainTexts(profile)
<1>0. BuiltOf(config, profile, options) /\ Routed(options)
  BY DEF DialInv, LibInv, ConfigOptions, Routed
<1>1. PICK label : copy = core_config_profile(config, label) BY DEF DialInv
<1> DEFINE p == config.outbound
<1>2. config.core = options.core /\ p = profile_from_json(profile) BY <1>0, BuiltCore
<1>3. PlainTexts(profile) => p = profile /\ Usable(p)
  BY <1>0, <1>2, ReadBack DEF BuiltOf, Parsed
<1>4. \A x : <<x>> # <<>> OBVIOUS
<1>5. CASE options.core = "singBox"
  <2> DEFINE ports == IF p.protocol = "hysteria2" THEN p.serverPorts ELSE <<>>
  <2>1. /\ copy.singBoxConfigJson = <<AsImported(config)>>
        /\ copy.protocol = p.protocol /\ copy.server = p.server
        /\ copy.userId = p.userId /\ copy.method = p.method
        /\ copy.serverPorts = ports
        /\ copy.port = IF ports = <<>> THEN p.port ELSE first_server_port(ports)
    BY <1>1, <1>2, <1>5, SingBoxCopy
  <2>2. PlainTexts(profile) => copy.port = p.port
    <3> SUFFICES ASSUME Usable(p), ports # <<>> PROVE p.port = first_server_port(ports)
      BY <1>3, <2>1
    <3>1. p.protocol = "hysteria2" /\ p.serverPorts = ports OBVIOUS
    <3> HIDE DEF ports, p
    <3> QED BY <3>1 DEF Usable
  <2> HIDE DEF p
  <2> QED BY <1>4, <1>5, <2>1, <2>2 DEF p
<1>6. CASE options.core = "xray"
  <2>1. /\ copy.singBoxConfigJson = <<>>
        /\ copy.protocol = p.protocol /\ copy.server = p.server
        /\ copy.userId = p.userId /\ copy.method = p.method
        /\ copy.serverPorts = <<>> /\ copy.port = p.port
    BY <1>1, <1>2, <1>6, XrayCopy
  <2>2. p.protocol # "hysteria2"
    <3>1. config = build_core_config(p, options) /\ config # Failed /\ ~config.imported
      BY <1>0, <1>2 DEF BuiltOf
    <3>2. p.xrayConfigJson = <<>> BY <1>0, <1>6, <3>1, BuiltIs
    <3>3. config = build_xray_config(p, options) BY <1>6, <3>1 DEF build_core_config
    <3> HIDE DEF p
    <3>4. xray_outbound_ok(p) BY <3>1, <3>2, <3>3 DEF build_xray_config
    <3> QED BY <3>4 DEF xray_outbound_ok
  <2> HIDE DEF p
  <2> QED BY <1>6, <2>1, <2>2 DEF p
<1> QED BY <1>0, <1>5, <1>6 DEF Routed

LEMMA RunsAlike ==
  ASSUME LibInv, ImportInv, stage = "rebuilt"
  PROVE  /\ copy.singBoxConfigJson # <<>> <=> options.core = "singBox"
         /\ options.core = "xray" => <<config.config>> = copy.xrayConfigJson
         /\ options.core = "singBox" /\ WhitelistFilled(options) =>
              Unchanged(config.config, copy.singBoxConfigJson[1])
<1>1. PICK c : /\ Rebuilding(c)
               /\ config = build_core_config(profile_from_json(copy), options)
               /\ config # Failed /\ AsWritten("imported", config)
  BY DEF ImportInv
<1>2. PICK label : copy = core_config_profile(c, label) BY <1>1 DEF Rebuilding
<1>3. BuiltOf(c, profile, options) /\ Routed(options)
  BY <1>1 DEF Rebuilding, LibInv, ConfigOptions, Routed
<1>4. \A x : <<x>> # <<>> /\ <<x>>[1] = x OBVIOUS
<1>5. CASE options.core = "singBox"
  <2> DEFINE b == AsImported(c)
             p == profile_from_json(profile)
  <2>1. /\ copy.singBoxConfigJson = <<b>> /\ MadeForSingBox(c, p, options)
        /\ Complete(b, c, options)
    BY <1>2, <1>3, <1>5, CopyCarries
  <2>2. ImportedConfig(b) BY <2>1 DEF Complete
  <2> HIDE DEF b, p
  <2>3. config.config = apply_native_sing_box_tun_settings(b, options)
    BY <1>1, <1>5, <2>1, <2>2, RunIs
  <2>4. WhitelistFilled(options) => Unchanged(config.config, b)
    BY <2>1, <2>3, SettledStays
  <2> QED BY <1>4, <1>5, <2>1, <2>4
<1>6. CASE options.core = "xray"
  <2>1. copy.singBoxConfigJson = <<>> /\ copy.xrayConfigJson = <<c>> /\ ~IsStray(c)
    BY <1>2, <1>3, <1>6, CopyCarries
  <2>2. config.config = c BY <1>1, <1>6, <2>1, XrayRunIs
  <2> QED BY <1>6, <2>1, <2>2
<1> QED BY <1>3, <1>5, <1>6 DEF Routed

LEMMA RoundTripKept == LibInv /\ DialInv /\ ImportInv => ImportRoundTrip
<1> SUFFICES ASSUME LibInv, DialInv, ImportInv PROVE ImportRoundTrip OBVIOUS
<1>1. ImportedTunSettings BY SettingsKept
<1>2. stage = "imported" =>
        /\ copy.singBoxConfigJson # <<>> <=> options.core = "singBox"
        /\ \A f \in {"protocol", "server", "port", "userId", "method", "serverPorts"} :
              \/ copy[f] = config.outbound[f]
              \/ f = "serverPorts" /\ copy.protocol # "hysteria2"
              \/ f = "port" /\ ~PlainTexts(profile)
  BY CopyShows
<1>3. stage = "rebuilt" =>
        /\ copy.singBoxConfigJson # <<>> <=> options.core = "singBox"
        /\ options.core = "xray" => <<config.config>> = copy.xrayConfigJson
        /\ options.core = "singBox" /\ WhitelistFilled(options) =>
             Unchanged(config.config, copy.singBoxConfigJson[1])
  BY RunsAlike
<1>4. stage \in {"error", "misread"} /\ copy # NotParsed => ~PlainTexts(copy) BY DEF ImportInv
<1> QED BY <1>1, <1>2, <1>3, <1>4 DEF ImportRoundTrip, WhitelistFilled, Unchanged

(* ImportRoundTrip: whatever the link, the options, the label and the      *)
(* imported configuration, a copied configuration is known for its core,   *)
(* shows the same server and runs with the same rules and addresses; the   *)
(* settings applied to an import give each TUN an address, keep to the IP  *)
(* mode, have a rule for all of its DNS queries unless the import has a    *)
(* narrow one, and change nothing when applied again; and an import is     *)
(* refused, or another text run in its place, only if a text of its        *)
(* profile is the name of a JSON field or holds a control character        *)
(* (core_config_profile, profile_from_json,                                *)
(* apply_native_sing_box_tun_settings).                                    *)
THEOREM ImportsRoundTrip == Spec => []ImportRoundTrip
<1>1. Init => LibInv /\ DialInv /\ ImportInv BY LibInit, DialInit, ImportInit
<1>2. LibInv /\ DialInv /\ ImportInv /\ [Next]_vars => (LibInv /\ DialInv /\ ImportInv)'
  BY LibStep, DialStep, ImportStep
<1> QED BY <1>1, <1>2, RoundTripKept, PTL DEF Spec

=============================================================================
