----------------------------- MODULE MatcherProofs -----------------------------
(***************************************************************************)
(* The matcher for any rules, data files and destinations: its tables hold *)
(* the rules in force at every stage of the constructors, and looking a    *)
(* destination up in them says what the rules say.                         *)
(***************************************************************************)
EXTENDS Matcher, SequenceTheorems, TLAPS

\* What the stages from each one on are.
FromForce == {"force", "ipFile", "siteFile", "done"}
FromGeoSite == {"geosite"} \cup FromForce
FromGeoIP == {"geoip"} \cup FromGeoSite
FromPrivate == {"private"} \cup FromGeoIP

In(stages, set) == IF stage \in stages THEN set ELSE {}

\* A data file that has replaced the tables of its kind.
Applies == job.made = "files" /\ on \cap {"geoip", "geosite"} # {}
IpReplaced == Applies /\ job.ipFile.state # "missing" /\ stage \in {"siteFile", "done"}
SiteReplaced == Applies /\ job.siteFile.state # "missing" /\ stage = "done"

BuiltInPrefixes == In(FromPrivate, ManualPrefixes)
                     \cup In(FromGeoIP, If("private", PrivatePrefixes))
                     \cup In(FromGeoSite, If("geoip", GeoIPCN))
BuiltInRules == In(FromPrivate, ManualDomains)
                  \cup In(FromGeoIP, If("private", LocalNames))
                  \cup In(FromForce, If("geosite", GeoSiteCN))

FilePrefixes == If("private", PrivatePrefixes) \cup CountryPrefixes

\* The rules in force.
CurrentPrefixes == IF IpReplaced THEN FilePrefixes ELSE BuiltInPrefixes
CurrentRules == IF SiteReplaced THEN CountryRules ELSE BuiltInRules
CurrentForced == IF job.made = "force" /\ stage = "done"
          THEN {r \in Range(job.force) : r.kind # "prefix"} ELSE {}

IsRule(r) == r.kind \in DataKinds \cup ManualKinds /\ r.value \in Seq(Labels) /\ r.value # <<>>

StageOK ==
  /\ job \in Jobs
  /\ on \subseteq Groups
  /\ stage \in {"manual", "failed"} \cup FromPrivate
  /\ stage = "force" => job.made = "force"
  /\ stage \in {"ipFile", "siteFile"} => Applies
  /\ IpReplaced => job.ipFile.state = "good"
  /\ SiteReplaced => job.siteFile.state = "good"

Fields == {"ip", "domainSuffixes", "exactDomains", "keywords", "regexps", "forceSuffixes",
           "forceExact"}

\* The tables t are those of prefixes ps, domain rules rs and force-proxy rules fs.
Holds(t, ps, rs, fs) ==
  /\ DOMAIN t = Fields
  /\ t.ip = {Prefix(p) : p \in ps}
  /\ t.domainSuffixes = Values(rs, {"domain", "suffix"})
  /\ t.exactDomains = Values(rs, {"full"})
  /\ t.keywords = Values(rs, {"keyword"})
  /\ t.regexps = Values(rs, {"regexp"})
  /\ t.forceSuffixes = Values(fs, {"domain", "suffix"})
  /\ t.forceExact = Values(fs, {"full"})

TablesOK == Holds(m, CurrentPrefixes, CurrentRules, CurrentForced)

RulesOK ==
  /\ \A p \in CurrentPrefixes : p.bits \in 0..Width
  /\ \A r \in CurrentRules \cup CurrentForced : IsRule(r)
  /\ \A r \in CurrentForced : r.kind \in ManualKinds

IInv == StageOK /\ (stage # "failed" => TablesOK /\ RulesOK)
-----------------------------------------------------------------------------
(* What the tables say *)

LEMMA MaskedAlike ==
  ASSUME Width \in Nat, NEW bits \in 0..Width, NEW a, NEW b
  PROVE  Masked(a, bits) = Masked(b, bits) <=> \A i \in 1..bits : a[i] = b[i]
<1>1. ASSUME Masked(a, bits) = Masked(b, bits), NEW i \in 1..bits PROVE a[i] = b[i]
  <2>1. i \in 1..Width /\ i <= bits
    BY <1>1
  <2>2. Masked(a, bits)[i] = a[i] /\ Masked(b, bits)[i] = b[i]
    BY <2>1 DEF Masked
  <2>3. QED BY <1>1, <2>2
<1>2. ASSUME \A i \in 1..bits : a[i] = b[i] PROVE Masked(a, bits) = Masked(b, bits)
  <2>1. \A i \in 1..Width : (IF i <= bits THEN a[i] ELSE 0) = (IF i <= bits THEN b[i] ELSE 0)
    BY <1>2
  <2>2. QED BY <2>1 DEF Masked
<1>3. QED BY <1>1, <1>2

LEMMA AddrMeans ==
  ASSUME TablesOK, RulesOK, NEW h
  PROVE  MatchAddr(h) <=> \E p \in CurrentPrefixes : InPrefix(p, h)
<1>1. Width \in Nat
  BY MatcherAssumption
<1>2. ASSUME MatchAddr(h) PROVE \E p \in CurrentPrefixes : InPrefix(p, h)
  <2>1. PICK bits \in 0..Width :
          [fam |-> Unmapped(h.fam), bits |-> bits, base |-> Masked(h.val, bits)] \in m.ip
    BY <1>2 DEF MatchAddr
  <2>2. PICK p \in CurrentPrefixes :
          [fam |-> Unmapped(h.fam), bits |-> bits, base |-> Masked(h.val, bits)] = Prefix(p)
    BY <2>1 DEF TablesOK, Holds
  <2>3. /\ Unmapped(h.fam) = Unmapped(p.fam) /\ bits = p.bits
        /\ Masked(h.val, p.bits) = Masked(p.val, p.bits)
    BY <2>2 DEF Prefix
  <2>4. \A i \in 1..p.bits : h.val[i] = p.val[i]
    BY <1>1, <2>3, MaskedAlike DEF RulesOK
  <2>5. QED BY <1>2, <2>3, <2>4 DEF InPrefix, MatchAddr
<1>3. ASSUME NEW p \in CurrentPrefixes, InPrefix(p, h) PROVE MatchAddr(h)
  <2>1. p.bits \in 0..Width
    BY DEF RulesOK
  <2>2. Masked(h.val, p.bits) = Masked(p.val, p.bits)
    BY <1>1, <1>3, <2>1, MaskedAlike DEF InPrefix
  <2>3. [fam |-> Unmapped(h.fam), bits |-> p.bits, base |-> Masked(h.val, p.bits)] = Prefix(p)
    BY <1>3, <2>2 DEF InPrefix, Prefix
  <2>4. Prefix(p) \in m.ip
    BY DEF TablesOK, Holds
  <2>5. QED BY <1>3, <2>1, <2>3, <2>4 DEF MatchAddr, InPrefix
<1>4. QED BY <1>2, <1>3

LEMMA SuffixMeans ==
  ASSUME NEW s \in Seq(Labels), s # <<>>, NEW d \in Seq(Labels)
  PROVE  s \in Ends(d) <=> IsSuffix(s, d)
<1>1. Len(s) \in Nat \ {0} /\ Len(d) \in Nat
  BY EmptySeq
<1>2. /\ Len(Reverse(s)) = Len(s) /\ Len(Reverse(d)) = Len(d)
      /\ \A i \in 1..Len(s) : Reverse(s)[i] = s[Len(s) - i + 1]
      /\ \A i \in 1..Len(d) : Reverse(d)[i] = d[Len(d) - i + 1]
      /\ Reverse(s) \in Seq(Labels) /\ Reverse(d) \in Seq(Labels)
  BY <1>1 DEF Reverse
<1> DEFINE Same == Len(s) <= Len(d) /\ \A i \in 1..Len(s) : s[i] = d[Len(d) - Len(s) + i]
<1>3. s \in Ends(d) <=> Same
  <2>1. ASSUME s \in Ends(d) PROVE Same
    <3>1. PICK k \in 1..Len(d) : s = SubSeq(d, k, Len(d))
      BY <2>1 DEF Ends
    <3>2. Len(s) = Len(d) - k + 1 /\ \A i \in 1..Len(s) : s[i] = d[k + i - 1]
      BY <1>1, <3>1, SubSeqProperties
    <3>3. \A i \in 1..Len(s) : Len(d) - Len(s) + i = k + i - 1
      BY <1>1, <3>2
    <3>4. QED BY <1>1, <3>2, <3>3
  <2>2. ASSUME Same PROVE s \in Ends(d)
    <3> DEFINE k == Len(d) - Len(s) + 1
               e == SubSeq(d, k, Len(d))
    <3>1. k \in 1..Len(d)
      BY <1>1, <2>2
    <3>2. /\ e \in Seq(Labels) /\ Len(e) = Len(s)
          /\ \A i \in 1..Len(s) : e[i] = d[k + i - 1]
      BY <1>1, <3>1, SubSeqProperties
    <3>3. \A i \in 1..Len(s) : Len(d) - Len(s) + i = k + i - 1
      BY <1>1
    <3> HIDE DEF k, e
    <3>4. e = s
      BY <2>2, <3>2, <3>3, SeqEqual
    <3>5. QED BY <3>1, <3>4 DEF Ends, e
  <2>3. QED BY <2>1, <2>2
<1>4. IsSuffix(s, d) <=> Same
  <2> DEFINE rs == Reverse(s)
             rd == Reverse(d)
  <2> HIDE DEF rs, rd
  <2>1. IsSuffix(s, d) <=> Len(s) <= Len(d) /\ SubSeq(rs, 1, Len(s)) = SubSeq(rd, 1, Len(s))
    BY <1>2 DEF IsSuffix, IsPrefix, rs, rd
  <2>2. ASSUME Len(s) <= Len(d)
        PROVE  SubSeq(rs, 1, Len(s)) = SubSeq(rd, 1, Len(s)) <=>
                 \A i \in 1..Len(s) : rs[i] = rd[i]
    <3>1. /\ SubSeq(rs, 1, Len(s)) \in Seq(Labels) /\ Len(SubSeq(rs, 1, Len(s))) = Len(s)
          /\ \A i \in 1..Len(s) : SubSeq(rs, 1, Len(s))[i] = rs[i]
      BY <1>1, <1>2, SubSeqProperties DEF rs
    <3>2. /\ SubSeq(rd, 1, Len(s)) \in Seq(Labels) /\ Len(SubSeq(rd, 1, Len(s))) = Len(s)
          /\ \A i \in 1..Len(s) : SubSeq(rd, 1, Len(s))[i] = rd[i]
      BY <1>1, <1>2, <2>2, SubSeqProperties DEF rd
    <3>3. QED BY <3>1, <3>2, SeqEqual
  <2>3. ASSUME Len(s) <= Len(d)
        PROVE  (\A i \in 1..Len(s) : rs[i] = rd[i]) <=>
                 \A i \in 1..Len(s) : s[i] = d[Len(d) - Len(s) + i]
    <3>1. ASSUME NEW i \in 1..Len(s)
          PROVE  /\ Len(s) - i + 1 \in 1..Len(s) /\ Len(s) - (Len(s) - i + 1) + 1 = i
                 /\ Len(d) - Len(s) + i \in 1..Len(d)
                 /\ Len(d) - i + 1 = Len(d) - Len(s) + (Len(s) - i + 1)
                 /\ rs[i] = s[Len(s) - i + 1] /\ rd[i] = d[Len(d) - i + 1]
      BY <1>1, <1>2, <2>3 DEF rs, rd
    <3>2. ASSUME \A i \in 1..Len(s) : rs[i] = rd[i], NEW j \in 1..Len(s)
          PROVE  s[j] = d[Len(d) - Len(s) + j]
      <4>1. PICK i \in 1..Len(s) : i = Len(s) - j + 1
        BY <3>1
      <4>2. Len(s) - i + 1 = j /\ Len(d) - i + 1 = Len(d) - Len(s) + j
        BY <1>1, <4>1
      <4>3. QED BY <3>1, <3>2, <4>2
    <3>3. ASSUME \A i \in 1..Len(s) : s[i] = d[Len(d) - Len(s) + i], NEW j \in 1..Len(s)
          PROVE  rs[j] = rd[j]
      BY <3>1, <3>3
    <3>4. QED BY <3>2, <3>3
  <2>4. QED BY <2>1, <2>2, <2>3
<1>5. QED BY <1>3, <1>4

LEMMA KeywordMeans ==
  ASSUME NEW s \in Seq(Labels), s # <<>>, NEW d \in Seq(Labels)
  PROVE  s \in SubSeqs(d) <=> \E i, j \in 1..Len(d) : SubSeq(d, i, j) = s
<1>1. Len(d) \in Nat
  OBVIOUS
<1>2. ASSUME s \in SubSeqs(d) PROVE \E i, j \in 1..Len(d) : SubSeq(d, i, j) = s
  <2>1. PICK i \in 0..Len(d), j \in 0..Len(d) : s = SubSeq(d, i + 1, j)
    BY <1>2 DEF SubSeqs
  <2>2. i + 1 <= j
    <3> SUFFICES ASSUME i + 1 > j PROVE FALSE
      BY <1>1
    <3>1. Len(SubSeq(d, i + 1, j)) = 0
      BY <1>1
    <3>2. QED BY <2>1, <3>1
  <2>3. i + 1 \in 1..Len(d) /\ j \in 1..Len(d)
    BY <1>1, <2>2
  <2>4. QED BY <2>1, <2>3
<1>3. ASSUME NEW i \in 1..Len(d), NEW j \in 1..Len(d), SubSeq(d, i, j) = s PROVE s \in SubSeqs(d)
  <2>1. i - 1 \in 0..Len(d) /\ j \in 0..Len(d) /\ (i - 1) + 1 = i
    BY <1>1
  <2>2. s = SubSeq(d, (i - 1) + 1, j)
    BY <1>3, <2>1
  <2>3. \E k, l \in 0..Len(d) : s = SubSeq(d, k + 1, l)
    BY <2>1, <2>2
  <2>4. QED BY <2>3 DEF SubSeqs
<1>4. QED BY <1>2, <1>3

LEMMA InValues ==
  ASSUME NEW rules, NEW kinds, NEW v
  PROVE  v \in Values(rules, kinds) <=> \E r \in rules : r.kind \in kinds /\ r.value = v
BY DEF Values

LEMMA EndsMean ==
  ASSUME NEW rules, \A r \in rules : IsRule(r), NEW kinds, NEW d \in Seq(Labels)
  PROVE  Ends(d) \cap Values(rules, kinds) # {} <=>
           \E r \in rules : r.kind \in kinds /\ IsSuffix(r.value, d)
<1>1. \A r \in rules : r.value \in Ends(d) <=> IsSuffix(r.value, d)
  BY SuffixMeans DEF IsRule
<1>2. QED BY <1>1, InValues

LEMMA KeywordsMean ==
  ASSUME NEW rules, \A r \in rules : IsRule(r), NEW d \in Seq(Labels)
  PROVE  SubSeqs(d) \cap Values(rules, {"keyword"}) # {} <=>
           \E r \in rules : r.kind = "keyword"
                            /\ \E i, j \in 1..Len(d) : SubSeq(d, i, j) = r.value
<1>1. \A r \in rules : r.value \in SubSeqs(d) <=>
                         \E i, j \in 1..Len(d) : SubSeq(d, i, j) = r.value
  BY KeywordMeans DEF IsRule
<1>2. QED BY <1>1, InValues

LEMMA DomainMeans ==
  ASSUME TablesOK, RulesOK, NEW h \in Hosts
  PROVE  MatchDomain(h) <=> \E r \in CurrentRules : Names(r, h)
<1>1. h.name \in Seq(Labels) /\ \A r \in CurrentRules : IsRule(r)
  BY MatcherAssumption DEF RulesOK
<1>2. MatchDomain(h) <=>
        /\ IsDomain(h)
        /\ \/ \E r \in CurrentRules : r.kind = "full" /\ r.value = h.name
           \/ \E r \in CurrentRules : r.kind \in {"domain", "suffix"} /\ IsSuffix(r.value, h.name)
           \/ \E r \in CurrentRules : r.kind = "keyword"
                  /\ \E i, j \in 1..Len(h.name) : SubSeq(h.name, i, j) = r.value
           \/ \E r \in CurrentRules : r.kind = "regexp" /\ h.name \in Language[r.value]
  <2>1. h.name \in m.exactDomains <=> \E r \in CurrentRules : r.kind = "full" /\ r.value = h.name
    BY InValues DEF TablesOK, Holds
  <2>2. Ends(h.name) \cap m.domainSuffixes # {} <=>
          \E r \in CurrentRules : r.kind \in {"domain", "suffix"} /\ IsSuffix(r.value, h.name)
    <3>1. PICK kinds : kinds = {"domain", "suffix"}
      OBVIOUS
    <3>2. Ends(h.name) \cap Values(CurrentRules, kinds) # {} <=>
            \E r \in CurrentRules : r.kind \in kinds /\ IsSuffix(r.value, h.name)
      BY <1>1, EndsMean
    <3>3. m.domainSuffixes = Values(CurrentRules, kinds)
      BY <3>1 DEF TablesOK, Holds
    <3>4. QED BY <3>1, <3>2, <3>3
  <2>3. SubSeqs(h.name) \cap m.keywords # {} <=>
          \E r \in CurrentRules : r.kind = "keyword"
              /\ \E i, j \in 1..Len(h.name) : SubSeq(h.name, i, j) = r.value
    BY <1>1, KeywordsMean DEF TablesOK, Holds
  <2>4. (\E re \in m.regexps : h.name \in Language[re]) <=>
          \E r \in CurrentRules : r.kind = "regexp" /\ h.name \in Language[r.value]
    BY InValues DEF TablesOK, Holds
  <2>5. QED BY <2>1, <2>2, <2>3, <2>4 DEF MatchDomain
<1>3. ASSUME NEW r \in CurrentRules
      PROVE  Names(r, h) <=>
        /\ IsDomain(h)
        /\ \/ r.kind = "full" /\ r.value = h.name
           \/ r.kind \in {"domain", "suffix"} /\ IsSuffix(r.value, h.name)
           \/ r.kind = "keyword" /\ \E i, j \in 1..Len(h.name) : SubSeq(h.name, i, j) = r.value
           \/ r.kind = "regexp" /\ h.name \in Language[r.value]
  BY <1>1 DEF Names, IsRule, DataKinds, FileKinds, ManualKinds
<1>4. QED BY <1>2, <1>3

LEMMA ForceMeans ==
  ASSUME TablesOK, RulesOK, NEW h \in Hosts
  PROVE  MatchForceProxy(h) <=> \E r \in CurrentForced : Names(r, h)
<1>1. /\ h.name \in Seq(Labels)
      /\ \A r \in CurrentForced : IsRule(r) /\ r.kind \in ManualKinds
  BY MatcherAssumption DEF RulesOK
<1>2. MatchForceProxy(h) <=>
        /\ IsDomain(h)
        /\ \/ \E r \in CurrentForced : r.kind = "full" /\ r.value = h.name
           \/ \E r \in CurrentForced : r.kind \in {"domain", "suffix"} /\ IsSuffix(r.value, h.name)
  <2>1. h.name \in m.forceExact <=> \E r \in CurrentForced : r.kind = "full" /\ r.value = h.name
    BY InValues DEF TablesOK, Holds
  <2>2. Ends(h.name) \cap m.forceSuffixes # {} <=>
          \E r \in CurrentForced : r.kind \in {"domain", "suffix"} /\ IsSuffix(r.value, h.name)
    <3>1. PICK kinds : kinds = {"domain", "suffix"}
      OBVIOUS
    <3>2. Ends(h.name) \cap Values(CurrentForced, kinds) # {} <=>
            \E r \in CurrentForced : r.kind \in kinds /\ IsSuffix(r.value, h.name)
      BY <1>1, EndsMean
    <3>3. m.forceSuffixes = Values(CurrentForced, kinds)
      BY <3>1 DEF TablesOK, Holds
    <3>4. QED BY <3>1, <3>2, <3>3
  <2>3. QED BY <2>1, <2>2 DEF MatchForceProxy
<1>3. ASSUME NEW r \in CurrentForced
      PROVE  Names(r, h) <=>
        /\ IsDomain(h)
        /\ \/ r.kind = "full" /\ r.value = h.name
           \/ r.kind \in {"domain", "suffix"} /\ IsSuffix(r.value, h.name)
  BY <1>1 DEF Names, ManualKinds
<1>4. QED BY <1>2, <1>3
-----------------------------------------------------------------------------
(* What the operations on tables do to the rules they hold *)

LEMMA HoldsNothing == Holds(NoRules, {}, {}, {})
BY DEF Holds, NoRules, Fields, Values

LEMMA HoldsPrefixes ==
  ASSUME NEW t, NEW ps, NEW rs, NEW fs, Holds(t, ps, rs, fs), NEW more
  PROVE  Holds(AddPrefixes(t, more), ps \cup more, rs, fs)
<1>1. {Prefix(p) : p \in ps \cup more} = {Prefix(p) : p \in ps} \cup {Prefix(p) : p \in more}
  OBVIOUS
<1>2. QED BY <1>1 DEF Holds, AddPrefixes, Fields

LEMMA ValuesOfBoth ==
  ASSUME NEW rs, NEW more, NEW kinds
  PROVE  Values(rs \cup more, kinds) = Values(rs, kinds) \cup Values(more, kinds)
BY DEF Values

LEMMA HoldsRules ==
  ASSUME NEW t, NEW ps, NEW rs, NEW fs, Holds(t, ps, rs, fs), NEW more
  PROVE  Holds(AddDomains(t, more), ps, rs \cup more, fs)
BY ValuesOfBoth DEF Holds, AddDomains, Fields

LEMMA HoldsIpAnew ==
  ASSUME NEW t, NEW ps, NEW rs, NEW fs, Holds(t, ps, rs, fs)
  PROVE  Holds([t EXCEPT !.ip = {}], {}, rs, fs)
BY DEF Holds, Fields

LEMMA HoldsDomainsAnew ==
  ASSUME NEW t, NEW ps, NEW rs, NEW fs, Holds(t, ps, rs, fs)
  PROVE  Holds([NoRules EXCEPT !.ip = t.ip], ps, {}, {})
<1>1. \A kinds : Values({}, kinds) = {}
  BY DEF Values
<1>2. QED BY <1>1 DEF Holds, NoRules, Fields

LEMMA HoldsForced ==
  ASSUME NEW t, NEW ps, NEW rs, NEW fs, Holds(t, ps, rs, fs), NEW forced
  PROVE  Holds([t EXCEPT !.forceSuffixes = Values(forced, {"domain", "suffix"}),
                         !.forceExact = Values(forced, {"full"})], ps, rs, forced)
BY DEF Holds, Fields
-----------------------------------------------------------------------------
(* The constructors *)

LEMMA InitMatcher == Init => IInv
<1> SUFFICES ASSUME Init PROVE IInv
  OBVIOUS
<1>1. /\ job \in Jobs /\ on = job.on /\ m = NoRules /\ stage = "manual"
  BY DEF Init
<1>2. /\ CurrentPrefixes = {} /\ CurrentRules = {} /\ CurrentForced = {}
      /\ ~IpReplaced /\ ~SiteReplaced
  BY <1>1 DEF CurrentPrefixes, CurrentRules, CurrentForced, IpReplaced, SiteReplaced,
              BuiltInPrefixes, BuiltInRules, In, FromPrivate, FromGeoIP, FromGeoSite, FromForce
<1>3. StageOK
  BY <1>1, <1>2, MatcherAssumption DEF StageOK
<1>4. QED BY <1>1, <1>2, <1>3, HoldsNothing DEF IInv, TablesOK, RulesOK

\* Whatever the file stages leave alone.
LEMMA FailMatcher ==
  ASSUME IInv, Fail
  PROVE  IInv'
BY DEF Fail, IInv, StageOK, Applies, IpReplaced, SiteReplaced

LEMMA ManualMatcher ==
  ASSUME IInv, ManualRules
  PROVE  IInv'
<1> DEFINE rules == Range(job.manual)
<1>1. CASE Fail
  BY <1>1, FailMatcher
<1>2. CASE /\ \A r \in rules : AcceptsLine(r)
           /\ on' = on \cup {r.kind : r \in {q \in rules : q.kind \in Groups}}
           /\ m' = AddDomains(AddPrefixes(m, {r \in rules : r.kind = "prefix"}),
                              {r \in rules : r.kind \in ManualKinds})
           /\ Proceed("private")
  <2>1. stage = "manual" /\ stage' = "private" /\ job' = job /\ job \in Jobs /\ on \subseteq Groups
    BY <1>2 DEF ManualRules, Proceed, IInv, StageOK
  <2>2. CurrentPrefixes = {} /\ CurrentRules = {} /\ CurrentForced = {}
    BY <2>1 DEF CurrentPrefixes, CurrentRules, CurrentForced, IpReplaced, SiteReplaced,
                BuiltInPrefixes, BuiltInRules, In, FromPrivate, FromGeoIP, FromGeoSite, FromForce
  <2>3. /\ CurrentPrefixes' = {} \cup ManualPrefixes /\ CurrentRules' = {} \cup ManualDomains
        /\ CurrentForced' = {} /\ ~IpReplaced' /\ ~SiteReplaced'
    BY <2>1 DEF CurrentPrefixes, CurrentRules, CurrentForced, IpReplaced, SiteReplaced,
                BuiltInPrefixes, BuiltInRules, In, FromPrivate, FromGeoIP, FromGeoSite, FromForce, ManualPrefixes, ManualDomains
  <2>4. StageOK'
    BY <1>2, <2>1, <2>3 DEF StageOK, FromPrivate, FromGeoIP, FromGeoSite, FromForce, Groups
  <2>5. TablesOK'
    <3>1. Holds(m, {}, {}, {})
      BY <2>1, <2>2 DEF IInv, TablesOK
    <3>2. Holds(m', {} \cup ManualPrefixes, {} \cup ManualDomains, {})
      BY <1>2, <3>1, HoldsPrefixes, HoldsRules DEF ManualPrefixes, ManualDomains
    <3>3. QED BY <2>3, <3>2 DEF TablesOK
  <2>6. RulesOK'
    <3>1. ASSUME NEW p \in ManualPrefixes PROVE p.bits \in 0..Width
      <4>1. p \in rules /\ p.kind = "prefix" /\ AcceptsPrefix(p)
        BY <1>2 DEF ManualPrefixes, AcceptsLine, AcceptsDomain, Groups, ManualKinds
      <4>2. p.bits \in Int /\ p.bits <= Width /\ Width \in Nat
        BY <2>1, <4>1, MatcherAssumption DEF IsPrefixLine
      <4>3. QED BY <4>1, <4>2 DEF AcceptsPrefix
    <3>2. ASSUME NEW r \in ManualDomains PROVE IsRule(r)
      <4>1. r \in rules /\ r.kind \in ManualKinds /\ Normal(r.value)
        BY <1>2 DEF ManualDomains, AcceptsLine, AcceptsDomain, Groups, ManualKinds
      <4>2. r.value \in Seq(Labels)
        BY <2>1, <4>1, MatcherAssumption DEF IsDomainLine
      <4>3. QED BY <4>1, <4>2 DEF IsRule, Normal
    <3>3. QED BY <2>3, <3>1, <3>2 DEF RulesOK
  <2>7. QED BY <2>4, <2>5, <2>6 DEF IInv
<1>3. QED BY <1>1, <1>2 DEF ManualRules

LEMMA GrowingTables ==
  ASSUME RulesOK, CurrentForced = {}, CurrentForced' = {}, NEW ps, NEW rs,
         CurrentPrefixes' = CurrentPrefixes \cup ps, CurrentRules' = CurrentRules \cup rs,
         \A p \in ps : p.bits \in 0..Width, \A r \in rs : IsRule(r),
         Holds(m', CurrentPrefixes \cup ps, CurrentRules \cup rs, {})
  PROVE  TablesOK' /\ RulesOK'
BY DEF TablesOK, RulesOK

LEMMA LocalNamesAreRules == \A r \in LocalNames : IsRule(r)
<1>1. \A x \in Labels : <<x>> \in Seq(Labels) /\ <<x>> # <<>>
  <2>1. ASSUME NEW x \in Labels PROVE <<x>> \in Seq(Labels) /\ <<x>> # <<>>
    <3>1. <<x>> = Append(<<>>, x) /\ <<>> \in Seq(Labels)
      OBVIOUS
    <3>2. Append(<<>>, x) \in Seq(Labels) /\ Append(<<>>, x) # <<>>
      BY <3>1, AppendProperties
    <3>3. QED BY <3>1, <3>2
  <2>2. QED BY <2>1
<1>2. "localhost" \in Labels /\ "local" \in Labels
  BY MatcherAssumption
<1>3. ASSUME NEW x \in Labels PROVE IsRule([kind |-> "domain", value |-> <<x>>])
  BY <1>1, <1>3 DEF IsRule, DataKinds, FileKinds
<1>4. QED BY <1>2, <1>3 DEF LocalNames

LEMMA PrivateMatcher ==
  ASSUME IInv, PrivateRules
  PROVE  IInv'
<1> DEFINE ps == If("private", PrivatePrefixes)
           rs == If("private", LocalNames)
<1>1. stage = "private" /\ stage' = "geoip" /\ job' = job /\ on' = on /\ StageOK
  BY DEF PrivateRules, Proceed, IInv
<1>2. /\ CurrentPrefixes' = CurrentPrefixes \cup ps /\ CurrentRules' = CurrentRules \cup rs
      /\ CurrentForced = {} /\ CurrentForced' = {} /\ ~IpReplaced' /\ ~SiteReplaced'
  BY <1>1 DEF CurrentPrefixes, CurrentRules, CurrentForced, IpReplaced, SiteReplaced,
              BuiltInPrefixes, BuiltInRules, In, FromPrivate, FromGeoIP, FromGeoSite, FromForce,
              ManualPrefixes, ManualDomains, If
<1>3. StageOK'
  BY <1>1, <1>2 DEF StageOK, FromPrivate, FromGeoIP, FromGeoSite, FromForce
<1>4. Holds(m', CurrentPrefixes \cup ps, CurrentRules \cup rs, {})
  <2>1. Holds(m, CurrentPrefixes, CurrentRules, {})
    BY <1>1, <1>2 DEF IInv, TablesOK
  <2>2. CASE "private" \in on
    BY <2>1, <2>2, HoldsPrefixes, HoldsRules DEF PrivateRules, If
  <2>3. CASE "private" \notin on
    BY <2>1, <2>3 DEF PrivateRules, If
  <2>4. QED BY <2>2, <2>3
<1>5. (\A p \in ps : p.bits \in 0..Width) /\ \A r \in rs : IsRule(r)
  BY MatcherAssumption, LocalNamesAreRules DEF If
<1>6. RulesOK
  BY <1>1 DEF IInv
<1> HIDE DEF ps, rs
<1>7. TablesOK' /\ RulesOK'
  BY <1>2, <1>4, <1>5, <1>6, GrowingTables
<1>8. QED BY <1>3, <1>7 DEF IInv

LEMMA GeoIPMatcher ==
  ASSUME IInv, GeoIPRules
  PROVE  IInv'
<1> DEFINE ps == If("geoip", GeoIPCN)
           rs == {}
<1>1. stage = "geoip" /\ stage' = "geosite" /\ job' = job /\ on' = on /\ StageOK
  BY DEF GeoIPRules, Proceed, IInv
<1>2. /\ CurrentPrefixes' = CurrentPrefixes \cup ps /\ CurrentRules' = CurrentRules \cup rs
      /\ CurrentForced = {} /\ CurrentForced' = {} /\ ~IpReplaced' /\ ~SiteReplaced'
  BY <1>1 DEF CurrentPrefixes, CurrentRules, CurrentForced, IpReplaced, SiteReplaced,
              BuiltInPrefixes, BuiltInRules, In, FromPrivate, FromGeoIP, FromGeoSite, FromForce,
              ManualPrefixes, ManualDomains, If
<1>3. StageOK'
  BY <1>1, <1>2 DEF StageOK, FromPrivate, FromGeoIP, FromGeoSite, FromForce
<1>4. Holds(m', CurrentPrefixes \cup ps, CurrentRules \cup rs, {})
  <2>1. Holds(m, CurrentPrefixes, CurrentRules, {})
    BY <1>1, <1>2 DEF IInv, TablesOK
  <2>2. CASE "geoip" \in on
    BY <2>1, <2>2, HoldsPrefixes DEF GeoIPRules, If
  <2>3. CASE "geoip" \notin on
    BY <2>1, <2>3 DEF GeoIPRules, If
  <2>4. QED BY <2>2, <2>3
<1>5. (\A p \in ps : p.bits \in 0..Width) /\ \A r \in rs : IsRule(r)
  BY MatcherAssumption DEF If
<1>6. RulesOK
  BY <1>1 DEF IInv
<1> HIDE DEF ps, rs
<1>7. TablesOK' /\ RulesOK'
  BY <1>2, <1>4, <1>5, <1>6, GrowingTables
<1>8. QED BY <1>3, <1>7 DEF IInv

LEMMA GeoSiteMatcher ==
  ASSUME IInv, GeoSiteRules
  PROVE  IInv'
<1> DEFINE ps == {}
           rs == If("geosite", GeoSiteCN)
<1>1. stage = "geosite" /\ stage' = AfterNew /\ job' = job /\ on' = on /\ StageOK
  BY DEF GeoSiteRules, Proceed, IInv
<1>2. /\ stage' \in {"done", "force", "ipFile"}
      /\ stage' = "force" => job.made = "force"
      /\ stage' = "ipFile" => Applies
      /\ stage' = "done" => ~Applies /\ job.made # "force"
  <2>1. job.made \in {"plain", "force", "files"}
    BY <1>1, MatcherAssumption DEF StageOK
  <2>2. CASE job.made = "plain"
    BY <1>1, <2>2 DEF AfterNew, Applies
  <2>3. CASE job.made = "force"
    BY <1>1, <2>3 DEF AfterNew, Applies
  <2>4. CASE job.made = "files"
    BY <1>1, <2>4 DEF AfterNew, Applies
  <2>5. QED BY <2>1, <2>2, <2>3, <2>4
<1>3. ~IpReplaced' /\ ~SiteReplaced' /\ ~IpReplaced /\ ~SiteReplaced
  BY <1>1, <1>2 DEF IpReplaced, SiteReplaced, Applies
<1>4. CurrentForced = {} /\ CurrentForced' = {}
  BY <1>1, <1>2 DEF CurrentForced
<1>5. CurrentPrefixes' = CurrentPrefixes \cup ps /\ CurrentRules' = CurrentRules \cup rs
  BY <1>1, <1>2, <1>3 DEF CurrentPrefixes, CurrentRules, BuiltInPrefixes, BuiltInRules, In,
              FromPrivate, FromGeoIP, FromGeoSite, FromForce, ManualPrefixes, ManualDomains, If
<1>6. StageOK'
  BY <1>1, <1>2, <1>3 DEF StageOK, Applies, FromPrivate, FromGeoIP, FromGeoSite, FromForce
<1>7. Holds(m', CurrentPrefixes \cup ps, CurrentRules \cup rs, {})
  <2>1. Holds(m, CurrentPrefixes, CurrentRules, {})
    BY <1>1, <1>4 DEF IInv, TablesOK
  <2>2. CASE "geosite" \in on
    BY <2>1, <2>2, HoldsRules DEF GeoSiteRules, If
  <2>3. CASE "geosite" \notin on
    BY <2>1, <2>3 DEF GeoSiteRules, If
  <2>4. QED BY <2>2, <2>3
<1>8. (\A p \in ps : p.bits \in 0..Width) /\ \A r \in rs : IsRule(r)
  BY MatcherAssumption DEF If, IsRule, AcceptsDomain
<1>9. RulesOK
  BY <1>1 DEF IInv
<1> HIDE DEF ps, rs
<1>10. TablesOK' /\ RulesOK'
  BY <1>4, <1>5, <1>7, <1>8, <1>9, GrowingTables
<1>11. QED BY <1>6, <1>10 DEF IInv

LEMMA ForceMatcher ==
  ASSUME IInv, ForceRules
  PROVE  IInv'
<1> DEFINE fs == {r \in Range(job.force) : r.kind # "prefix"}
<1>1. CASE Fail
  BY <1>1, FailMatcher
<1>2. CASE /\ \A r \in fs : AcceptsDomain(r, ManualKinds)
           /\ m' = [m EXCEPT !.forceSuffixes = Values(fs, {"domain", "suffix"}),
                             !.forceExact = Values(fs, {"full"})]
           /\ Proceed("done")
           /\ UNCHANGED on
  <2>1. /\ stage = "force" /\ stage' = "done" /\ job' = job /\ on' = on /\ StageOK
        /\ job \in Jobs /\ job.made = "force"
    BY <1>2 DEF ForceRules, Proceed, IInv, StageOK
  <2>2. ~IpReplaced /\ ~SiteReplaced /\ ~IpReplaced' /\ ~SiteReplaced'
    BY <2>1 DEF IpReplaced, SiteReplaced, Applies
  <2>3. /\ CurrentPrefixes' = CurrentPrefixes /\ CurrentRules' = CurrentRules
        /\ CurrentForced = {} /\ CurrentForced' = fs
    BY <2>1, <2>2 DEF CurrentPrefixes, CurrentRules, CurrentForced, BuiltInPrefixes, BuiltInRules,
              In, FromPrivate, FromGeoIP, FromGeoSite, FromForce, ManualPrefixes, ManualDomains, If
  <2>4. StageOK'
    BY <2>1, <2>2 DEF StageOK, FromPrivate, FromGeoIP, FromGeoSite, FromForce
  <2>5. TablesOK'
    <3>1. Holds(m, CurrentPrefixes, CurrentRules, CurrentForced)
      BY <2>1 DEF IInv, TablesOK
    <3>2. Holds(m', CurrentPrefixes, CurrentRules, fs)
      BY <1>2, <3>1, HoldsForced
    <3>3. QED BY <2>3, <3>2 DEF TablesOK
  <2>6. \A r \in fs : IsRule(r) /\ r.kind \in ManualKinds
    <3>1. ASSUME NEW r \in fs PROVE IsRule(r) /\ r.kind \in ManualKinds
      <4>1. r.kind \in ManualKinds /\ Normal(r.value)
        BY <1>2 DEF AcceptsDomain, ManualKinds
      <4>2. r.value \in Seq(Labels)
        BY <2>1, <4>1, MatcherAssumption DEF IsDomainLine
      <4>3. QED BY <4>1, <4>2 DEF IsRule, Normal
    <3>2. QED BY <3>1
  <2>7. RulesOK'
    BY <2>1, <2>3, <2>6 DEF IInv, RulesOK
  <2>8. QED BY <2>4, <2>5, <2>7 DEF IInv
<1>3. QED BY <1>1, <1>2 DEF ForceRules

LEMMA IpFileMatcher ==
  ASSUME IInv, IpFile
  PROVE  IInv'
<1> DEFINE f == job.ipFile
           entries == Of(f.entries, "cn")
           ok == f.state = "good" /\ \A e \in entries : IpEntryOK(e)
<1>1. CASE Fail
  BY <1>1, FailMatcher
<1>2. ASSUME stage = "ipFile", Proceed("siteFile"), UNCHANGED on
      PROVE  /\ stage' = "siteFile" /\ job' = job /\ on' = on /\ StageOK /\ TablesOK /\ RulesOK
             /\ job \in Jobs /\ Applies /\ Applies'
             /\ ~IpReplaced /\ ~SiteReplaced /\ ~SiteReplaced' /\ (IpReplaced' <=> f.state # "missing")
             /\ CurrentRules' = CurrentRules /\ CurrentForced = {} /\ CurrentForced' = {}
             /\ CurrentPrefixes = BuiltInPrefixes /\ BuiltInPrefixes' = BuiltInPrefixes
  <2>1. /\ stage' = "siteFile" /\ job' = job /\ on' = on /\ StageOK /\ TablesOK /\ RulesOK
        /\ job \in Jobs /\ Applies /\ Applies'
    BY <1>2 DEF Proceed, IInv, StageOK, Applies
  <2>2. ~IpReplaced /\ ~SiteReplaced /\ ~SiteReplaced' /\ (IpReplaced' <=> f.state # "missing")
    BY <1>2, <2>1 DEF IpReplaced, SiteReplaced
  <2>3. BuiltInPrefixes' = BuiltInPrefixes /\ BuiltInRules' = BuiltInRules
    BY <1>2, <2>1 DEF BuiltInPrefixes, BuiltInRules, In, FromPrivate, FromGeoIP, FromGeoSite,
                      FromForce, ManualPrefixes, ManualDomains, If
  <2>4. QED BY <1>2, <2>1, <2>2, <2>3 DEF CurrentRules, CurrentForced, CurrentPrefixes
<1>3. CASE f.state = "missing" /\ Proceed("siteFile") /\ UNCHANGED <<on, m>>
  <2>1. stage = "ipFile" /\ CurrentPrefixes' = CurrentPrefixes
    BY <1>2, <1>3 DEF IpFile, CurrentPrefixes
  <2>2. StageOK'
    BY <1>2, <1>3, <2>1 DEF StageOK, FromPrivate, FromGeoIP, FromGeoSite, FromForce
  <2>3. TablesOK' /\ RulesOK'
    BY <1>2, <1>3, <2>1 DEF TablesOK, RulesOK
  <2>4. QED BY <2>2, <2>3 DEF IInv
<1>4. CASE ok /\ m' = IpTable(entries) /\ Proceed("siteFile") /\ UNCHANGED on
  <2>1. stage = "ipFile" /\ CurrentPrefixes' = FilePrefixes
    BY <1>2, <1>4 DEF IpFile, CurrentPrefixes, FilePrefixes, CountryPrefixes, If
  <2>2. StageOK'
    BY <1>2, <1>4, <2>1 DEF StageOK, FromPrivate, FromGeoIP, FromGeoSite, FromForce
  <2>3. TablesOK'
    <3>1. Holds([m EXCEPT !.ip = {}], {}, CurrentRules, CurrentForced)
      BY <1>2, <1>4, <2>1, HoldsIpAnew DEF TablesOK
    <3>2. IpTable(entries) = AddPrefixes([m EXCEPT !.ip = {}], FilePrefixes)
      BY DEF IpTable, FilePrefixes, CountryPrefixes, If
    <3>3. Holds(m', {} \cup FilePrefixes, CurrentRules, CurrentForced)
      BY <1>4, <3>1, <3>2, HoldsPrefixes
    <3>4. QED BY <1>2, <1>4, <2>1, <3>3 DEF TablesOK
  <2>4. ASSUME NEW p \in FilePrefixes PROVE p.bits \in 0..Width
    <3>1. CASE p \in If("private", PrivatePrefixes)
      BY <3>1, MatcherAssumption DEF If
    <3>2. ASSUME NEW e \in entries, p \in IpPrefixes(e) PROVE p.bits \in 0..Width
      <4>1. PICK i \in 1..Len(e.ips) :
              p = [fam |-> e.ips[i].fam, val |-> e.ips[i].val, bits |-> e.lens[i]]
        BY <3>2 DEF IpPrefixes
      <4>2. IpEntryOK(e)
        BY <1>4
      <4>3. p.bits = e.lens[i] /\ i \in 1..Len(e.lens)
        BY <4>1, <4>2 DEF IpEntryOK
      <4>4. QED BY <4>2, <4>3 DEF IpEntryOK
    <3>3. QED BY <2>4, <3>1, <3>2 DEF FilePrefixes, CountryPrefixes
  <2>5. RulesOK'
    BY <1>2, <1>4, <2>1, <2>4 DEF RulesOK
  <2>6. QED BY <2>2, <2>3, <2>5 DEF IInv
<1>5. QED BY <1>1, <1>3, <1>4 DEF IpFile

LEMMA SiteFileMatcher ==
  ASSUME IInv, SiteFile
  PROVE  IInv'
<1> DEFINE f == job.siteFile
           entries == Of(f.entries, "cn")
           rules == SiteRules(entries)
           ok == f.state = "good" /\ \A r \in rules : AcceptsDomain(r, FileKinds)
<1>1. CASE Fail
  BY <1>1, FailMatcher
<1>2. ASSUME stage = "siteFile", Proceed("done"), UNCHANGED on
      PROVE  /\ stage' = "done" /\ job' = job /\ on' = on /\ StageOK /\ TablesOK /\ RulesOK
             /\ job \in Jobs /\ Applies /\ Applies' /\ (IpReplaced' <=> IpReplaced)
             /\ ~SiteReplaced /\ (SiteReplaced' <=> f.state # "missing")
             /\ CurrentPrefixes' = CurrentPrefixes /\ CurrentForced = {} /\ CurrentForced' = {}
             /\ CurrentRules = BuiltInRules /\ BuiltInRules' = BuiltInRules
  <2>1. /\ stage' = "done" /\ job' = job /\ on' = on /\ StageOK /\ TablesOK /\ RulesOK
        /\ job \in Jobs /\ Applies /\ Applies'
    BY <1>2 DEF Proceed, IInv, StageOK, Applies
  <2>2. /\ ~SiteReplaced /\ (SiteReplaced' <=> f.state # "missing")
        /\ (IpReplaced' <=> IpReplaced)
    BY <1>2, <2>1 DEF IpReplaced, SiteReplaced
  <2>3. BuiltInPrefixes' = BuiltInPrefixes /\ BuiltInRules' = BuiltInRules
    BY <1>2, <2>1 DEF BuiltInPrefixes, BuiltInRules, In, FromPrivate, FromGeoIP, FromGeoSite,
                      FromForce, ManualPrefixes, ManualDomains, If
  <2>4. FilePrefixes' = FilePrefixes
    BY <2>1 DEF FilePrefixes, CountryPrefixes, If
  <2>5. CurrentForced = {} /\ CurrentForced' = {}
    BY <1>2, <2>1 DEF CurrentForced, Applies
  <2>6. CurrentPrefixes' = CurrentPrefixes
    BY <2>2, <2>3, <2>4 DEF CurrentPrefixes
  <2>7. CurrentRules = BuiltInRules
    BY <2>2 DEF CurrentRules
  <2>8. QED BY <2>1, <2>2, <2>3, <2>5, <2>6, <2>7
<1>3. CASE f.state = "missing" /\ Proceed("done") /\ UNCHANGED <<on, m>>
  <2>1. stage = "siteFile" /\ CurrentRules' = CurrentRules
    BY <1>2, <1>3 DEF SiteFile, CurrentRules
  <2>2. StageOK'
    BY <1>2, <1>3, <2>1 DEF StageOK, FromPrivate, FromGeoIP, FromGeoSite, FromForce
  <2>3. TablesOK' /\ RulesOK'
    BY <1>2, <1>3, <2>1 DEF TablesOK, RulesOK
  <2>4. QED BY <2>2, <2>3 DEF IInv
<1>4. CASE ok /\ m' = AddDomains([NoRules EXCEPT !.ip = m.ip], rules) /\ Proceed("done")
           /\ UNCHANGED on
  <2>1. stage = "siteFile" /\ CurrentRules' = CountryRules
    BY <1>2, <1>4 DEF SiteFile, CurrentRules, CountryRules
  <2>2. StageOK'
    BY <1>2, <1>4, <2>1 DEF StageOK, FromPrivate, FromGeoIP, FromGeoSite, FromForce
  <2>3. TablesOK'
    <3>1. Holds([NoRules EXCEPT !.ip = m.ip], CurrentPrefixes, {}, {})
      BY <1>2, <1>4, <2>1, HoldsDomainsAnew DEF TablesOK
    <3>2. Holds(m', CurrentPrefixes, {} \cup CountryRules, {})
      BY <1>4, <3>1, HoldsRules DEF CountryRules
    <3>3. QED BY <1>2, <1>4, <2>1, <3>2 DEF TablesOK
  <2>4. ASSUME NEW r \in CountryRules PROVE IsRule(r)
    <3>1. PICK e \in entries : \E d \in e.domains :
            d.value # <<>> /\ r = [kind |-> SiteKind(d.type), value |-> d.value]
      BY <2>4 DEF CountryRules, SiteRules
    <3>2. PICK d \in e.domains :
            d.value # <<>> /\ r = [kind |-> SiteKind(d.type), value |-> d.value]
      BY <3>1
    <3>3. e \in f.entries /\ d.value \in Seq(Labels)
      BY <1>2, <1>4, <2>1, <3>2, MatcherAssumption DEF Of
    <3>4. SiteKind(d.type) \in FileKinds
      BY DEF SiteKind, FileKinds
    <3>5. QED BY <3>2, <3>3, <3>4 DEF IsRule, DataKinds
  <2>5. RulesOK'
    BY <1>2, <1>4, <2>1, <2>4 DEF RulesOK
  <2>6. QED BY <2>2, <2>3, <2>5 DEF IInv
<1>5. QED BY <1>1, <1>3, <1>4 DEF SiteFile

LEMMA StillMatcher ==
  ASSUME IInv, UNCHANGED vars
  PROVE  IInv'
<1>1. job' = job /\ on' = on /\ m' = m /\ stage' = stage
  BY DEF vars
<1>2. /\ CurrentPrefixes' = CurrentPrefixes /\ CurrentRules' = CurrentRules
      /\ CurrentForced' = CurrentForced
  BY <1>1 DEF CurrentPrefixes, CurrentRules, CurrentForced, IpReplaced, SiteReplaced, Applies,
              BuiltInPrefixes, BuiltInRules, FilePrefixes, CountryPrefixes, CountryRules, In, If,
              ManualPrefixes, ManualDomains
<1>3. StageOK <=> StageOK'
  BY <1>1 DEF StageOK, IpReplaced, SiteReplaced, Applies
<1>4. QED BY <1>1, <1>2, <1>3 DEF IInv, TablesOK, RulesOK

LEMMA Invariance == Spec => []IInv
<1>1. IInv /\ [Next]_vars => IInv'
  <2> SUFFICES ASSUME IInv, [Next]_vars PROVE IInv'
    OBVIOUS
  <2>1. CASE ManualRules
    BY <2>1, ManualMatcher
  <2>2. CASE PrivateRules
    BY <2>2, PrivateMatcher
  <2>3. CASE GeoIPRules
    BY <2>3, GeoIPMatcher
  <2>4. CASE GeoSiteRules
    BY <2>4, GeoSiteMatcher
  <2>5. CASE ForceRules
    BY <2>5, ForceMatcher
  <2>6. CASE IpFile
    BY <2>6, IpFileMatcher
  <2>7. CASE SiteFile
    BY <2>7, SiteFileMatcher
  <2>8. CASE UNCHANGED vars
    BY <2>8, StillMatcher
  <2>9. QED BY <2>1, <2>2, <2>3, <2>4, <2>5, <2>6, <2>7, <2>8 DEF Next
<1>2. QED BY <1>1, InitMatcher, PTL DEF Spec
-----------------------------------------------------------------------------
(* Theorems *)

LEMMA MatchMeans ==
  ASSUME IInv, stage = "done", NoFileRead
  PROVE  MatchesItsRules
<1>1. TablesOK /\ RulesOK /\ job \in Jobs
  BY DEF IInv, StageOK
<1>2. ~IpReplaced /\ ~SiteReplaced
  BY DEF NoFileRead, IpReplaced, SiteReplaced, Applies
<1> DEFINE ps == ManualPrefixes \cup If("private", PrivatePrefixes) \cup If("geoip", GeoIPCN)
           rs == ManualDomains \cup If("private", LocalNames) \cup If("geosite", GeoSiteCN)
<1>3. CurrentPrefixes = ps /\ CurrentRules = rs
  BY <1>2 DEF CurrentPrefixes, CurrentRules, BuiltInPrefixes, BuiltInRules, In, FromPrivate,
              FromGeoIP, FromGeoSite, FromForce
<1> HIDE DEF ps, rs
<1>4. ASSUME NEW original \in Hosts, NEW resolved \in Hosts
      PROVE  Match(original, resolved) <=>
               /\ job.made = "force" =>
                    \A r \in Range(job.force) : r.kind = "prefix" \/ ~Names(r, original)
               /\ Covered(ps, rs, original, resolved)
  <2>1. ~MatchForceProxy(original) <=>
          (job.made = "force" =>
             \A r \in Range(job.force) : r.kind = "prefix" \/ ~Names(r, original))
    BY <1>1, ForceMeans DEF CurrentForced
  <2>2. /\ MatchAddr(original) <=> \E p \in ps : InPrefix(p, original)
        /\ MatchAddr(resolved) <=> \E p \in ps : InPrefix(p, resolved)
        /\ MatchDomain(original) <=> \E r \in rs : Names(r, original)
    BY <1>1, <1>3, AddrMeans, DomainMeans
  <2>3. QED BY <2>1, <2>2 DEF Match, Covered
<1>5. QED BY <1>4 DEF MatchesItsRules, ps, rs

\* Whatever the rules, the data and the destinations are: a matcher built without
\* data files answers, through masked addresses, one table per prefix length and
\* tables of domain endings, what the rules given to NewMatcher and
\* NewMatcherWithForceProxy say one by one (Match, matchAddr, matchDomain).
THEOREM RulesDecide == Spec => []MatchesItsRules
<1>1. IInv => MatchesItsRules
  BY MatchMeans DEF MatchesItsRules
<1>2. QED BY <1>1, Invariance, PTL

\* At the end the tables hold what the file of their kind says, or without one
\* the built-in data.
LEMMA AtTheEnd ==
  ASSUME IInv, stage = "done", Applies, NEW h \in Hosts
  PROVE  /\ MatchAddr(h) <=> \E p \in CurrentPrefixes : InPrefix(p, h)
         /\ MatchDomain(h) <=> \E r \in CurrentRules : Names(r, h)
         /\ job.ipFile.state = "good" => CurrentPrefixes = FilePrefixes
         /\ job.siteFile.state = "good" => CurrentRules = CountryRules
         /\ job.ipFile.state = "missing" =>
              CurrentPrefixes = If("private", PrivatePrefixes) \cup If("geoip", GeoIPCN)
                                  \cup ManualPrefixes
         /\ job.siteFile.state = "missing" =>
              CurrentRules = If("private", LocalNames) \cup If("geosite", GeoSiteCN)
                               \cup ManualDomains
         /\ job.ipFile.state \in {"good", "missing"} /\ job.siteFile.state \in {"good", "missing"}
<1>1. TablesOK /\ RulesOK /\ StageOK
  BY DEF IInv
<1>2. /\ MatchAddr(h) <=> \E p \in CurrentPrefixes : InPrefix(p, h)
      /\ MatchDomain(h) <=> \E r \in CurrentRules : Names(r, h)
  BY <1>1, AddrMeans, DomainMeans
<1>3. /\ job.ipFile.state = "good" => CurrentPrefixes = FilePrefixes
      /\ job.siteFile.state = "good" => CurrentRules = CountryRules
  BY DEF CurrentPrefixes, CurrentRules, IpReplaced, SiteReplaced
<1>4. job.ipFile.state = "missing" =>
        CurrentPrefixes = If("private", PrivatePrefixes) \cup If("geoip", GeoIPCN)
                            \cup ManualPrefixes
  BY DEF CurrentPrefixes, IpReplaced, BuiltInPrefixes, In, FromPrivate, FromGeoIP,
         FromGeoSite, FromForce
<1>5. job.siteFile.state = "missing" =>
        CurrentRules = If("private", LocalNames) \cup If("geosite", GeoSiteCN)
                         \cup ManualDomains
  BY DEF CurrentRules, SiteReplaced, BuiltInRules, In, FromPrivate, FromGeoIP,
         FromGeoSite, FromForce
<1>6. job.ipFile.state \in {"good", "missing"} /\ job.siteFile.state \in {"good", "missing"}
  BY <1>1 DEF StageOK, IpReplaced, SiteReplaced
<1>7. QED BY <1>2, <1>3, <1>4, <1>5, <1>6

\* Whatever the files and the rules are: a group that is on is matched by what its
\* file says of the country, or by the built-in data without a file, and a broken
\* file leaves no matcher; with a file only manual rules and private addresses and
\* names may be matched beside it (applyGeoFiles).
THEOREM FilesReplace == Spec => []FilesOverride
<1>1. IInv => FilesOverride
  <2> SUFFICES ASSUME IInv, stage = "done", job.made = "files", NEW h \in Hosts
               PROVE  /\ "geoip" \in on => AddrsOfFile(h)
                      /\ "geosite" \in on => NamesOfFile(h)
    BY DEF FilesOverride
  <2>1. ASSUME "geoip" \in on PROVE AddrsOfFile(h)
    BY <2>1, AtTheEnd DEF Applies, AddrsOfFile, AddrIn, Covered, FilePrefixes, If
  <2>2. ASSUME "geosite" \in on PROVE NamesOfFile(h)
    BY <2>2, AtTheEnd DEF Applies, NamesOfFile, NameIn, Covered, If
  <2>3. QED BY <2>1, <2>2
<1>2. QED BY <1>1, Invariance, PTL
=============================================================================
