------------------------------- MODULE Matcher -------------------------------
(***************************************************************************)
(* routing.Matcher: its three constructors, which fill the tables stage by *)
(* stage and may fail in each, and Match, which looks a destination up.    *)
(*                                                                         *)
(* An address is a family and its Width bits, "mapped" the family of IPv4  *)
(* addresses written as IPv6.  A prefix adds its length; that of a mapped  *)
(* one counts from bit 96 and is negative below.  A domain is the sequence *)
(* of its labels, "-" one that normalizeDomain refuses.  A host is an      *)
(* address, a domain or, in dotted decimals, both; its name is <<>> when   *)
(* normalizeDomain refuses it, an IPv6 address for one.  A keyword is      *)
(* labels that follow each other, where the code takes any part of the     *)
(* name.                                                                   *)
(***************************************************************************)
EXTENDS Integers, Sequences, FiniteSets, SequencesExt

CONSTANTS
  Width,            \* bits of an address, 32 and 128 in the code
  PrivatePrefixes,  \* privatePrefixes
  GeoIPCN,          \* prefixes of data/geoip_cn.txt
  GeoSiteCN,        \* rules of data/geosite_cn.txt
  Labels,           \* what domains are made of
  Language,         \* the domains each regular expression matches
  Jobs,             \* bound: what callers construct: made, the constructor; on,
                    \* the groups switched on; manual and force, lines of rules;
                    \* ipFile and siteFile, "missing", "broken" or "good" ones
  Hosts             \* bound: the destinations that are looked up

VARIABLES
  job,      \* the constructor's arguments, which never change
  on,       \* the groups that are switched on
  m,        \* the matcher under construction
  stage     \* the part of the constructor that is next, "done" or "failed"

vars == <<job, on, m, stage>>

Groups == {"private", "geoip", "geosite"}
NoRules == [ip |-> {}, domainSuffixes |-> {}, exactDomains |-> {}, keywords |-> {},
            regexps |-> {}, forceSuffixes |-> {}, forceExact |-> {}]

Init ==
  /\ job \in Jobs
  /\ on = job.on
  /\ m = NoRules
  /\ stage = "manual"

Proceed(l) == stage' = l /\ UNCHANGED job
Fail == stage' = "failed" /\ UNCHANGED <<job, on, m>>
-----------------------------------------------------------------------------
(* Filling the tables *)

Masked(val, bits) == [i \in 1..Width |-> IF i <= bits THEN val[i] ELSE 0]
Unmapped(fam) == IF fam = "mapped" THEN "v4" ELSE fam

AcceptsPrefix(p) == p.bits >= 0

\* A table that keeps the host bits of a rule.
PrefixUnmasked(p) == [fam |-> Unmapped(p.fam), bits |-> p.bits, base |-> p.val]

\* addParsedPrefix: the table of a prefix length holds masked addresses.
Prefix(p) == [fam |-> Unmapped(p.fam), bits |-> p.bits, base |-> Masked(p.val, p.bits)]

AddPrefixes(t, ps) == [t EXCEPT !.ip = @ \cup {Prefix(p) : p \in ps}]

Values(rules, kinds) == {r.value : r \in {q \in rules : q.kind \in kinds}}

\* parseDomainData, parseDomainLines, addManualRule: one rule of a kind.
AddDomains(t, rules) ==
  [t EXCEPT !.domainSuffixes = @ \cup Values(rules, {"domain", "suffix"}),
            !.exactDomains = @ \cup Values(rules, {"full"}),
            !.keywords = @ \cup Values(rules, {"keyword"}),
            !.regexps = @ \cup Values(rules, {"regexp"})]

\* normalizeDomain
Normal(name) == name # <<>> /\ "-" \notin Range(name)

AcceptsDomain(r, kinds) ==
  r.kind \in kinds /\ (r.kind \in {"domain", "suffix", "full"} => Normal(r.value))

ManualKinds == {"domain", "suffix", "full"}
FileKinds == {"domain", "full", "regexp"}
DataKinds == FileKinds \cup {"keyword"}

\* A line that is no switch is a prefix or an address, or else a domain rule.
AcceptsLine(r) ==
  \/ r.kind \in Groups
  \/ r.kind = "prefix" /\ AcceptsPrefix(r)
  \/ AcceptsDomain(r, ManualKinds)

\* What netip.ParsePrefix and a string of labels can be, and that the built-in
\* data parse, without which no constructor would return a matcher.
IsPrefixLine(r) == r.kind = "prefix" => r.bits \in Int /\ r.bits <= Width
IsDomainLine(r) == r.kind \in ManualKinds => r.value \in Seq(Labels)

ASSUME MatcherAssumption ==
  /\ Width \in Nat /\ {"localhost", "local"} \subseteq Labels
  /\ \A p \in PrivatePrefixes \cup GeoIPCN : p.bits \in 0..Width
  /\ \A r \in GeoSiteCN :
       AcceptsDomain(r, DataKinds) /\ r.value \in Seq(Labels) /\ r.value # <<>>
  /\ \A h \in Hosts : h.name \in Seq(Labels)
  /\ \A j \in Jobs :
       /\ j.made \in {"plain", "force", "files"}
       /\ j.on \subseteq Groups
       /\ \A r \in Range(j.manual) \cup Range(j.force) : IsPrefixLine(r) /\ IsDomainLine(r)
       /\ {j.ipFile.state, j.siteFile.state} \subseteq {"missing", "broken", "good"}
       /\ \A e \in j.siteFile.entries : \A d \in e.domains : d.value \in Seq(Labels)
-----------------------------------------------------------------------------
(* NewMatcher and the part of NewMatcherWithGeoFile that repeats it *)

\* parseManualRules; one bad line fails the constructor.
ManualRules ==
  /\ stage = "manual"
  /\ LET rules == Range(job.manual) IN
       \/ /\ \A r \in rules : AcceptsLine(r)
          /\ on' = on \cup {r.kind : r \in {q \in rules : q.kind \in Groups}}
          /\ m' = AddDomains(AddPrefixes(m, {r \in rules : r.kind = "prefix"}),
                             {r \in rules : r.kind \in ManualKinds})
          /\ Proceed("private")
       \/ /\ \E r \in rules : ~AcceptsLine(r)
          /\ Fail

LocalNames == {[kind |-> "domain", value |-> <<"localhost">>],
               [kind |-> "domain", value |-> <<"local">>]}

PrivateRules ==
  /\ stage = "private"
  /\ m' = IF "private" \in on
          THEN AddDomains(AddPrefixes(m, PrivatePrefixes), LocalNames) ELSE m
  /\ Proceed("geoip")
  /\ UNCHANGED on

GeoIPRules ==
  /\ stage = "geoip"
  /\ m' = IF "geoip" \in on THEN AddPrefixes(m, GeoIPCN) ELSE m
  /\ Proceed("geosite")
  /\ UNCHANGED on

AfterNew == CASE job.made = "plain" -> "done"
              [] job.made = "force" -> "force"
              [] job.made = "files" -> IF on \cap {"geoip", "geosite"} = {} THEN "done"
                                       ELSE "ipFile"

GeoSiteRules ==
  /\ stage = "geosite"
  /\ m' = IF "geosite" \in on THEN AddDomains(m, GeoSiteCN) ELSE m
  /\ Proceed(AfterNew)
  /\ UNCHANGED on

\* NewMatcherWithForceProxy: addresses among the rules are skipped.
ForceRules ==
  /\ stage = "force"
  /\ LET rules == {r \in Range(job.force) : r.kind # "prefix"}
     IN  \/ /\ \A r \in rules : AcceptsDomain(r, ManualKinds)
            /\ m' = [m EXCEPT !.forceSuffixes = Values(rules, {"domain", "suffix"}),
                              !.forceExact = Values(rules, {"full"})]
            /\ Proceed("done")
            /\ UNCHANGED on
         \/ /\ \E r \in rules : ~AcceptsDomain(r, ManualKinds)
            /\ Fail
-----------------------------------------------------------------------------
(* applyGeoFiles *)

Of(entries, country) == {e \in entries : e.code = country}

\* parseGeoIPDat: an entry lists its addresses and, apart, its prefix lengths; that
\* of a mapped one is kept as it is, so one of 96 and more fails (addPrefix).
IpEntryOK(e) ==
  Len(e.ips) = Len(e.lens) /\ \A i \in 1..Len(e.lens) : e.lens[i] \in 0..Width
IpPrefixes(e) ==
  {[fam |-> e.ips[i].fam, val |-> e.ips[i].val, bits |-> e.lens[i]] : i \in 1..Len(e.ips)}

\* A rebuild that forgets the private prefixes.
IpTableWithoutPrivate(entries) ==
  AddPrefixes([m EXCEPT !.ip = {}], UNION {IpPrefixes(e) : e \in entries})

\* The address tables anew: the private prefixes again, then the file's.
IpTable(entries) ==
  AddPrefixes([m EXCEPT !.ip = {}],
              (IF "private" \in on THEN PrivatePrefixes ELSE {})
                \cup UNION {IpPrefixes(e) : e \in entries})

IpFile ==
  /\ stage = "ipFile"
  /\ LET f == job.ipFile
         entries == Of(f.entries, "cn")
         ok == f.state = "good" /\ (\A e \in entries : IpEntryOK(e))
     IN  \/ /\ f.state = "missing"
            /\ Proceed("siteFile") /\ UNCHANGED <<on, m>>
         \/ /\ ok
            /\ m' = IpTable(entries)
            /\ Proceed("siteFile") /\ UNCHANGED on
         \/ /\ f.state # "missing" /\ ~ok
            /\ Fail

\* parseGeoSiteDat: keywords and unknown types become domain rules, empty values go.
SiteKind(t) == CASE t = 2 -> "full" [] t = 3 -> "regexp" [] OTHER -> "domain"
SiteRules(entries) ==
  UNION {{[kind |-> SiteKind(d.type), value |-> d.value] :
            d \in {x \in e.domains : x.value # <<>>}} : e \in entries}

\* The domain tables anew, from the file's rules only.
SiteFile ==
  /\ stage = "siteFile"
  /\ LET f == job.siteFile
         rules == SiteRules(Of(f.entries, "cn"))
         ok == f.state = "good" /\ \A r \in rules : AcceptsDomain(r, FileKinds)
     IN  \/ /\ f.state = "missing"
            /\ Proceed("done") /\ UNCHANGED <<on, m>>
         \/ /\ ok
            /\ m' = AddDomains([NoRules EXCEPT !.ip = m.ip], rules)
            /\ Proceed("done") /\ UNCHANGED on
         \/ /\ f.state # "missing" /\ ~ok
            /\ Fail

Next == ManualRules \/ PrivateRules \/ GeoIPRules \/ GeoSiteRules \/ ForceRules
          \/ IpFile \/ SiteFile

Spec == Init /\ [][Next]_vars
-----------------------------------------------------------------------------
(* Match *)

IsAddr(h) == h.kind = "addr"

\* matchAddr: one look per prefix length.
MatchAddr(h) ==
  /\ IsAddr(h)
  /\ \E bits \in 0..Width :
       [fam |-> Unmapped(h.fam), bits |-> bits, base |-> Masked(h.val, bits)] \in m.ip

IsDomain(h) == h.name # <<>>

Ends(d) == {SubSeq(d, k, Len(d)) : k \in 1..Len(d)}

MatchDomain(h) ==
  /\ IsDomain(h)
  /\ \/ h.name \in m.exactDomains
     \/ Ends(h.name) \cap m.domainSuffixes # {}
     \/ SubSeqs(h.name) \cap m.keywords # {}
     \/ \E re \in m.regexps : h.name \in Language[re]

MatchForceProxy(h) ==
  /\ IsDomain(h)
  /\ h.name \in m.forceExact \/ Ends(h.name) \cap m.forceSuffixes # {}

Match(original, resolved) ==
  /\ ~MatchForceProxy(original)
  /\ MatchAddr(original) \/ MatchDomain(original) \/ MatchAddr(resolved)
-----------------------------------------------------------------------------
(* What a list of rules means, without tables *)

InPrefix(p, h) ==
  /\ IsAddr(h) /\ Unmapped(p.fam) = Unmapped(h.fam)
  /\ \A i \in 1..p.bits : h.val[i] = p.val[i]

Names(r, h) ==
  /\ IsDomain(h)
  /\ CASE r.kind = "full" -> h.name = r.value
       [] r.kind = "keyword" -> \E i, j \in 1..Len(h.name) : SubSeq(h.name, i, j) = r.value
       [] r.kind = "regexp" -> h.name \in Language[r.value]
       [] OTHER -> IsSuffix(r.value, h.name)

Covered(prefixes, rules, original, resolved) ==
  \/ \E p \in prefixes : InPrefix(p, original) \/ InPrefix(p, resolved)
  \/ \E r \in rules : Names(r, original)

ManualPrefixes == {r \in Range(job.manual) : r.kind = "prefix"}
ManualDomains == {r \in Range(job.manual) : r.kind \in ManualKinds}
If(group, set) == IF group \in on THEN set ELSE {}

\* What the data files say of the country.
CountryPrefixes == UNION {IpPrefixes(e) : e \in Of(job.ipFile.entries, "cn")}
CountryRules == SiteRules(Of(job.siteFile.entries, "cn"))

NoFileRead == job.made # "files" \/ (job.ipFile.state = "missing" /\ job.siteFile.state = "missing")
-----------------------------------------------------------------------------
(* Properties *)

\* A matcher built without data files says of every destination what the rules
\* it was given say: host bits in a rule, mapped addresses, the groups switched
\* on by a rule and the precedence of the force-proxy rules included (NewMatcher,
\* NewMatcherWithForceProxy, Match; the fallback of NewMatcherWithGeoFile).
MatchesItsRules ==
  stage = "done" /\ NoFileRead =>
    \A original, resolved \in Hosts :
      Match(original, resolved) <=>
        /\ job.made = "force" =>
             \A r \in Range(job.force) : r.kind = "prefix" \/ ~Names(r, original)
        /\ Covered(ManualPrefixes \cup If("private", PrivatePrefixes) \cup If("geoip", GeoIPCN),
                   ManualDomains \cup If("private", LocalNames) \cup If("geosite", GeoSiteCN),
                   original, resolved)

AddrIn(h, ps) == Covered(ps, {}, h, h)
NameIn(h, rs) == Covered({}, rs, h, h)

\* Which addresses are matched when the geoip group is on: those of the file and
\* the private ones, and at most the manual ones beside them; without a file the
\* built-in ones.
AddrsOfFile(h) ==
  LET kept == If("private", PrivatePrefixes)
  IN  \/ /\ job.ipFile.state = "good"
         /\ AddrIn(h, kept \cup CountryPrefixes) => MatchAddr(h)
         /\ MatchAddr(h) => AddrIn(h, kept \cup CountryPrefixes \cup ManualPrefixes)
      \/ /\ job.ipFile.state = "missing"
         /\ MatchAddr(h) <=> AddrIn(h, kept \cup GeoIPCN \cup ManualPrefixes)

\* Which names are matched when the geosite group is on: those of the file, and at
\* most the private and the manual ones beside them; without one the built-in ones.
NamesOfFile(h) ==
  LET kept == If("private", LocalNames)
  IN  \/ /\ job.siteFile.state = "good"
         /\ NameIn(h, CountryRules) => MatchDomain(h)
         /\ MatchDomain(h) => NameIn(h, kept \cup CountryRules \cup ManualDomains)
      \/ /\ job.siteFile.state = "missing"
         /\ MatchDomain(h) <=> NameIn(h, kept \cup GeoSiteCN \cup ManualDomains)

\* A group that is on takes its addresses, or names, from its data file when that
\* is there and from the built-in data when it is not, whatever becomes of the
\* other file; a broken file leaves no matcher.  The private addresses are matched
\* in any case (applyGeoFiles).  Of a group that is off nothing is said, nor of
\* whether a file takes the manual rules away.
FilesOverride ==
  stage = "done" /\ job.made = "files" =>
    \A h \in Hosts : /\ "geoip" \in on => AddrsOfFile(h)
                     /\ "geosite" \in on => NamesOfFile(h)

\* The comments of NewMatcherWithGeoFile and applyGeoFiles: a data file replaces
\* the data of its own group and has a meaning only when that is on, so a matcher
\* whose group is off matches none of its addresses, or domains.
OffGroupHasNoData ==
  stage = "done" /\ job.made = "files" =>
    \A h \in Hosts :
      /\ "geoip" \notin on /\ MatchAddr(h) =>
           AddrIn(h, ManualPrefixes \cup If("private", PrivatePrefixes))
      /\ "geosite" \notin on /\ MatchDomain(h) =>
           NameIn(h, ManualDomains \cup If("private", LocalNames))

\* The comment of NewMatcherWithGeoFile: the manual rules are added after the
\* data of the files, so a destination they name is matched.
ManualRulesKept ==
  stage = "done" /\ job.made = "files" =>
    \A h \in Hosts : Covered(ManualPrefixes, ManualDomains, h, h) => Match(h, h)
=============================================================================
