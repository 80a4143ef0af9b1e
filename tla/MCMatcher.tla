------------------------------ MODULE MCMatcher ------------------------------
(* Addresses of three bits, domains of one and two labels, and every list *)
(* of at most two manual lines, with every combination of switches.       *)
EXTENDS Matcher

Bits(n) == [i \in 1..3 |-> (n \div 2 ^ (3 - i)) % 2]
P(f, v, b) == [fam |-> f, val |-> Bits(v), bits |-> b]
D(k, v) == [kind |-> k, value |-> v]
Line(p) == [kind |-> "prefix", fam |-> p.fam, val |-> p.val, bits |-> p.bits]

MCPrivatePrefixes == {P("v4", 0, 2), P("v6", 7, 3)}
MCGeoIPCN == {P("v4", 2, 2), P("v6", 0, 1)}
MCLabels == {"a", "b", "x", "5", "-", "cn", "com", "org", "local", "localhost", "re1", "re2", "10"}
              \cup {ToString(n) : n \in 0..7}
MCLanguage == <<"re1">> :> {<<"b", "com">>} @@ <<"re2">> :> {<<"x", "cn">>}
MCGeoSiteCN == {D("domain", <<"cn">>), D("full", <<"a", "com">>), D("keyword", <<"5">>),
                D("regexp", <<"re1">>)}

\* Two lines whose address has bits behind the length, one mapped; domains; a
\* mapped prefix that is too short and a domain that is none.
MCLines == {[kind |-> g] : g \in Groups}
  \cup {Line(P("v4", 5, 2)), Line(P("mapped", 7, 3)), Line(P("mapped", 0, -1))}
  \cup {D("domain", <<"com">>), D("full", <<"cn">>), D("suffix", <<"-">>), D("keyword", <<"5">>)}
MCManual == UNION {[1..n -> MCLines] : n \in 0..2}
MCForce == {<<>>, <<Line(P("v4", 5, 2)), D("domain", <<"com">>)>>, <<D("full", <<"cn">>)>>,
            <<D("suffix", <<"-">>)>>}

Missing == [state |-> "missing", entries |-> {}]
Broken == [state |-> "broken", entries |-> {}]
A(f, v) == [fam |-> f, val |-> Bits(v)]
IpEntry(c, i, l) == [code |-> c, ips |-> i, lens |-> l]
MCIpFiles == {Missing, Broken,
  [state |-> "good", entries |-> {IpEntry("cn", <<A("v4", 4), A("mapped", 7)>>, <<2, 3>>),
                                  IpEntry("us", <<A("v4", 2)>>, <<>>)}],
  [state |-> "good", entries |-> {IpEntry("cn", <<A("v4", 4), A("v4", 0)>>, <<2>>)}],
  [state |-> "good", entries |-> {IpEntry("cn", <<A("v4", 4)>>, <<4>>)}]}
SiteEntry(c, d) == [code |-> c, domains |-> d]
T(t, v) == [type |-> t, value |-> v]
MCSiteFiles == {Missing, Broken,
  [state |-> "good", entries |-> {SiteEntry("cn", {T(0, <<"com">>), T(2, <<"local">>), T(1, <<>>),
                                                   T(3, <<"re2">>)}),
                                  SiteEntry("us", {T(1, <<"b">>), T(1, <<"-">>)})}],
  [state |-> "good", entries |-> {SiteEntry("cn", {T(1, <<"-">>)})}]}

MCJobs ==
  [made : {"plain"}, on : SUBSET Groups, manual : MCManual, force : {<<>>},
   ipFile : {Missing}, siteFile : {Missing}]
  \cup [made : {"force"}, on : {{}, {"geosite"}}, manual : MCManual, force : MCForce,
        ipFile : {Missing}, siteFile : {Missing}]
  \cup [made : {"files"}, on : SUBSET Groups, manual : UNION {[1..n -> MCLines] : n \in 0..1},
        force : {<<>>}, ipFile : MCIpFiles, siteFile : MCSiteFiles]

MCHosts ==
  {[kind |-> "addr", fam |-> "v4", val |-> Bits(n), name |-> <<"10", ToString(n)>>] : n \in 0..7}
  \cup [kind : {"addr"}, fam : {"v6", "mapped"}, val : [1..3 -> {0, 1}], name : {<<>>}]
  \cup [kind : {"domain"}, name : {<<"cn">>, <<"com">>, <<"a", "com">>, <<"b", "com">>,
                                   <<"x", "cn">>, <<"5", "org">>, <<"localhost">>, <<"b">>}]
=============================================================================
