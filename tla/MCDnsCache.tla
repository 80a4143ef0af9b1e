----------------------------- MODULE MCDnsCache ------------------------------
EXTENDS DnsCache

CONSTANTS r1, r2

MCCallers == {r1, r2}
=============================================================================
