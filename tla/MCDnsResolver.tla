--------------------------- MODULE MCDnsResolver ----------------------------
(* Small instances of DnsResolver for TLC.                                   *)
EXTENDS DnsResolver, TLC

CONSTANTS c1, c2, h1, a1

TwoCallers == {c1, c2}
OneHost == {h1}
SomeAnswers == {a1, Nothing}
Interchangeable == Permutations(TwoCallers)

=============================================================================
