----------------------------- MODULE MCDnsZones -----------------------------
(* DnsZones with one name, spelled with its final dot and without.          *)
EXTENDS DnsZones, TLC

CONSTANTS plain, dotted, n1

MCCanonical == [z \in {plain, dotted} |-> n1]

Symmetry == Permutations(Users) \union Permutations(Callers) \union Permutations({plain, dotted})
=============================================================================
