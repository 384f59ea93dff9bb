----------------------------- MODULE MCHandshake -----------------------------
EXTENDS Handshake, TLC

\* Any non-empty roster may be installed.
AnyRoster == SUBSET Clients \ {{}}

\* No constant names one client, sid or source.
Symmetry ==
    Permutations(Clients) \cup Permutations(Sids) \cup Permutations(Sources)

=============================================================================
