--------------------------- MODULE MCInstallation ---------------------------
EXTENDS Installation, TLC

\* Two Applications that cannot be had together, as two that use one address.
CONSTANTS a1, a2
OneAddress == {{a1, a2}}

\* Nothing tells the requests, or the two Applications, apart.
Symmetry == Permutations(Requests) \cup Permutations(Apps)
=============================================================================
