---- MODULE MCMcpPool ----
EXTENDS McpPool, TLC
Symmetry == Permutations(Requests)
====
