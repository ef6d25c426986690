---- MODULE MCAgentTurn ----
EXTENDS AgentTurn, TLC
Symmetry == Permutations(Tools)
====
