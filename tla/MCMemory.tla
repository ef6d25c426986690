------------------------------ MODULE MCMemory ------------------------------
EXTENDS Memory, TLC

CONSTANTS k1, v1, v2, m1

MCHistory == <<m1>>

Says(v, conf, intent, ttl, ok) ==
  [key |-> k1, value |-> v, conf |-> conf, intent |-> intent, ttl |-> ttl, admissible |-> ok]

\* One of each kind: a plain fact, a change of a fact for a time, one to forget,
\* and one that is not certain enough.
MCOffered ==
  {Says(v1, 92, FALSE, FALSE, TRUE), Says(v2, 99, TRUE, TRUE, TRUE),
   Says(NoValue, 99, FALSE, FALSE, TRUE), Says(v1, 80, FALSE, FALSE, TRUE)}
=============================================================================
