---- MODULE MCApprovals ----
EXTENDS Approvals, TLC
Symmetry == Permutations(Approvals) \cup Permutations(Requests)

\* No guard reads a history variable, so a run may tell states apart by the
\* variables its own properties speak of and leave the other histories out.
RunsView == <<engine, store, expired, access, thread, job, watch,
              runs, timely, aborted, told>>
ContractView == <<engine, store, expired, access, thread, job,
                  runs, contested, told>>
====
