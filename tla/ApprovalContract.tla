------------------------- MODULE ApprovalContract -------------------------
(***************************************************************************)
(* What the approval mechanism promises a reviewer, with no requests, no   *)
(* database and no engine: an approval is opened once, gets at most one    *)
(* outcome, and the tool call it guards runs only under an approval.  When *)
(* two decisions on a pending approval are made at the same time the       *)
(* mechanism does not say which one stands, and neither does the contract. *)
(* A tool call may run again while the approval stands (the code resumes   *)
(* at least once), so running is a set, not a count.                       *)
(***************************************************************************)
CONSTANT Approvals

VARIABLES
  outcome,   \* outcome[a]: where the approval stands
  ran        \* the approvals whose tool call has been executed

vars == <<outcome, ran>>

Outcomes ==
  {"absent", "pending", "approved", "rejected", "expired", "executed",
   "contested"}

TypeOK ==
  /\ outcome \in [Approvals -> Outcomes]
  /\ ran \subseteq Approvals

Init ==
  /\ \E a \in Approvals :
       outcome = [x \in Approvals |-> IF x = a THEN "pending" ELSE "absent"]
  /\ ran = {}

Open(a) ==
  /\ outcome[a] = "absent"
  /\ outcome' = [outcome EXCEPT ![a] = "pending"]
  /\ UNCHANGED ran

Decide(a) ==
  /\ outcome[a] = "pending"
  /\ \E o \in {"approved", "rejected", "expired", "contested"} :
       outcome' = [outcome EXCEPT ![a] = o]
  /\ UNCHANGED ran

RunTool(a) ==
  /\ outcome[a] \in {"approved", "executed", "contested"}
  /\ ran' = ran \cup {a}
  /\ UNCHANGED outcome

Close(a) ==
  /\ outcome[a] = "approved"
  /\ a \in ran
  /\ outcome' = [outcome EXCEPT ![a] = "executed"]
  /\ UNCHANGED ran

Next == \E a \in Approvals : Open(a) \/ Decide(a) \/ RunTool(a) \/ Close(a)

Spec == Init /\ [][Next]_vars
=============================================================================
