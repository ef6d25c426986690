----------------------------- MODULE MCSharing -----------------------------
(***************************************************************************)
(* Instance of Sharing for model checking.  The values are alike.  The     *)
(* namespace starts without a policy or private to each agent, with a fact *)
(* of the time before agents and one of the tenant; every other policy is  *)
(* set in the run, and so is a preference against sharing.                 *)
(***************************************************************************)
EXTENDS Sharing, TLC

MCInit ==
  /\ Init
  /\ share # "off"
  /\ policy \in {{}, {[mode |-> "agent_private", public |-> FALSE]}}
  /\ \A i \in Identity : i.scope # "user_agent" /\ i.agent = NoAgent => docs[i] # {}

MCSpec == MCInit /\ [][Next]_vars

Symmetry == Permutations(Values)
=============================================================================
