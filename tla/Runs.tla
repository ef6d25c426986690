-------------------------------- MODULE Runs --------------------------------
(***************************************************************************)
(* Runs that the console of the control plane starts.  The control plane   *)
(* writes a row of agent_runs, calls the runner's gateway over HTTP and     *)
(* writes into the row what came back; the answer to an approval is passed *)
(* on to the runner, whose response is written to the row of the run it    *)
(* names.  The runner's side is a gateway turn of Conversations.           *)
(*                                                                         *)
(* The control plane's run has one identifier, PlatformId; the gateway     *)
(* makes up another for the same run, GatewayId.  An approval keeps the    *)
(* latter.  Deciding is one step here: Approvals has its detail.           *)
(***************************************************************************)
EXTENDS Conversations

CONSTANTS
  Console,  \* the gateway turns that the console starts
  NoReply

ASSUME RunsAssumption == Console \subseteq {t \in Turns : KindOf[t] = "gateway"}

VARIABLES
  record,    \* status in agent_runs
  handler,   \* where the control plane's request is
  approval,  \* the approval that the turn asked for
  reply      \* the runner's response to a decision, not yet written

consoleVars == <<record, handler, approval, reply>>

-----------------------------------------------------------------------------
PlatformId(t) == <<"platform", t>>
GatewayId(t)  == <<"gateway", t>>
NoId == <<"none", NoTurn>>

\* The runner's names for a turn that waits; other runners have others.
PendingStatuses == {"pending_approval", "approval_pending", "waiting_approval", "requires_approval"}

\* Approvals that a response asks for: those it lists, or the last one among
\* the tool calls, which also hold those of earlier rounds.
ApprovalRequests(status, listed, traced) ==
  CASE listed # <<>> -> listed
    [] listed = <<>> /\ status \in PendingStatuses /\ traced # <<>> -> <<Last(traced)>>
    [] OTHER -> <<>>

ParsedStatus(status, requests) ==
  IF status \in PendingStatuses \/ (status = "succeeded" /\ requests # <<>>)
  THEN "pending_approval" ELSE status

\* What the gateway answers for a turn, and what the control plane reads.
GatewayStatus(t) == IF approval[t] # "none" THEN "pending_approval" ELSE "completed"

RequestsOf(t) ==
  LET asked == IF approval[t] # "none" THEN <<GatewayId(t)>> ELSE <<>>
  IN  ApprovalRequests(GatewayStatus(t), asked, asked)

\* Mutant: the status of a response that asks for approvals is a final one.
ResultCompleted(t) == IF RequestsOf(t) = <<>> THEN GatewayStatus(t) ELSE "completed"

ResultStatus(t) == ParsedStatus(GatewayStatus(t), RequestsOf(t))

\* The row of a run, if agent_runs has it.
UpdateRun(id, status) ==
  record' = [u \in Console |-> IF PlatformId(u) = id THEN status ELSE record[u]]

CreateRun(t) ==
  /\ handler[t] = "idle"
  /\ handler' = [handler EXCEPT ![t] = "created"]
  /\ record' = [record EXCEPT ![t] = "running"]
  /\ UNCHANGED <<vars, approval, reply>>

CallRunner(t) ==
  /\ handler[t] = "created"
  /\ Arrive(t)
  /\ handler' = [handler EXCEPT ![t] = "calling"]
  /\ UNCHANGED <<record, approval, reply>>

\* The tool that the agent chose needs an approval: the turn ends with it.
AskApproval(t) ==
  /\ t \in Console
  /\ Answer(t)
  /\ approval' = [approval EXCEPT ![t] = "pending"]
  /\ UNCHANGED <<record, handler, reply>>

\* The runner is not reached, answers with an error, or not in time: it may
\* then still be at work.  The row says failed, if it can be written.
CallFails(t) ==
  /\ handler[t] \in {"created", "calling"}
  /\ handler' = [handler EXCEPT ![t] = "closed"]
  /\ record' \in {record, [record EXCEPT ![t] = "failed"]}
  /\ UNCHANGED <<vars, approval, reply>>

\* persist_agent_run_result, and the response to the console.
TakeResult(t) ==
  /\ handler[t] = "calling" /\ at[t] = "done" /\ outcome[t] # "raised"
  /\ \/ /\ UpdateRun(PlatformId(t), ResultStatus(t))
        /\ handler' = [handler EXCEPT ![t] = IF RequestsOf(t) = <<>> THEN "closed" ELSE "asking"]
     \/ handler' = [handler EXCEPT ![t] = "closed"] /\ UNCHANGED record
  /\ UNCHANGED <<vars, approval, reply>>

-----------------------------------------------------------------------------
\* The run that the response to a decision names: the one of the approval
\* after a rejection, none when the run has gone on.
ResponseId(t, d) == IF d = "rejected" THEN GatewayId(t) ELSE NoId

Reply(t, d) ==
  reply' = [reply EXCEPT ![t] = [id |-> ResponseId(t, d), status |-> "completed"]]

\* decide_approval: a first answer; an approval again, to go on after a
\* failure or for the stored result.  Anything else is answered with 409.
Decide(t, d) ==
  /\ handler[t] = "asking" /\ reply[t] = NoReply
  /\ \/ approval[t] = "pending"
     \/ approval[t] \in {"approved", "executed"} /\ d = "approved"
  /\ \/ /\ approval' = [approval EXCEPT ![t] = IF d = "rejected" THEN "rejected" ELSE "executed"]
        /\ Reply(t, d)
     \/ /\ d = "approved" /\ approval[t] # "executed"
        /\ approval' = [approval EXCEPT ![t] = "approved"]
        /\ UNCHANGED reply
  /\ UNCHANGED <<vars, record, handler>>

\* update_run of the run that the response names, if it names one: with an
\* identifier that agent_runs lacks the audit row is refused and the console
\* gets an error.
WriteDecision(t) ==
  /\ reply[t] # NoReply
  /\ reply' = [reply EXCEPT ![t] = NoReply]
  /\ UpdateRun(reply[t].id, reply[t].status)
  /\ UNCHANGED <<vars, handler, approval>>

-----------------------------------------------------------------------------
ConsoleInit ==
  /\ Init
  /\ record = [t \in Console |-> "none"]
  /\ handler = [t \in Console |-> "idle"]
  /\ approval = [t \in Console |-> "none"]
  /\ reply = [t \in Console |-> NoReply]

Handle(t) ==
  \/ CreateRun(t) \/ CallRunner(t) \/ AskApproval(t) \/ CallFails(t) \/ TakeResult(t)
  \/ \E d \in {"approved", "rejected"} : Decide(t, d)
  \/ WriteDecision(t)

ConsoleNext ==
  \/ \E t \in Console : Handle(t)
  \/ \E t \in Turns : Work(t) /\ UNCHANGED consoleVars
  \/ \E t \in Turns \ Console : Arrive(t) /\ UNCHANGED consoleVars
  \/ \E s \in Sessions : (LoseLock(s) \/ OpenPage(s)) /\ UNCHANGED consoleVars

ConsoleSpec == ConsoleInit /\ [][ConsoleNext]_<<vars, consoleVars>>

-----------------------------------------------------------------------------
\* Types of both sides' variables.
ConsoleTypeOK ==
  /\ TypeOK
  /\ record \in [Console -> {"none", "running", "failed", "completed", "pending_approval"}]
  /\ handler \in [Console -> {"idle", "created", "calling", "asking", "closed"}]
  /\ approval \in [Console -> {"none", "pending", "approved", "rejected", "executed"}]
  /\ \A t \in Console : reply[t] = NoReply \/ reply[t].id \in {GatewayId(t), PlatformId(t), NoId}

\* What agent_runs says of a run is what happened in the other service: a run
\* that waits for an answer has an approval there, a completed one has ended
\* without, and every run that the runner works on is on record, also when
\* the call has timed out and the turn goes on unobserved.
RecordTellsTruth ==
  \A t \in Console :
    /\ record[t] = "pending_approval" => approval[t] # "none"
    /\ record[t] = "completed" => at[t] = "done" /\ approval[t] = "none"
    /\ at[t] # "idle" => record[t] # "none"

\* test_agent_routes.py, technical-design.md: deciding an approval updates the
\* run.  Once the response to a decision is dealt with, its run no longer
\* waits for one.
DecisionReachesRun ==
  \A t \in Console :
    approval[t] \in {"rejected", "executed"} /\ reply[t] = NoReply
      => record[t] # "pending_approval"
=============================================================================
