----------------------------- MODULE AgentTurn -----------------------------
(***************************************************************************)
(* One turn of a configured agent: the nodes load_context, load_skills,    *)
(* pre_guard, think, execute_tool, await_approval and self_check, run by   *)
(* the PocoFlow flow or by the LangGraph graph, with the ApprovalGate in   *)
(* front of the tool executor and the continuation after a decision.       *)
(*                                                                         *)
(* A turn is a series of segments: it runs until it ends or pauses at the  *)
(* gate, and each approval starts a segment under a runtime context that   *)
(* is resolved anew.  Module Approvals has the requests and the rows; here *)
(* a decision is one step and a segment is spelled out node by node.       *)
(***************************************************************************)
EXTENDS Naturals, Sequences

CONSTANTS
  Tools,          \* tool ids
  NoTool,         \* not a tool id
  Engines,        \* execution engines
  MaxIterations,  \* agent.max_iterations
  MaxBatch        \* calls in one decision (8 in the code)

ASSUME AgentTurnAssumption ==
  /\ NoTool \notin Tools
  /\ Engines \subseteq {"pocoflow", "langgraph"}
  /\ MaxIterations \in Nat \ {0}   \* config.py refuses 0
  /\ MaxBatch \in Nat \ {0}

VARIABLES
  engine,   \* engine_metadata.execution_engine
  ctx,      \* the segment's runtime context: granted tools, gated tools
  catalog,  \* store["tool_catalog"], what the planner is offered
  at,       \* the node that runs next
  status,   \* store["status"]
  answer,   \* store["answer"]: none, a prompt to approve, or a text
  loops,    \* store["loop_count"]
  tail,     \* trailing observations without usable output, up to 2
  batch,    \* store["decision"]["tool_calls"]
  saved,    \* the call of the open approval and the tail of its snapshot
  steps,    \* nodes run in this segment
  \* history, read by properties and never by a guard of the code
  asked,    \* planner consultations of the whole turn
  ran,      \* tools the current batch has executed
  fails,    \* trailing tool results without usable output, up to 2
  stopped   \* the turn was ended for unusable tools

turnVars == <<engine, ctx, catalog, at, status, answer, loops, tail, batch,
              saved, steps, asked, ran, fails, stopped>>

Contexts == [granted : SUBSET Tools, gated : SUBSET Tools]
Nodes == {"prepare", "think", "execute", "check"}
AtRest == {"paused", "done", "error"}
Batches == UNION {[1..n -> Tools] : n \in 1..MaxBatch}
Snapshots == [tool : Tools \cup {NoTool}, tail : 0..2]
NoSnapshot == [tool |-> NoTool, tail |-> 0]

TurnTypeOK ==
  /\ engine \in Engines
  /\ ctx \in Contexts
  /\ catalog \subseteq Tools
  /\ at \in Nodes \cup AtRest
  /\ status \in {"running", "pending_approval", "completed", "failed"}
  /\ answer \in {"none", "prompt", "text"}
  /\ loops \in 0..(MaxIterations + 1)
  /\ tail \in 0..2
  /\ batch \in Batches \cup {<<>>}
  /\ saved \in Snapshots
  /\ steps \in Nat
  /\ asked \in 0..(MaxIterations + 1)
  /\ ran \subseteq Tools
  /\ fails \in 0..2
  /\ stopped \in BOOLEAN

----------------------------------------------------------------------------
\* Mutant of MaxSteps: one node per iteration.
MaxStepsOnePerIteration == MaxIterations + 8

\* The flow's own limit on node executions: max(8, max_iterations * 4 + 8).
MaxSteps == MaxIterations * 4 + 8

TurnInit ==
  /\ engine \in Engines
  /\ ctx \in Contexts
  /\ catalog = ctx.granted
  /\ at = "prepare"
  /\ status = "running"
  /\ answer = "none"
  /\ loops = 0
  /\ tail = 0
  /\ batch = <<>>
  /\ saved = NoSnapshot
  /\ steps = 0
  /\ asked = 0
  /\ ran = {}
  /\ fails = 0
  /\ stopped = FALSE

\* The count of consultations stops past its limit.
Counted(n) == IF n > MaxIterations THEN n ELSE n + 1

Cap(n) == IF n > 2 THEN 2 ELSE n

\* trailing_unusable_tool_count: a count of useless observations at the end
\* of the list, after the observations of ok have been appended.
Trailing(count, ok) ==
  LET n == Len(ok) IN
  IF ok[n] THEN 0
  ELSE IF n = 1 THEN Cap(count + 1)
  ELSE IF ok[n - 1] THEN 1 ELSE 2

\* load_context, load_skills and pre_guard, one after the other.
Prepare ==
  /\ at = "prepare"
  /\ at' = "think"
  /\ steps' = steps + 3
  /\ UNCHANGED <<engine, ctx, catalog, status, answer, loops, tail, batch,
                 saved, asked, ran, fails, stopped>>

\* stop_replanning_after_unusable_tools
Unusable == loops >= 2 /\ tail >= 2

\* Mutant of Decline: nothing is said about why the turn ends.
DeclineSilently ==
  /\ loops + 1 > MaxIterations \/ Unusable
  /\ at' = "check"
  /\ stopped' = (loops + 1 <= MaxIterations)
  /\ batch' = <<>>
  /\ UNCHANGED <<answer, asked>>

\* Think without consulting the planner: the loop budget is used up, or the
\* last observations were of no use.
Decline ==
  /\ loops + 1 > MaxIterations \/ Unusable
  /\ at' = "check"
  /\ answer' = "text"
  /\ stopped' = (loops + 1 <= MaxIterations)
  /\ batch' = <<>>
  /\ UNCHANGED asked

\* The planner answers, clarifies or hands over; a model error, a call of a
\* tool outside the catalog and an empty call become answers too.
Reply ==
  /\ at' = "check"
  /\ answer' = "text"
  /\ batch' = <<>>
  /\ UNCHANGED stopped

\* Mutant of CallTools: names are not held against the catalog.
CallAnyTools ==
  /\ \E n \in 1..MaxBatch : batch' \in [1..n -> Tools]
  /\ at' = "execute"
  /\ UNCHANGED <<answer, stopped>>

CallTools ==
  /\ \E n \in 1..MaxBatch : batch' \in [1..n -> catalog]
  /\ at' = "execute"
  /\ UNCHANGED <<answer, stopped>>

Consult ==
  /\ loops + 1 <= MaxIterations
  /\ ~Unusable
  /\ asked' = Counted(asked)
  /\ Reply \/ CallTools

Think ==
  /\ at = "think"
  /\ Decline \/ Consult
  /\ loops' = loops + 1
  /\ steps' = steps + 1
  /\ ran' = {}
  /\ UNCHANGED <<engine, ctx, catalog, status, tail, saved, fails>>

----------------------------------------------------------------------------
\* Mutant of Gated: only the first decision of the turn is looked at.
GatedAtFirst(t) == t \in ctx.granted /\ t \in ctx.gated /\ loops <= 1

\* tool_requires_approval, over the tools of the segment's context.
Gated(t) == t \in ctx.granted /\ t \in ctx.gated

FirstGated(i) == Gated(batch[i]) /\ \A k \in 1..(i - 1) : ~Gated(batch[k])

\* Mutant of Pause: the calls in front of the gated one go ahead.
PausePartly ==
  \E i \in DOMAIN batch :
    /\ FirstGated(i)
    /\ ran' = {batch[k] : k \in 1..(i - 1)} \cap ctx.granted
    /\ saved' = [tool |-> batch[i], tail |-> tail]
    /\ status' = "pending_approval"
    /\ answer' = "prompt"
    /\ tail' = Cap(tail + 1)
    /\ at' = IF engine = "langgraph" THEN "paused" ELSE "check"
    /\ UNCHANGED fails

\* ApprovalGate: the first call that needs an approval is saved with the
\* observations so far, and no call of the batch is executed.
Pause ==
  \E i \in DOMAIN batch :
    /\ FirstGated(i)
    /\ ran' = {}
    /\ saved' = [tool |-> batch[i], tail |-> tail]
    /\ status' = "pending_approval"
    /\ answer' = "prompt"
    /\ tail' = Cap(tail + 1)   \* the pending_approval observation
    /\ at' = IF engine = "langgraph" THEN "paused" ELSE "check"
    /\ UNCHANGED fails

\* RuntimeToolExecutor.run_many: an unknown tool is an error observation.
RunBatch ==
  /\ \A i \in DOMAIN batch : ~Gated(batch[i])
  /\ ran' = {batch[i] : i \in DOMAIN batch} \cap ctx.granted
  /\ \E ok \in [DOMAIN batch -> BOOLEAN] :
       /\ \A i \in DOMAIN batch : batch[i] \notin ctx.granted => ~ok[i]
       /\ tail' = Trailing(tail, ok)
       /\ fails' = Trailing(fails, ok)
  /\ at' = "think"
  /\ UNCHANGED <<saved, status, answer>>

Execute ==
  /\ at = "execute"
  /\ Pause \/ RunBatch
  /\ steps' = steps + 1
  /\ UNCHANGED <<engine, ctx, catalog, loops, batch, asked, stopped>>

\* SelfCheckNode with default_self_check.
Check ==
  /\ at = "check"
  /\ IF status = "pending_approval"
     THEN at' = "paused" /\ UNCHANGED status
     ELSE /\ at' = "done"
          /\ status' = IF answer = "none" THEN "failed" ELSE "completed"
  /\ steps' = steps + 1
  /\ UNCHANGED <<engine, ctx, catalog, answer, loops, tail, batch, saved,
                 asked, ran, fails, stopped>>

----------------------------------------------------------------------------
\* Mutant of Continue: the PocoFlow turn starts with a fresh loop count.
ContinueAfresh(c, usable) ==
  /\ at' = "prepare"
  /\ catalog' = c.granted
  /\ answer' = "none"
  /\ loops' = 0
  /\ tail' = Trailing(saved.tail, <<FALSE, usable>>)

\* How the turn goes on after an approval and the saved call's result.  A
\* PocoFlow turn starts over with the observations and the loop count of the
\* snapshot, and a catalog of the new context; a LangGraph thread goes on
\* from its checkpoint, which has the old catalog in it.
Continue(c, usable) ==
  \/ /\ engine = "pocoflow"
     /\ at' = "prepare"
     /\ catalog' = c.granted
     /\ answer' = "none"
     /\ tail' = Trailing(saved.tail, <<FALSE, usable>>)
     /\ UNCHANGED loops
  \/ /\ engine = "langgraph"
     /\ at' = "think"
     /\ answer' = "none"
     /\ tail' = Trailing(tail, <<FALSE, usable>>)
     /\ UNCHANGED <<catalog, loops>>

\* resume_approved_approval: the saved call runs without the gate, if the
\* context resolved for it still grants the tool.
Approve ==
  \E c \in Contexts, usable \in BOOLEAN :
    /\ at = "paused"
    /\ saved.tool \in c.granted
    /\ ctx' = c
    /\ status' = "running"
    /\ fails' = Trailing(fails, <<usable>>)
    /\ Continue(c, usable)
    /\ batch' = <<>>
    /\ saved' = NoSnapshot
    /\ steps' = 0
    /\ UNCHANGED <<engine, asked, ran, stopped>>

\* A rejection ends the turn: through self_check in a LangGraph thread, by
\* rejected_approval_response alone in a PocoFlow turn or if the context
\* cannot be resolved any more.
Reject ==
  /\ at = "paused"
  /\ \/ /\ engine = "langgraph"
        /\ at' = "check"
        /\ status' = "running"
        /\ ctx' \in Contexts
     \/ /\ at' = "done"
        /\ status' = "completed"
        /\ UNCHANGED ctx
  /\ answer' = "text"
  /\ batch' = <<>>
  /\ saved' = NoSnapshot
  /\ steps' = 0
  /\ UNCHANGED <<engine, catalog, loops, tail, asked, ran, fails, stopped>>

\* A node raises, or the process dies: the segment is over.
Fail ==
  /\ at \in Nodes
  /\ at' = "error"
  /\ UNCHANGED <<engine, ctx, catalog, status, answer, loops, tail, batch, saved,
                 steps, asked, ran, fails, stopped>>

Node == Prepare \/ Think \/ Execute \/ Check

TurnNext == Node \/ Approve \/ Reject \/ Fail

\* The engine runs node after node in the thread of the request; every call
\* a node makes has a timeout.  Nobody has to decide an approval.
NodeFairness == WF_turnVars(Node)

TurnSpec == TurnInit /\ [][TurnNext]_turnVars /\ NodeFairness

----------------------------------------------------------------------------
\* Approvals cannot be used to think longer: whatever is decided, and with
\* either engine, the planner is consulted at most max_iterations times.
BudgetHolds == asked <= MaxIterations

\* A batch with a gated call is held back as a whole, and what waits for the
\* approval is a call the gate stopped.
PausesWhole ==
  status = "pending_approval" =>
    ran = {} /\ saved.tool \in ctx.granted \cap ctx.gated

\* What the loop executes, the context of the running segment grants
\* without an approval: a catalog or a policy from before an approval, when
\* the tool was still free, opens no way around the gate.  Nor does a turn
\* pause with a part of its batch executed, whose results it would lose.
GateHolds ==
  /\ ran \subseteq ctx.granted \ ctx.gated
  /\ PausesWhole

\* The flow is ended by its own nodes and never by the limit on steps.
StepLimitUnreached == steps <= MaxSteps

\* A turn that ends without an error ends with an answer, and not with the
\* prompt to approve something.
EndsWithAnswer == at = "done" => status = "completed" /\ answer = "text"

\* A turn is cut short for unusable tools only after two tool results in a
\* row were of no use.
StopsAfterTwoFailures == stopped => fails >= 2

\* Every segment ends, and so does the series of them.
ComesToRest == <>[](at \in AtRest)
=============================================================================
