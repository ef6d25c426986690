----------------------------- MODULE Approvals -----------------------------
(***************************************************************************)
(* Human approval of a tool call in the runtime: the rows of               *)
(* runner_approval_requests (PostgresApprovalStore), the handler behind    *)
(* POST /v1/gateway/approvals/{id}/decide (decide_approval), and the two   *)
(* ways a turn is continued afterwards: a fresh PocoFlow turn, or a resume *)
(* of the LangGraph thread that waits at an interrupt.                     *)
(*                                                                         *)
(* One gateway run and the approvals its turns open.  Every database       *)
(* statement of a handler is a step of its own, so two requests for the    *)
(* same approval interleave between the SELECT of the status and the       *)
(* UPDATE that records a decision, as they do in the code.                 *)
(***************************************************************************)
EXTENDS Naturals

CONSTANTS
  Approvals,           \* approval ids of the run
  NoApproval,          \* not an approval id
  Requests,            \* concurrent decide requests (handler threads)
  Engines,             \* execution engines a run may have been started with
  DurableCheckpoints,  \* agent.langgraph_checkpoints_enabled
  MaxRuns              \* bound on executions of one tool call

ASSUME ApprovalsAssumption ==
  /\ Approvals # {} /\ NoApproval \notin Approvals
  /\ Requests # {}
  /\ Engines \subseteq {"pocoflow", "langgraph"}
  /\ DurableCheckpoints \in BOOLEAN
  /\ MaxRuns \in Nat

VARIABLES
  engine,    \* snapshot.metadata.execution_engine
  status,    \* status[a]: column status, "absent" while there is no row
  results,   \* approvals whose result_json is set
  expired,   \* approvals whose expires_at passed while they were pending
  access,    \* what a fresh resolve_runtime_context would find now
  thread,    \* the LangGraph thread: where its last checkpoint stands
  job,       \* job[r]: what decide request r is doing
  \* history, read by properties and never by a guard of the code
  runs,      \* runs[a]: how often the approved tool call was executed
  timely,    \* approvals for which an approve passed the check in time
  aborted,   \* approvals with an attempt that ran the tool and never marked it
  contested, \* approvals two requests were deciding at the same time
  shared,    \* requests that met another request on their approval
  saw,       \* requests that saw access "full" at some moment since they came in
  told       \* told[a]: the final answers reviewers were given

store == <<status, results>>
watch == <<shared, saw>>
history == <<runs, timely, aborted, contested, told>>
vars == <<engine, status, results, expired, access, thread, job,
          runs, timely, aborted, contested, shared, saw, told>>

Statuses ==
  {"absent", "pending", "approved", "rejected", "expired", "executed"}
Decisions == {"approved", "rejected"}
Access == {"full", "noTool", "none"}
Threads == [at : {"waiting", "think", "ended", "lost"},
            on : Approvals \cup {NoApproval}]
Steps == {"check", "record", "expire", "lookup", "resolve", "run",
          "consume", "plan", "mark"}

Idle == [pc |-> "idle", on |-> NoApproval, decision |-> "rejected"]
Active == [pc : Steps, on : Approvals, decision : Decisions]

TypeOK ==
  /\ engine \in Engines
  /\ status \in [Approvals -> Statuses]
  /\ results \subseteq Approvals
  /\ expired \subseteq Approvals
  /\ access \in Access
  /\ thread \in Threads
  /\ job \in [Requests -> Active \cup {Idle}]
  /\ runs \in [Approvals -> 0..MaxRuns]
  /\ timely \subseteq Approvals
  /\ aborted \subseteq Approvals
  /\ contested \subseteq Approvals
  /\ shared \subseteq Requests
  /\ saw \subseteq Requests
  /\ told \in [Approvals -> SUBSET {"rejected", "executed"}]

----------------------------------------------------------------------------
WaitingAt(a) == [at |-> "waiting", on |-> a]
ThreadAt(place) == [at |-> place, on |-> NoApproval]
NoThread == ThreadAt("ended")  \* PocoFlow keeps no checkpoint

\* The gate has opened the run's first approval and the turn has returned
\* pending_approval; nobody has decided yet.
Init ==
  /\ engine \in Engines
  /\ \E a \in Approvals :
       /\ status = [x \in Approvals |-> IF x = a THEN "pending" ELSE "absent"]
       /\ thread = IF engine = "langgraph" THEN WaitingAt(a) ELSE NoThread
  /\ results = {}
  /\ expired = {}
  /\ access = "full"
  /\ job = [r \in Requests |-> Idle]
  /\ runs = [a \in Approvals |-> 0]
  /\ timely = {}
  /\ aborted = {}
  /\ contested = {}
  /\ shared = {}
  /\ saw = {}
  /\ told = [a \in Approvals |-> {}]

Goto(r, step) ==
  /\ job' = [job EXCEPT ![r].pc = step]
  /\ UNCHANGED <<shared, saw, told>>

Leave(r) ==
  /\ job' = [job EXCEPT ![r] = Idle]
  /\ shared' = shared \ {r}
  /\ saw' = saw \ {r}

\* The handler raises: HTTP 409, 403 or 500, and the row stays as it is.
Refuse(r) == Leave(r) /\ UNCHANGED told

\* HTTP 200 for a rejection, or with the response of the resumed turn.
Answer(r, word) ==
  /\ Leave(r)
  /\ told' = [told EXCEPT ![job[r].on] = @ \cup {word}]

\* The attempt has executed the tool and has not recorded it.
Unrecorded(j) == j.decision = "approved" /\ j.pc \in {"consume", "plan", "mark"}

----------------------------------------------------------------------------
\* A reviewer (or the proxy's retry) posts a decision.
Submit(r, a, d) ==
  /\ job[r] = Idle
  /\ status[a] # "absent"
  /\ job' = [job EXCEPT ![r] = [pc |-> "check", on |-> a, decision |-> d]]
  /\ shared' = LET others == {q \in Requests : job[q].on = a}
               IN  IF others = {} THEN shared ELSE shared \cup others \cup {r}
  /\ saw' = IF access = "full" THEN saw \cup {r} ELSE saw
  /\ UNCHANGED <<engine, store, expired, access, thread, history>>

\* store.decide raises: only an approve of a handled row goes on, to look
\* whether it is a retry.
NotPending(r) ==
  /\ status[job[r].on] # "pending"
  /\ IF job[r].decision = "approved"
     THEN Goto(r, "lookup")
     ELSE Refuse(r)

\* The status of a passed check, written by the UPDATE.
Recorded(r) == status' = [status EXCEPT ![job[r].on] = job[r].decision]

\* Mutants of Decided: the resume without the refreshed context, and the
\* row marked without the resume.
DecidedStale(r) ==
  IF job[r].decision = "approved"
  THEN Goto(r, "run")
  ELSE Answer(r, "rejected")

DecidedUnrun(r) ==
  IF job[r].decision = "approved"
  THEN Goto(r, "mark")
  ELSE Answer(r, "rejected")

\* What follows a recorded decision.  Only a LangGraph run has something to
\* resume after a rejection.
Decided(r) ==
  IF job[r].decision = "approved" \/ engine = "langgraph"
  THEN Goto(r, "resolve")
  ELSE Answer(r, "rejected")

Passed(r) == timely' = IF job[r].decision = "approved"
                       THEN timely \cup {job[r].on} ELSE timely

\* Between the SELECT of a pending row and the UPDATE that follows from it.
Deciding(r) == job[r].pc \in {"record", "expire"}

\* Two requests have read the same row as pending and neither has written.
Meets(r) ==
  contested' = contested \cup
    {a \in {job[r].on} : \E q \in Requests : job[q].on = a /\ Deciding(q)}

\* PostgresApprovalStore.decide up to its first UPDATE: the SELECT of get and
\* the checks, in a transaction of its own.
Check(r) ==
  /\ job[r].pc = "check"
  /\ \/ NotPending(r) /\ UNCHANGED <<timely, contested>>
     \/ /\ status[job[r].on] = "pending"
        /\ job[r].on \in expired
        /\ Goto(r, "expire")
        /\ Meets(r)
        /\ UNCHANGED timely
     \/ /\ status[job[r].on] = "pending"
        /\ job[r].on \notin expired
        /\ Goto(r, "record")
        /\ Meets(r)
        /\ Passed(r)
  /\ UNCHANGED <<engine, store, expired, access, thread, runs, aborted>>

ExpiredStatus == "expired"

\* _set_status(approval_id, 'expired'): no condition on the status.
MarkExpired(r) ==
  /\ job[r].pc = "expire"
  /\ status' = [status EXCEPT ![job[r].on] = ExpiredStatus]
  /\ Refuse(r)
  /\ UNCHANGED <<engine, results, expired, access, thread, runs, timely, aborted, contested>>

\* UPDATE ... SET status = decision WHERE approval_id: no condition either.
Record(r) ==
  /\ job[r].pc = "record"
  /\ Recorded(r)
  /\ Decided(r)
  /\ UNCHANGED <<engine, results, expired, access, thread, runs, timely, aborted, contested>>

\* Mutants of Retryable: any unexecuted row, and an executed row as well.
RetryableUnlessExecuted(a) == status[a] # "executed"
RetryableWhenExecuted(a) == status[a] \in {"approved", "executed"}

\* An approved row without a result is resumed again.
Retryable(a) == status[a] = "approved" /\ a \notin results

\* The approve of a handled row: retry, cached response, or error.
Lookup(r) ==
  /\ job[r].pc = "lookup"
  /\ LET a == job[r].on IN
     \/ /\ Retryable(a)
        /\ Goto(r, "resolve")
     \/ /\ status[a] = "executed" /\ a \in results
        /\ Answer(r, "executed")
     \/ /\ ~Retryable(a)
        /\ ~(status[a] = "executed" /\ a \in results)
        /\ Refuse(r)
  /\ UNCHANGED <<engine, store, expired, access, thread, runs, timely, aborted, contested>>

----------------------------------------------------------------------------
\* resolve_runtime_context and ensure_tool_still_allowed.
Resolve(r) ==
  /\ job[r].pc = "resolve"
  /\ \/ /\ job[r].decision = "approved"
        /\ access = "full"
        /\ Goto(r, "run")
     \/ /\ job[r].decision = "approved"
        /\ access # "full"
        /\ Refuse(r)
     \/ /\ job[r].decision = "rejected"
        /\ access # "none"
        /\ Goto(r, "consume")
     \/ /\ job[r].decision = "rejected"
        /\ access = "none"
        /\ Answer(r, "rejected")
  /\ UNCHANGED <<engine, store, expired, access, thread, runs, timely, aborted, contested>>

\* The saved call goes to the executor with the gate switched off.
RunTool(r) ==
  /\ job[r].pc = "run"
  /\ runs[job[r].on] < MaxRuns
  /\ runs' = [runs EXCEPT ![job[r].on] = @ + 1]
  /\ Goto(r, IF engine = "langgraph" THEN "consume" ELSE "plan")
  /\ UNCHANGED <<engine, store, expired, access, thread, timely, aborted, contested>>

\* graph.invoke(Command(resume=payload)) loads the last checkpoint of the
\* thread.  An interrupt there takes the payload, whichever approval it was
\* raised for; a thread past its interrupt runs on or returns as it is.
Consume(r) ==
  /\ job[r].pc = "consume"
  /\ \/ /\ thread.at = "waiting"
        /\ job[r].decision = "approved"
        /\ thread' = ThreadAt("think")
        /\ Goto(r, "plan")
     \/ /\ thread.at = "waiting"
        /\ job[r].decision = "rejected"
        /\ thread' = ThreadAt("ended")
        /\ Answer(r, "rejected")
     \/ /\ thread.at = "think"
        /\ Goto(r, "plan")
        /\ UNCHANGED thread
     \/ /\ thread.at = "ended"
        /\ IF job[r].decision = "approved"
           THEN Goto(r, "mark")
           ELSE Answer(r, "rejected")
        /\ UNCHANGED thread
  /\ UNCHANGED <<engine, store, expired, access, runs, timely, aborted, contested>>

\* Mutant of Opens: create_pending overwrites a row with the same id.
OpensAgain(b) ==
  /\ status[b] # "executed"
  /\ status' = [status EXCEPT ![b] = "pending"]

\* ApprovalGate.create_approval for a call of the continued turn.
Opens(b) ==
  /\ status[b] = "absent"
  /\ status' = [status EXCEPT ![b] = "pending"]

\* The planner runs on.  It ends the turn, or its gate opens the next
\* approval and the turn pauses there.
Plan(r) ==
  /\ job[r].pc = "plan"
  /\ \/ /\ thread' = IF engine = "langgraph" THEN ThreadAt("ended") ELSE thread
        /\ UNCHANGED status
     \/ \E b \in Approvals :
          /\ Opens(b)
          /\ thread' = IF engine = "langgraph" THEN WaitingAt(b) ELSE thread
  /\ IF job[r].decision = "approved"
     THEN Goto(r, "mark")
     ELSE Answer(r, "rejected")
  /\ UNCHANGED <<engine, results, expired, access, runs, timely, aborted, contested>>

\* mark_executed: status and result in one UPDATE, whatever the status was.
Mark(r) ==
  /\ job[r].pc = "mark"
  /\ status' = [status EXCEPT ![job[r].on] = "executed"]
  /\ results' = results \cup {job[r].on}
  /\ Answer(r, "executed")
  /\ UNCHANGED <<engine, expired, access, thread, runs, timely, aborted, contested>>

----------------------------------------------------------------------------
\* An exception in the middle of a handler: a failed statement, a model
\* error, a lost checkpoint.  The row of the next approval may already be
\* there while the checkpoint that waits at it is not.
Fail(r) ==
  /\ job[r].pc # "idle"
  /\ aborted' = IF Unrecorded(job[r]) THEN aborted \cup {job[r].on} ELSE aborted
  /\ Refuse(r)
  /\ \/ UNCHANGED status
     \/ job[r].pc = "plan" /\ \E b \in Approvals : Opens(b)
  /\ UNCHANGED <<engine, results, expired, access, thread, runs, timely, contested>>

\* The runtime process dies: every request is lost, and so is the thread
\* unless checkpoints are kept in PostgreSQL.
Crash ==
  /\ \E r \in Requests : job[r].pc # "idle"
  /\ job' = [r \in Requests |-> Idle]
  /\ shared' = {}
  /\ saw' = {}
  /\ aborted' = aborted \cup {job[r].on : r \in {q \in Requests : Unrecorded(job[q])}}
  /\ thread' = IF engine = "langgraph" /\ ~DurableCheckpoints
               THEN ThreadAt("lost") ELSE thread
  /\ UNCHANGED <<engine, store, expired, access, runs, timely, contested, told>>

\* expires_at passes.  Nothing reads it once the approval is decided.
Expire(a) ==
  /\ status[a] = "pending"
  /\ a \notin expired
  /\ expired' = expired \cup {a}
  /\ UNCHANGED <<engine, store, access, thread, job, watch, history>>

\* Roles, tools, the release or the actor change in the control plane.
ChangeAccess(v) ==
  /\ access # v
  /\ access' = v
  /\ saw' = IF v = "full" THEN {r \in Requests : job[r] # Idle} ELSE saw
  /\ UNCHANGED <<engine, store, expired, thread, job, shared, history>>

Handler(r) ==
  \/ Check(r) \/ MarkExpired(r) \/ Record(r)
  \/ Lookup(r) \/ Resolve(r) \/ RunTool(r) \/ Consume(r) \/ Plan(r) \/ Mark(r)

Next ==
  \/ \E r \in Requests, a \in Approvals, d \in Decisions : Submit(r, a, d)
  \/ \E r \in Requests : Handler(r)
  \/ \E r \in Requests : Fail(r)
  \/ Crash
  \/ \E a \in Approvals : Expire(a)
  \/ \E v \in Access : ChangeAccess(v)

Spec == Init /\ [][Next]_vars

----------------------------------------------------------------------------
\* A tool call runs only if some approve found the row pending and in time;
\* a retry of an approved row may be late, but never the first approval.
RunNeedsTimelyApproval == \A a \in Approvals : runs[a] > 0 => a \in timely

\* A response saying the call was executed, and a stored result, are only
\* ever given for a call that ran.
ExecutedMeansRan ==
  \A a \in Approvals :
    a \in results \/ "executed" \in told[a] => runs[a] > 0

\* An approval never carries rights over a revocation: whenever the call
\* runs, the tool was allowed at some moment after the request came in.
RunsUnderLiveAccess ==
  [][\A r \in Requests :
       (job[r].pc = "run" /\ job'[r].pc \in {"consume", "plan"}) => r \in saw]_vars

\* A second execution has a cause: an earlier attempt that ran the call and
\* failed before it was recorded, or another request on the same approval
\* while this one was being handled.
NoRerunWithoutCause ==
  [][\A a \in Approvals :
       (runs[a] > 0 /\ runs'[a] > runs[a]) =>
         \/ a \in aborted
         \/ \E r \in Requests : job[r].on = a /\ job[r].pc = "run" /\ r \in shared]_vars

\* The documentation's promise (runtime-runner.md, and the answer itself): a
\* reviewer who was told that the call will not be executed was told the
\* truth.  decide does not keep it: see the run approvals_reject_race.
RejectedNeverRuns ==
  \A a \in Approvals : "rejected" \in told[a] => runs[a] = 0

\* What decide_approval does keep: a rejection that was told is final against
\* every retry, late approve, resumed turn, failure and crash; only another
\* decision that had read the row as pending together with it can undo it.
RejectionStands ==
  \A a \in Approvals :
    "rejected" \in told[a] /\ a \notin contested => runs[a] = 0

\* An interrupted thread goes on only when its own approval is decided.
ResumeContinuesOwnCall ==
  [][\A a \in Approvals :
       (thread = WaitingAt(a) /\ thread' # thread /\ thread'.at # "lost") =>
         \E r \in Requests : job[r].on = a /\ job[r].pc = "consume"]_vars

Contract == INSTANCE ApprovalContract WITH
  outcome <- [a \in Approvals |->
                IF a \in contested THEN "contested" ELSE status[a]],
  ran <- {a \in Approvals : runs[a] > 0}

\* decide_approval keeps the contract: an approval two reviewers are not
\* deciding at the very same time has one outcome, which nothing changes but
\* the execution it allowed.
ContractSpec == Contract!Spec
=============================================================================
