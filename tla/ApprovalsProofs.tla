-------------------------- MODULE ApprovalsProofs --------------------------
(***************************************************************************)
(* Proofs about module Approvals, for any set of approvals and requests,   *)
(* both engines, durable checkpoints or not.                               *)
(***************************************************************************)
EXTENDS Approvals, TLAPS

----------------------------------------------------------------------------
(* How the three ways a handler step ends change the requests.             *)

LEMMA GotoType ==
  ASSUME TypeOK, NEW r \in Requests, job[r] # Idle, NEW step \in Steps,
         Goto(r, step)
  PROVE  /\ job' \in [Requests -> Active \cup {Idle}]
         /\ shared' = shared /\ saw' = saw /\ told' = told
BY DEF TypeOK, Goto, Active

LEMMA RefuseType ==
  ASSUME TypeOK, NEW r \in Requests, Refuse(r)
  PROVE  /\ job' \in [Requests -> Active \cup {Idle}]
         /\ shared' \subseteq Requests /\ saw' \subseteq Requests
         /\ told' = told
BY DEF TypeOK, Refuse, Leave

LEMMA AnswerType ==
  ASSUME TypeOK, NEW r \in Requests, job[r] # Idle,
         NEW word \in {"rejected", "executed"}, Answer(r, word)
  PROVE  /\ job' \in [Requests -> Active \cup {Idle}]
         /\ shared' \subseteq Requests /\ saw' \subseteq Requests
         /\ told' \in [Approvals -> SUBSET {"rejected", "executed"}]
BY DEF TypeOK, Answer, Leave, Active

LEMMA ActiveJob ==
  ASSUME TypeOK, NEW r \in Requests, job[r].pc # "idle"
  PROVE  job[r] # Idle /\ job[r] \in Active /\ job[r].on \in Approvals
BY DEF TypeOK, Idle, Active

----------------------------------------------------------------------------
LEMMA InitType == Init => TypeOK
BY ApprovalsAssumption
   DEF Init, TypeOK, Statuses, Access, Threads, WaitingAt, ThreadAt, NoThread

LEMMA NextType ==
  ASSUME TypeOK, [Next]_vars
  PROVE  TypeOK'
<1>. USE ApprovalsAssumption
<1>1. CASE UNCHANGED vars
  BY <1>1 DEF vars, TypeOK
<1>2. ASSUME NEW r \in Requests, NEW a \in Approvals, NEW d \in Decisions,
             Submit(r, a, d)
      PROVE  TypeOK'
  BY <1>2 DEF Submit, TypeOK, Active, Steps, Decisions, store, history
<1>3. ASSUME NEW r \in Requests, Check(r)
      PROVE  TypeOK'
  <2>1. job[r] # Idle /\ job[r].on \in Approvals
    BY <1>3, ActiveJob DEF Check
  <2>2. /\ job' \in [Requests -> Active \cup {Idle}]
        /\ shared' \subseteq Requests /\ saw' \subseteq Requests
        /\ told' = told
    BY <1>3, <2>1, GotoType, RefuseType DEF Check, NotPending, Steps, TypeOK
  <2>3. timely' \subseteq Approvals /\ contested' \subseteq Approvals
    BY <1>3, <2>1 DEF Check, Passed, Meets, TypeOK
  <2>. QED
    BY <1>3, <2>2, <2>3 DEF Check, TypeOK, store
<1>4. ASSUME NEW r \in Requests, MarkExpired(r)
      PROVE  TypeOK'
  BY <1>4, RefuseType DEF MarkExpired, TypeOK, Statuses, ExpiredStatus
<1>5. ASSUME NEW r \in Requests, Record(r)
      PROVE  TypeOK'
  <2>1. job[r] # Idle /\ job[r].on \in Approvals /\ job[r].decision \in Decisions
    BY <1>5, ActiveJob DEF Record, Active
  <2>2. /\ job' \in [Requests -> Active \cup {Idle}]
        /\ shared' \subseteq Requests /\ saw' \subseteq Requests
        /\ told' \in [Approvals -> SUBSET {"rejected", "executed"}]
    BY <1>5, <2>1, GotoType, AnswerType DEF Record, Decided, Steps, TypeOK
  <2>3. status' \in [Approvals -> Statuses]
    BY <1>5, <2>1 DEF Record, Recorded, TypeOK, Statuses, Decisions
  <2>. QED
    BY <1>5, <2>2, <2>3 DEF Record, TypeOK
<1>7. ASSUME NEW r \in Requests, Lookup(r) \/ Resolve(r)
      PROVE  TypeOK'
  <2>1. job[r] # Idle
    BY <1>7, ActiveJob DEF Lookup, Resolve
  <2>2. /\ job' \in [Requests -> Active \cup {Idle}]
        /\ shared' \subseteq Requests /\ saw' \subseteq Requests
        /\ told' \in [Approvals -> SUBSET {"rejected", "executed"}]
    BY <1>7, <2>1, GotoType, RefuseType, AnswerType
       DEF Lookup, Resolve, Steps, TypeOK
  <2>. QED
    BY <1>7, <2>2 DEF Lookup, Resolve, TypeOK, store
<1>8. ASSUME NEW r \in Requests, RunTool(r)
      PROVE  TypeOK'
  <2>1. job[r] # Idle /\ job[r].on \in Approvals
    BY <1>8, ActiveJob DEF RunTool
  <2>2. /\ job' \in [Requests -> Active \cup {Idle}]
        /\ shared' = shared /\ saw' = saw /\ told' = told
    BY <1>8, <2>1, GotoType DEF RunTool, Steps
  <2>3. runs' \in [Approvals -> 0..MaxRuns]
    BY <1>8, <2>1 DEF RunTool, TypeOK
  <2>. QED
    BY <1>8, <2>2, <2>3 DEF RunTool, TypeOK, store
<1>9. ASSUME NEW r \in Requests, Consume(r)
      PROVE  TypeOK'
  <2>1. job[r] # Idle
    BY <1>9, ActiveJob DEF Consume
  <2>2. /\ job' \in [Requests -> Active \cup {Idle}]
        /\ shared' \subseteq Requests /\ saw' \subseteq Requests
        /\ told' \in [Approvals -> SUBSET {"rejected", "executed"}]
    BY <1>9, <2>1, GotoType, AnswerType DEF Consume, Steps, TypeOK
  <2>3. thread' \in Threads
    BY <1>9 DEF Consume, ThreadAt, Threads, TypeOK
  <2>. QED
    BY <1>9, <2>2, <2>3 DEF Consume, TypeOK, store
<1>10. ASSUME NEW r \in Requests, Plan(r)
       PROVE  TypeOK'
  <2>1. job[r] # Idle
    BY <1>10, ActiveJob DEF Plan
  <2>2. /\ job' \in [Requests -> Active \cup {Idle}]
        /\ shared' \subseteq Requests /\ saw' \subseteq Requests
        /\ told' \in [Approvals -> SUBSET {"rejected", "executed"}]
    BY <1>10, <2>1, GotoType, AnswerType DEF Plan, Steps, TypeOK
  <2>3. thread' \in Threads /\ status' \in [Approvals -> Statuses]
    BY <1>10 DEF Plan, Opens, WaitingAt, ThreadAt, Threads, Statuses, TypeOK
  <2>. QED
    BY <1>10, <2>2, <2>3 DEF Plan, TypeOK
<1>11. ASSUME NEW r \in Requests, Mark(r)
       PROVE  TypeOK'
  <2>1. job[r] # Idle /\ job[r].on \in Approvals
    BY <1>11, ActiveJob DEF Mark
  <2>. QED
    BY <1>11, <2>1, AnswerType DEF Mark, TypeOK, Statuses
<1>12. ASSUME NEW r \in Requests, Fail(r)
       PROVE  TypeOK'
  <2>1. job[r].on \in Approvals
    BY <1>12, ActiveJob DEF Fail
  <2>2. status' \in [Approvals -> Statuses] /\ aborted' \subseteq Approvals
    BY <1>12, <2>1 DEF Fail, Opens, TypeOK, Statuses
  <2>. QED
    BY <1>12, <2>2, RefuseType DEF Fail, TypeOK
<1>13. CASE Crash
  <2>1. aborted' \subseteq Approvals
    BY <1>13, ActiveJob DEF Crash, Unrecorded, TypeOK
  <2>2. thread' \in Threads
    BY <1>13 DEF Crash, TypeOK, Threads, ThreadAt
  <2>. QED
    BY <1>13, <2>1, <2>2 DEF Crash, TypeOK, store
<1>14. ASSUME NEW a \in Approvals, Expire(a)
       PROVE  TypeOK'
  BY <1>14 DEF Expire, TypeOK, store, watch, history
<1>15. ASSUME NEW v \in Access, ChangeAccess(v)
       PROVE  TypeOK'
  BY <1>15 DEF ChangeAccess, TypeOK, store, history
<1>. QED
  BY <1>1, <1>2, <1>3, <1>4, <1>5, <1>7, <1>8, <1>9, <1>10, <1>11,
     <1>12, <1>13, <1>14, <1>15 DEF Next, Handler

(***************************************************************************)
(* Every variable keeps its type: in particular an active request always   *)
(* works on a real approval, and a row only ever holds one of the statuses *)
(* the code writes.                                                        *)
(***************************************************************************)
THEOREM TypeCorrect == Spec => []TypeOK
BY InitType, NextType, PTL DEF Spec

----------------------------------------------------------------------------
(* What an approve holds at each place of the handler.                     *)
Backed(r) ==
  /\ job[r].pc \in {"lookup", "run", "mark"} => job[r].decision = "approved"
  /\ job[r].decision = "approved" =>
       /\ job[r].pc \in {"record", "resolve", "run", "consume", "plan", "mark"} =>
            job[r].on \in timely
       /\ job[r].pc \in {"consume", "plan", "mark"} => runs[job[r].on] > 0
  /\ job[r].pc = "run" => r \in saw
  /\ access = "full" /\ job[r].pc # "idle" => r \in saw

(* What the row, the reviewers and the history know of an approval.        *)
Ledger(a) ==
  /\ status[a] \in {"approved", "executed"} => a \in timely
  /\ runs[a] > 0 => a \in timely
  /\ a \in results \/ "executed" \in told[a] => runs[a] > 0

SafetyInv ==
  /\ TypeOK
  /\ \A r \in Requests : Backed(r)
  /\ \A a \in Approvals : Ledger(a)

(* Of an approval that two requests never were deciding at once, the row   *)
(* agrees with everything that is under way and with every rejection that  *)
(* was told: who is deciding is alone, and the row is still pending.       *)
InStep(r) ==
  job[r].on \notin contested =>
    /\ Deciding(r) => status[job[r].on] = "pending"
    /\ job[r].pc \in {"resolve", "run", "consume", "plan", "mark"} =>
         IF job[r].decision = "approved"
         THEN status[job[r].on] \in {"approved", "executed"}
         ELSE status[job[r].on] = "rejected"

Apart(r, q) ==
  r # q /\ Deciding(r) /\ Deciding(q) /\ job[r].on = job[q].on =>
    job[r].on \in contested

Settled(a) ==
  a \notin contested =>
    /\ "rejected" \in told[a] => status[a] = "rejected"
    /\ runs[a] > 0 => status[a] \in {"approved", "executed"}

OutcomeInv ==
  /\ SafetyInv
  /\ \A r \in Requests : InStep(r)
  /\ \A r, q \in Requests : Apart(r, q)
  /\ \A a \in Approvals : Settled(a)

LEMMA GotoEffect ==
  ASSUME TypeOK, NEW r \in Requests, job[r] # Idle, NEW step, Goto(r, step)
  PROVE  /\ \A q \in Requests \ {r} : job'[q] = job[q]
         /\ job'[r].pc = step
         /\ job'[r].on = job[r].on
         /\ job'[r].decision = job[r].decision
         /\ saw' = saw /\ told' = told
BY DEF Goto, TypeOK, Active

LEMMA RefuseEffect ==
  ASSUME TypeOK, NEW r \in Requests, Refuse(r)
  PROVE  /\ \A q \in Requests \ {r} : job'[q] = job[q]
         /\ job'[r].pc = "idle" /\ job'[r].decision = "rejected"
         /\ saw' = saw \ {r} /\ told' = told
BY DEF Refuse, Leave, TypeOK, Idle

LEMMA AnswerEffect ==
  ASSUME TypeOK, NEW r \in Requests, job[r] # Idle,
         NEW word \in {"rejected", "executed"}, Answer(r, word)
  PROVE  /\ \A q \in Requests \ {r} : job'[q] = job[q]
         /\ job'[r].pc = "idle" /\ job'[r].decision = "rejected"
         /\ saw' = saw \ {r}
         /\ \A a \in Approvals :
              told'[a] = IF a = job[r].on THEN told[a] \cup {word} ELSE told[a]
BY DEF Answer, Leave, TypeOK, Idle, Active

LEMMA RejectionEffect ==
  ASSUME TypeOK, NEW r \in Requests, job[r] # Idle, Answer(r, "rejected")
  PROVE  \A a \in Approvals : "executed" \in told'[a] <=> "executed" \in told[a]
BY DEF Answer, TypeOK, Active, Idle

LEMMA DecidedEffect ==
  ASSUME TypeOK, NEW r \in Requests, job[r] # Idle, Decided(r)
  PROVE  \A a \in Approvals : "executed" \in told'[a] <=> "executed" \in told[a]
<1>1. CASE Goto(r, "resolve")
  BY <1>1 DEF Goto
<1>2. CASE Answer(r, "rejected")
  BY <1>2, RejectionEffect
<1>. QED
  BY <1>1, <1>2 DEF Decided

LEMMA SafetyInit == Init => SafetyInv
BY InitType DEF Init, SafetyInv, Backed, Ledger, Idle, TypeOK

LEMMA SafetyNext ==
  ASSUME SafetyInv, [Next]_vars
  PROVE  SafetyInv'
<1>. USE ApprovalsAssumption
<1>0. TypeOK /\ TypeOK'
  BY NextType DEF SafetyInv
<1>. SUFFICES ASSUME NEW q \in Requests, NEW x \in Approvals
              PROVE  Backed(q)' /\ Ledger(x)'
  BY <1>0, ApprovalsAssumption DEF SafetyInv
<1>a. /\ Backed(q) /\ Ledger(x)
      /\ \A r \in Requests : Backed(r)
      /\ \A a \in Approvals : Ledger(a)
  BY DEF SafetyInv
<1>1. CASE UNCHANGED vars
  BY <1>1, <1>a DEF vars, Backed, Ledger
<1>2. ASSUME NEW r \in Requests, NEW a \in Approvals, NEW d \in Decisions,
             Submit(r, a, d)
      PROVE  Backed(q)' /\ Ledger(x)'
  <2>1. /\ \A p \in Requests \ {r} : job'[p] = job[p]
        /\ job'[r] = [pc |-> "check", on |-> a, decision |-> d]
        /\ saw \subseteq saw'
        /\ access = "full" => r \in saw'
    BY <1>0, <1>2 DEF Submit, TypeOK
  <2>2. Backed(q)'
    <3>1. CASE q = r
      BY <1>2, <2>1, <3>1 DEF Submit, Backed
    <3>2. CASE q # r
      BY <1>2, <1>a, <2>1, <3>2 DEF Submit, Backed, history
    <3>. QED
      BY <3>1, <3>2
  <2>3. Ledger(x)'
    BY <1>2, <1>a DEF Submit, Ledger, store, history
  <2>. QED
    BY <2>2, <2>3
<1>3. ASSUME NEW r \in Requests, Check(r)
      PROVE  Backed(q)' /\ Ledger(x)'
  <2>1. job[r] # Idle /\ job[r].on \in Approvals
    BY <1>0, <1>3, ActiveJob DEF Check
  <2>. QED
    BY <1>0, <1>3, <1>a, <2>1, GotoEffect, RefuseEffect
       DEF Check, NotPending, Passed, Backed, Ledger, store
<1>4. ASSUME NEW r \in Requests, MarkExpired(r)
      PROVE  Backed(q)' /\ Ledger(x)'
  <2>1. job[r] # Idle /\ job[r].on \in Approvals
    BY <1>0, <1>4, ActiveJob DEF MarkExpired
  <2>. QED
    BY <1>0, <1>4, <1>a, <2>1, RefuseEffect
       DEF MarkExpired, Backed, Ledger, ExpiredStatus, TypeOK
<1>5. ASSUME NEW r \in Requests, Record(r)
      PROVE  Backed(q)' /\ Ledger(x)'
  <2>1. /\ job[r] # Idle /\ job[r].on \in Approvals
        /\ job[r].decision \in {"approved", "rejected"}
    BY <1>0, <1>5, ActiveJob DEF Record, Active, Decisions
  <2>2. Backed(q)'
    BY <1>0, <1>5, <1>a, <2>1, GotoEffect, AnswerEffect
       DEF Record, Decided, Backed
  <2>3. Ledger(x)'
    <3>1. "executed" \in told'[x] => "executed" \in told[x]
      BY <1>0, <1>5, <2>1, DecidedEffect DEF Record
    <3>2. status'[x] \in {"approved", "executed"} => x \in timely
      BY <1>0, <1>5, <1>a, <2>1 DEF Record, Recorded, Backed, Ledger, TypeOK
    <3>. QED
      BY <1>5, <1>a, <3>1, <3>2 DEF Record, Ledger
  <2>. QED
    BY <2>2, <2>3
<1>7. ASSUME NEW r \in Requests, Lookup(r)
      PROVE  Backed(q)' /\ Ledger(x)'
  <2>1. job[r] # Idle /\ job[r].on \in Approvals
    BY <1>0, <1>7, ActiveJob DEF Lookup
  <2>2. CASE Retryable(job[r].on) /\ Goto(r, "resolve")
    BY <1>0, <1>7, <1>a, <2>1, <2>2, GotoEffect
       DEF Lookup, Retryable, Backed, Ledger, store
  <2>3. CASE Refuse(r)
    BY <1>0, <1>7, <1>a, <2>1, <2>3, RefuseEffect
       DEF Lookup, Backed, Ledger, store
  <2>4. CASE job[r].on \in results /\ Answer(r, "executed")
    <3>1. Backed(q)'
      BY <1>0, <1>7, <1>a, <2>1, <2>4, AnswerEffect DEF Lookup, Backed, store
    <3>2. Ledger(x)'
      BY <1>0, <1>7, <1>a, <2>1, <2>4, AnswerEffect DEF Lookup, Ledger, store
    <3>. QED
      BY <3>1, <3>2
  <2>. QED
    BY <1>7, <2>2, <2>3, <2>4 DEF Lookup
<1>8. ASSUME NEW r \in Requests, Resolve(r)
      PROVE  Backed(q)' /\ Ledger(x)'
  <2>1. job[r] # Idle /\ job[r].on \in Approvals
    BY <1>0, <1>8, ActiveJob DEF Resolve
  <2>2. CASE access = "full" /\ Goto(r, "run")
    BY <1>0, <1>8, <1>a, <2>1, <2>2, GotoEffect
       DEF Resolve, Backed, Ledger, store
  <2>3. CASE Refuse(r)
    BY <1>0, <1>8, <1>a, <2>1, <2>3, RefuseEffect
       DEF Resolve, Backed, Ledger, store
  <2>4. CASE job[r].decision = "rejected" /\ Goto(r, "consume")
    BY <1>0, <1>8, <1>a, <2>1, <2>4, GotoEffect
       DEF Resolve, Backed, Ledger, store
  <2>5. CASE Answer(r, "rejected")
    <3>1. Backed(q)'
      BY <1>0, <1>8, <1>a, <2>1, <2>5, AnswerEffect DEF Resolve, Backed, store
    <3>2. Ledger(x)'
      BY <1>0, <1>8, <1>a, <2>1, <2>5, RejectionEffect DEF Resolve, Ledger, store
    <3>. QED
      BY <3>1, <3>2
  <2>. QED
    BY <1>8, <2>2, <2>3, <2>4, <2>5 DEF Resolve
<1>9. ASSUME NEW r \in Requests, RunTool(r)
      PROVE  Backed(q)' /\ Ledger(x)'
  <2>1. job[r] # Idle /\ job[r].on \in Approvals
    BY <1>0, <1>9, ActiveJob DEF RunTool
  <2>2. /\ job[r].on \in timely
        /\ runs'[job[r].on] > 0
        /\ \A a \in Approvals \ {job[r].on} : runs'[a] = runs[a]
        /\ \A a \in Approvals : runs[a] > 0 => runs'[a] > 0
    BY <1>0, <1>9, <1>a, <2>1 DEF RunTool, Backed, TypeOK
  <2>. QED
    BY <1>0, <1>9, <1>a, <2>1, <2>2, GotoEffect
       DEF RunTool, Backed, Ledger, store, TypeOK
<1>10. ASSUME NEW r \in Requests, Consume(r)
       PROVE  Backed(q)' /\ Ledger(x)'
  <2>1. job[r] # Idle /\ job[r].on \in Approvals
    BY <1>0, <1>10, ActiveJob DEF Consume
  <2>2. CASE Goto(r, "plan")
    BY <1>0, <1>10, <1>a, <2>1, <2>2, GotoEffect
       DEF Consume, Backed, Ledger, store
  <2>3. CASE job[r].decision = "approved" /\ Goto(r, "mark")
    BY <1>0, <1>10, <1>a, <2>1, <2>3, GotoEffect
       DEF Consume, Backed, Ledger, store
  <2>4. CASE Answer(r, "rejected")
    <3>1. Backed(q)'
      BY <1>0, <1>10, <1>a, <2>1, <2>4, AnswerEffect DEF Consume, Backed, store
    <3>2. Ledger(x)'
      BY <1>0, <1>10, <1>a, <2>1, <2>4, RejectionEffect DEF Consume, Ledger, store
    <3>. QED
      BY <3>1, <3>2
  <2>. QED
    BY <1>10, <2>2, <2>3, <2>4 DEF Consume
<1>11. ASSUME NEW r \in Requests, Plan(r)
       PROVE  Backed(q)' /\ Ledger(x)'
  <2>1. job[r] # Idle /\ job[r].on \in Approvals
    BY <1>0, <1>11, ActiveJob DEF Plan
  <2>2. status'[x] \in {"approved", "executed"} => status'[x] = status[x]
    BY <1>0, <1>11 DEF Plan, Opens, TypeOK
  <2>3. CASE job[r].decision = "approved" /\ Goto(r, "mark")
    BY <1>0, <1>11, <1>a, <2>1, <2>2, <2>3, GotoEffect DEF Plan, Backed, Ledger
  <2>4. CASE Answer(r, "rejected")
    <3>1. Backed(q)'
      BY <1>0, <1>11, <1>a, <2>1, <2>4, AnswerEffect DEF Plan, Backed
    <3>2. Ledger(x)'
      BY <1>0, <1>11, <1>a, <2>1, <2>2, <2>4, RejectionEffect DEF Plan, Ledger
    <3>. QED
      BY <3>1, <3>2
  <2>. QED
    BY <1>11, <2>3, <2>4 DEF Plan
<1>12. ASSUME NEW r \in Requests, Mark(r)
       PROVE  Backed(q)' /\ Ledger(x)'
  <2>1. job[r] # Idle /\ job[r].on \in Approvals
    BY <1>0, <1>12, ActiveJob DEF Mark
  <2>2. job[r].on \in timely /\ runs[job[r].on] > 0
    BY <1>12, <1>a DEF Mark, Backed
  <2>3. Backed(q)'
    BY <1>0, <1>12, <1>a, <2>1, AnswerEffect DEF Mark, Backed
  <2>4. Ledger(x)'
    BY <1>0, <1>12, <1>a, <2>1, <2>2, AnswerEffect DEF Mark, Ledger, TypeOK
  <2>. QED
    BY <2>3, <2>4
<1>13. ASSUME NEW r \in Requests, Fail(r)
       PROVE  Backed(q)' /\ Ledger(x)'
  <2>1. status'[x] \in {"approved", "executed"} => status'[x] = status[x]
    BY <1>0, <1>13 DEF Fail, Opens, TypeOK
  <2>. QED
    BY <1>0, <1>13, <1>a, <2>1, RefuseEffect DEF Fail, Backed, Ledger
<1>14. CASE Crash
  BY <1>14, <1>a DEF Crash, Backed, Ledger, Idle, store
<1>15. ASSUME NEW a \in Approvals, Expire(a)
       PROVE  Backed(q)' /\ Ledger(x)'
  BY <1>15, <1>a DEF Expire, Backed, Ledger, store, watch, history
<1>16. ASSUME NEW v \in Access, ChangeAccess(v)
       PROVE  Backed(q)' /\ Ledger(x)'
  BY <1>0, <1>16, <1>a DEF ChangeAccess, Backed, Ledger, store, history, TypeOK, Idle
<1>. QED
  BY <1>1, <1>2, <1>3, <1>4, <1>5, <1>7, <1>8, <1>9, <1>10, <1>11,
     <1>12, <1>13, <1>14, <1>15, <1>16 DEF Next, Handler

LEMMA Safe == Spec => []SafetyInv
BY SafetyInit, SafetyNext, PTL DEF Spec

(***************************************************************************)
(* A tool call behind the gate is executed only if an approve found its    *)
(* row pending and not yet expired (decide, before any retry).             *)
(***************************************************************************)
THEOREM TimelyApproval == Spec => []RunNeedsTimelyApproval
<1>1. SafetyInv => RunNeedsTimelyApproval
  BY DEF SafetyInv, Ledger, RunNeedsTimelyApproval
<1>. QED
  BY <1>1, Safe, PTL

(***************************************************************************)
(* result_json, and a response carrying it, exist only for a call that was *)
(* executed (mark_executed comes after the tool).                          *)
(***************************************************************************)
THEOREM ExecutedIsTrue == Spec => []ExecutedMeansRan
<1>1. SafetyInv => ExecutedMeansRan
  BY DEF SafetyInv, Ledger, ExecutedMeansRan
<1>. QED
  BY <1>1, Safe, PTL

(***************************************************************************)
(* The refreshed context stands between the click and the tool: a call is  *)
(* executed only if its access was there after the request came in.        *)
(***************************************************************************)
THEOREM LiveAccess == Spec => RunsUnderLiveAccess
<1>1. SafetyInv =>
        \A r \in Requests :
          (job[r].pc = "run" /\ job'[r].pc \in {"consume", "plan"}) => r \in saw
  BY DEF SafetyInv, Backed
<1>. QED
  BY <1>1, Safe, PTL DEF RunsUnderLiveAccess

----------------------------------------------------------------------------
(* What becomes of an approval that is not decided twice at once.          *)

LEMMA OutcomeInit == Init => OutcomeInv
<1>. SUFFICES ASSUME Init PROVE OutcomeInv
  OBVIOUS
<1>1. SafetyInv
  BY SafetyInit
<1>2. \A r \in Requests : InStep(r) /\ ~Deciding(r)
  BY DEF Init, InStep, Deciding, Idle
<1>3. \A a \in Approvals : told[a] = {} /\ runs[a] = 0
  BY DEF Init
<1>4. \A a \in Approvals : Settled(a)
  <2>. SUFFICES ASSUME NEW a \in Approvals PROVE Settled(a)
    OBVIOUS
  <2>1. told[a] = {} /\ ~(0 > 0)
    BY <1>3
  <2>. QED
    BY <1>3, <2>1 DEF Settled
<1>. QED
  BY <1>1, <1>2, <1>4 DEF OutcomeInv, Apart

(* A request comes between read and write through the check only.          *)
LEMMA DecidingSince ==
  ASSUME TypeOK, [Next]_vars, NEW q \in Requests, Deciding(q)', ~Check(q)
  PROVE  Deciding(q) /\ job'[q].on = job[q].on
<1>1. CASE UNCHANGED vars
  BY <1>1 DEF vars, Deciding
<1>2. ASSUME NEW r \in Requests, NEW a \in Approvals, NEW d \in Decisions,
             Submit(r, a, d)
      PROVE  Deciding(q) /\ job'[q].on = job[q].on
  BY <1>2 DEF Submit, Deciding, TypeOK
<1>3. ASSUME NEW r \in Requests, r # q, Handler(r) \/ Fail(r)
      PROVE  Deciding(q) /\ job'[q].on = job[q].on
  <2>1. job'[q] = job[q]
    BY <1>3 DEF Handler, Fail, Check, MarkExpired, Record, Lookup, Resolve, RunTool,
       Consume, Plan, Mark, NotPending, Decided, Goto, Refuse, Answer, Leave, TypeOK
  <2>. QED
    BY <2>1 DEF Deciding
<1>4. ASSUME Handler(q) \/ Fail(q)
      PROVE  FALSE
  <2>1. \/ \E step \in Steps \ {"record", "expire"} : Goto(q, step)
        \/ Leave(q)
    BY <1>4 DEF Handler, Fail, MarkExpired, Record, Lookup, Resolve, RunTool,
       Consume, Plan, Mark, Decided, Refuse, Answer, Steps
  <2>2. job[q] \in Active \cup {Idle} /\ job \in [Requests -> Active \cup {Idle}]
    BY DEF TypeOK
  <2>3. job'[q].pc \notin {"record", "expire"}
    <3>1. CASE Leave(q)
      BY <2>2, <3>1 DEF Leave, Idle
    <3>2. ASSUME NEW step \in Steps \ {"record", "expire"}, Goto(q, step)
          PROVE  job'[q].pc = step
      BY <2>2, <3>2 DEF Goto, Active, Idle
    <3>. QED
      BY <2>1, <3>1, <3>2
  <2>. QED
    BY <2>3 DEF Deciding
<1>5. CASE Crash
  BY <1>5 DEF Crash, Deciding, Idle
<1>6. ASSUME \/ \E a \in Approvals : Expire(a)
             \/ \E v \in Access : ChangeAccess(v)
      PROVE  Deciding(q) /\ job'[q].on = job[q].on
  BY <1>6 DEF Expire, ChangeAccess, Deciding, watch
<1>. QED
  BY <1>1, <1>2, <1>3, <1>4, <1>5, <1>6 DEF Next

LEMMA ContestedKept == [Next]_vars => contested \subseteq contested'
BY DEF Next, vars, Handler, Submit, Check, Meets, MarkExpired, Record, Lookup, Resolve,
   RunTool, Consume, Plan, Mark, Fail, Crash, Expire, ChangeAccess, history

LEMMA ApartNext ==
  ASSUME TypeOK, [Next]_vars, \A r, q \in Requests : Apart(r, q),
         NEW r \in Requests, NEW q \in Requests
  PROVE  Apart(r, q)'
<1>. SUFFICES ASSUME r # q, Deciding(r)', Deciding(q)', job'[r].on = job'[q].on
              PROVE  job'[r].on \in contested'
  BY DEF Apart
<1>1. CASE ~Check(r) /\ ~Check(q)
  <2>1. job[r].on \in contested /\ job'[r].on = job[r].on
    BY <1>1, DecidingSince DEF Apart
  <2>. QED
    BY <2>1, ContestedKept
<1>2. ASSUME NEW p \in Requests, NEW o \in Requests, p # o, Check(p),
             Deciding(p)', Deciding(o)', job'[p].on = job'[o].on
      PROVE  job'[p].on \in contested'
  <2>1. job[p] # Idle
    BY <1>2, ActiveJob DEF Check
  <2>2. job'[o] = job[o] /\ job'[p].on = job[p].on
    <3>1. Goto(p, "expire") \/ Goto(p, "record") \/ Goto(p, "lookup") \/ Refuse(p)
      BY <1>2 DEF Check, NotPending
    <3>2. ~Refuse(p)
      BY <1>2, RefuseEffect DEF Deciding
    <3>. QED
      BY <1>2, <2>1, <3>1, <3>2, GotoEffect
  <2>3. Deciding(o) /\ job[o].on = job[p].on
    BY <1>2, <2>2 DEF Deciding
  <2>4. Meets(p)
    BY <1>2, <2>1, GotoEffect, RefuseEffect DEF Check, NotPending, Deciding
  <2>. QED
    BY <2>2, <2>3, <2>4 DEF Meets
<1>. QED
  BY <1>1, <1>2

LEMMA RejectedTold ==
  ASSUME TypeOK, NEW r \in Requests, job[r] # Idle, Answer(r, "rejected")
  PROVE  \A a \in Approvals :
           "rejected" \in told'[a] => a = job[r].on \/ "rejected" \in told[a]
BY DEF Answer, TypeOK, Active, Idle

LEMMA ExecutedTold ==
  ASSUME TypeOK, NEW r \in Requests, job[r] # Idle, Answer(r, "executed")
  PROVE  \A a \in Approvals : "rejected" \in told'[a] => "rejected" \in told[a]
BY DEF Answer, TypeOK, Active, Idle

(* A request goes on with its approval and nothing else moves.             *)
LEMMA StaysInStep ==
  ASSUME TypeOK, NEW r \in Requests, job[r] # Idle, InStep(r),
         job[r].pc \in {"resolve", "run", "consume", "plan", "mark"},
         NEW step \in {"run", "consume", "plan", "mark"}, Goto(r, step),
         NEW q \in Requests, InStep(q), contested' = contested,
         \A a \in Approvals : status[a] # "absent" => status'[a] = status[a]
  PROVE  InStep(q)'
<1>1. CASE q = r
  BY <1>1, GotoEffect, ActiveJob DEF InStep, Deciding
<1>2. CASE q # r
  BY <1>2, GotoEffect, ActiveJob DEF InStep, Deciding
<1>. QED
  BY <1>1, <1>2

LEMMA OutcomeNext ==
  ASSUME OutcomeInv, [Next]_vars
  PROVE  OutcomeInv'
<1>. USE ApprovalsAssumption
<1>0. TypeOK /\ SafetyInv'
  BY SafetyNext DEF OutcomeInv, SafetyInv
<1>c. \A r, p \in Requests : Apart(r, p)'
  BY <1>0, ApartNext DEF OutcomeInv
<1>. SUFFICES ASSUME NEW q \in Requests, NEW x \in Approvals
              PROVE  InStep(q)' /\ Settled(x)'
  BY <1>0, <1>c, ApprovalsAssumption DEF OutcomeInv
<1>a. /\ \A r \in Requests : InStep(r) /\ Backed(r)
      /\ \A r, p \in Requests : Apart(r, p)
      /\ \A a \in Approvals : Settled(a)
  BY DEF OutcomeInv, SafetyInv
<1>b. \A p \in Requests : job[p].pc # "idle" => job[p].on \in Approvals
  BY <1>0, ActiveJob
<1>1. CASE UNCHANGED vars
  BY <1>1, <1>a DEF vars, InStep, Deciding, Settled
<1>2. ASSUME NEW r \in Requests, NEW a \in Approvals, NEW d \in Decisions,
             Submit(r, a, d)
      PROVE  InStep(q)' /\ Settled(x)'
  <2>1. /\ \A p \in Requests \ {r} : job'[p] = job[p]
        /\ job'[r] = [pc |-> "check", on |-> a, decision |-> d]
    BY <1>0, <1>2 DEF Submit, TypeOK
  <2>. QED
    BY <1>2, <1>a, <2>1 DEF Submit, InStep, Deciding, Settled, store, history
<1>3. ASSUME NEW r \in Requests, Check(r)
      PROVE  InStep(q)' /\ Settled(x)'
  <2>1. job[r] # Idle /\ status' = status /\ runs' = runs
    BY <1>0, <1>3, ActiveJob DEF Check, store
  <2>2. contested \subseteq contested'
    BY ContestedKept
  <2>3. CASE NotPending(r)
    BY <1>0, <1>a, <2>1, <2>2, <2>3, GotoEffect, RefuseEffect
       DEF NotPending, InStep, Deciding, Settled
  <2>4. CASE status[job[r].on] = "pending" /\ (Goto(r, "expire") \/ Goto(r, "record"))
    BY <1>0, <1>a, <2>1, <2>2, <2>4, GotoEffect DEF InStep, Deciding, Settled
  <2>. QED
    BY <1>3, <2>3, <2>4 DEF Check
<1>15. ASSUME NEW r \in Requests, MarkExpired(r)
       PROVE  InStep(q)' /\ Settled(x)'
  <2>1. /\ job[r] # Idle /\ job[r].on \in Approvals /\ Deciding(r)
        /\ runs' = runs /\ contested' = contested
        /\ \A a \in Approvals \ {job[r].on} : status'[a] = status[a]
    BY <1>0, <1>15, ActiveJob DEF MarkExpired, Deciding, TypeOK
  <2>2. /\ \A p \in Requests \ {r} : job'[p] = job[p]
        /\ ~Deciding(r)' /\ job'[r].pc = "idle" /\ told' = told
    BY <1>0, <1>15, RefuseEffect DEF MarkExpired, Deciding
  <2>3. InStep(q)'
    <3>1. CASE q = r
      BY <2>2, <3>1 DEF InStep
    <3>2. CASE q # r
      BY <1>a, <1>b, <2>1, <2>2, <3>2 DEF InStep, Apart, Deciding
    <3>. QED
      BY <3>1, <3>2
  <2>4. Settled(x)'
    BY <1>a, <2>1, <2>2 DEF InStep, Settled
  <2>. QED
    BY <2>3, <2>4
<1>4. ASSUME NEW r \in Requests, Record(r)
      PROVE  InStep(q)' /\ Settled(x)'
  <2>1. /\ job[r] # Idle /\ job[r].on \in Approvals /\ Deciding(r)
        /\ job[r].decision \in {"approved", "rejected"}
        /\ runs' = runs /\ contested' = contested
    BY <1>0, <1>4, ActiveJob DEF Record, Active, Decisions, Deciding
  <2>2. /\ status'[job[r].on] = job[r].decision
        /\ \A a \in Approvals \ {job[r].on} : status'[a] = status[a]
    BY <1>0, <1>4, <2>1 DEF Record, Recorded, TypeOK
  <2>3. CASE Goto(r, "resolve")
    <3>1. InStep(q)'
      <4>1. CASE q = r
        BY <1>0, <2>1, <2>2, <2>3, <4>1, GotoEffect DEF InStep, Deciding
      <4>2. CASE q # r
        BY <1>0, <1>a, <1>b, <2>1, <2>2, <2>3, <4>2, GotoEffect
           DEF InStep, Apart, Deciding
      <4>. QED
        BY <4>1, <4>2
    <3>2. Settled(x)'
      BY <1>0, <1>a, <2>1, <2>2, <2>3, GotoEffect DEF InStep, Settled
    <3>. QED
      BY <3>1, <3>2
  <2>4. CASE job[r].decision = "rejected" /\ Answer(r, "rejected")
    <3>1. InStep(q)'
      <4>1. CASE q = r
        BY <1>0, <2>1, <2>4, <4>1, AnswerEffect DEF InStep, Deciding
      <4>2. CASE q # r
        BY <1>0, <1>a, <1>b, <2>1, <2>2, <2>4, <4>2, AnswerEffect
           DEF InStep, Apart, Deciding
      <4>. QED
        BY <4>1, <4>2
    <3>2. Settled(x)'
      BY <1>0, <1>a, <2>1, <2>2, <2>4, RejectedTold DEF InStep, Settled
    <3>. QED
      BY <3>1, <3>2
  <2>. QED
    BY <1>4, <2>1, <2>3, <2>4 DEF Record, Decided
<1>5. ASSUME NEW r \in Requests, Lookup(r)
      PROVE  InStep(q)' /\ Settled(x)'
  <2>1. job[r] # Idle /\ job[r].on \in Approvals
    BY <1>0, <1>5, ActiveJob DEF Lookup
  <2>2. CASE Retryable(job[r].on) /\ Goto(r, "resolve")
    <3>1. /\ \A p \in Requests \ {r} : job'[p] = job[p]
          /\ job'[r].pc = "resolve" /\ job'[r].on = job[r].on
          /\ job'[r].decision = job[r].decision
          /\ saw' = saw /\ told' = told
      BY <1>0, <2>1, <2>2, GotoEffect
    <3>2. /\ status' = status /\ runs' = runs /\ contested' = contested
          /\ job[r].pc = "lookup"
      BY <1>5 DEF Lookup, store, history
    <3>3. InStep(q)'
      <4>1. CASE q = r
        <5>1. job[r].decision = "approved" /\ status[job[r].on] = "approved"
          BY <1>a, <2>2, <3>2, <4>1 DEF Backed, Retryable, OutcomeInv, SafetyInv
        <5>. QED
          BY <3>1, <3>2, <4>1, <5>1 DEF InStep, Deciding
      <4>2. CASE q # r
        <5>1. job'[q] = job[q]
          BY <3>1, <4>2
        <5>. QED
          BY <1>a, <3>2, <5>1 DEF InStep, Deciding
      <4>. QED
        BY <4>1, <4>2
    <3>4. Settled(x)'
      BY <1>a, <3>1, <3>2 DEF Settled
    <3>. QED
      BY <3>3, <3>4
  <2>3. CASE Refuse(r)
    BY <1>0, <1>5, <1>a, <2>1, <2>3, RefuseEffect
       DEF Lookup, InStep, Deciding, Settled, store
  <2>4. CASE Answer(r, "executed")
    <3>1. InStep(q)'
      BY <1>0, <1>5, <1>a, <2>1, <2>4, AnswerEffect DEF Lookup, InStep, Deciding, store
    <3>2. Settled(x)'
      <4>1. status' = status /\ runs' = runs /\ contested' = contested
        BY <1>5 DEF Lookup, store
      <4>2. "rejected" \in told'[x] => "rejected" \in told[x]
        BY <1>0, <2>1, <2>4, AnswerEffect
      <4>. QED
        BY <1>a, <4>1, <4>2 DEF Settled
    <3>. QED
      BY <3>1, <3>2
  <2>. QED
    BY <1>5, <2>2, <2>3, <2>4 DEF Lookup
<1>6. ASSUME NEW r \in Requests, Resolve(r)
      PROVE  InStep(q)' /\ Settled(x)'
  <2>1. job[r] # Idle /\ job[r].on \in Approvals
    BY <1>0, <1>6, ActiveJob DEF Resolve
  <2>2. CASE Goto(r, "run") \/ Goto(r, "consume")
    <3>1. InStep(q)'
      BY <1>0, <1>6, <1>a, <2>1, <2>2, StaysInStep DEF Resolve, store
    <3>2. Settled(x)'
      BY <1>0, <1>6, <1>a, <2>1, <2>2, GotoEffect DEF Resolve, Settled, store
    <3>. QED
      BY <3>1, <3>2
  <2>3. CASE Refuse(r)
    BY <1>0, <1>6, <1>a, <2>1, <2>3, RefuseEffect
       DEF Resolve, InStep, Deciding, Settled, store
  <2>4. CASE job[r].decision = "rejected" /\ Answer(r, "rejected")
    <3>1. InStep(q)'
      BY <1>0, <1>6, <1>a, <2>1, <2>4, AnswerEffect DEF Resolve, InStep, Deciding, store
    <3>2. Settled(x)'
      BY <1>0, <1>6, <1>a, <2>1, <2>4, RejectedTold
         DEF Resolve, InStep, Deciding, Settled, store
    <3>. QED
      BY <3>1, <3>2
  <2>. QED
    BY <1>6, <2>2, <2>3, <2>4 DEF Resolve
<1>7. ASSUME NEW r \in Requests, RunTool(r)
      PROVE  InStep(q)' /\ Settled(x)'
  <2>1. /\ job[r] # Idle /\ job[r].on \in Approvals
        /\ job[r].on \notin contested =>
             status[job[r].on] \in {"approved", "executed"}
    BY <1>0, <1>7, <1>a, ActiveJob DEF RunTool, InStep, Backed
  <2>2. \A a \in Approvals \ {job[r].on} : runs'[a] = runs[a]
    BY <1>0, <1>7 DEF RunTool, TypeOK
  <2>. QED
    BY <1>0, <1>7, <1>a, <2>1, <2>2, GotoEffect
       DEF RunTool, InStep, Deciding, Settled, store
<1>8. ASSUME NEW r \in Requests, Consume(r)
      PROVE  InStep(q)' /\ Settled(x)'
  <2>1. job[r] # Idle /\ job[r].on \in Approvals
    BY <1>0, <1>8, ActiveJob DEF Consume
  <2>2. CASE Goto(r, "plan") \/ Goto(r, "mark")
    <3>1. InStep(q)'
      BY <1>0, <1>8, <1>a, <2>1, <2>2, StaysInStep DEF Consume, store
    <3>2. Settled(x)'
      BY <1>0, <1>8, <1>a, <2>1, <2>2, GotoEffect DEF Consume, Settled, store
    <3>. QED
      BY <3>1, <3>2
  <2>3. CASE job[r].decision # "approved" /\ Answer(r, "rejected")
    <3>1. InStep(q)'
      BY <1>0, <1>8, <1>a, <2>1, <2>3, AnswerEffect DEF Consume, InStep, Deciding, store
    <3>2. Settled(x)'
      BY <1>0, <1>8, <1>a, <2>1, <2>3, RejectedTold
         DEF Consume, InStep, Deciding, Settled, store
    <3>. QED
      BY <3>1, <3>2
  <2>. QED
    BY <1>8, <2>2, <2>3 DEF Consume
<1>9. ASSUME NEW r \in Requests, Plan(r)
      PROVE  InStep(q)' /\ Settled(x)'
  <2>1. job[r] # Idle /\ job[r].on \in Approvals
    BY <1>0, <1>9, ActiveJob DEF Plan
  <2>2. \A a \in Approvals : status[a] # "absent" => status'[a] = status[a]
    BY <1>0, <1>9 DEF Plan, Opens, TypeOK
  <2>3. CASE Goto(r, "mark")
    <3>1. InStep(q)'
      BY <1>0, <1>9, <1>a, <2>1, <2>2, <2>3, StaysInStep DEF Plan
    <3>2. Settled(x)'
      BY <1>0, <1>9, <1>a, <2>1, <2>2, <2>3, GotoEffect DEF Plan, Settled
    <3>. QED
      BY <3>1, <3>2
  <2>4. CASE job[r].decision # "approved" /\ Answer(r, "rejected")
    <3>1. InStep(q)'
      BY <1>0, <1>9, <1>a, <2>1, <2>2, <2>4, AnswerEffect, ActiveJob
         DEF Plan, InStep, Deciding
    <3>2. Settled(x)'
      BY <1>0, <1>9, <1>a, <2>1, <2>2, <2>4, RejectedTold
         DEF Plan, InStep, Deciding, Settled
    <3>. QED
      BY <3>1, <3>2
  <2>. QED
    BY <1>9, <2>3, <2>4 DEF Plan
<1>10. ASSUME NEW r \in Requests, Mark(r)
       PROVE  InStep(q)' /\ Settled(x)'
  <2>1. /\ job[r] # Idle /\ job[r].on \in Approvals
        /\ job[r].on \notin contested =>
             status[job[r].on] \in {"approved", "executed"}
    BY <1>0, <1>10, <1>a, ActiveJob DEF Mark, InStep, Backed
  <2>2. /\ status'[job[r].on] = "executed"
        /\ \A a \in Approvals \ {job[r].on} : status'[a] = status[a]
    BY <1>0, <1>10, <2>1 DEF Mark, TypeOK
  <2>3. InStep(q)'
    <3>1. CASE q = r
      BY <1>0, <1>10, <2>1, <3>1, AnswerEffect DEF Mark, InStep, Deciding
    <3>2. CASE q # r
      BY <1>0, <1>10, <1>a, <1>b, <2>1, <2>2, <3>2, AnswerEffect DEF Mark, InStep, Deciding
    <3>. QED
      BY <3>1, <3>2
  <2>4. Settled(x)'
    <3>1. "rejected" \in told'[x] => "rejected" \in told[x]
      BY <1>0, <1>10, <2>1, ExecutedTold DEF Mark
    <3>. QED
      BY <1>10, <1>a, <2>1, <2>2, <3>1 DEF Mark, Settled
  <2>. QED
    BY <2>3, <2>4
<1>11. ASSUME NEW r \in Requests, Fail(r)
       PROVE  InStep(q)' /\ Settled(x)'
  <2>1. \A a \in Approvals : status[a] # "absent" => status'[a] = status[a]
    BY <1>0, <1>11 DEF Fail, Opens, TypeOK
  <2>. QED
    BY <1>0, <1>11, <1>a, <2>1, RefuseEffect, ActiveJob DEF Fail, InStep, Deciding, Settled
<1>12. CASE Crash
  BY <1>12, <1>a DEF Crash, InStep, Deciding, Settled, Idle, store
<1>13. ASSUME NEW a \in Approvals, Expire(a)
       PROVE  InStep(q)' /\ Settled(x)'
  BY <1>13, <1>a DEF Expire, InStep, Deciding, Settled, store, watch, history
<1>14. ASSUME NEW v \in Access, ChangeAccess(v)
       PROVE  InStep(q)' /\ Settled(x)'
  BY <1>14, <1>a DEF ChangeAccess, InStep, Deciding, Settled, store, history
<1>. QED
  BY <1>1, <1>2, <1>3, <1>4, <1>5, <1>6, <1>7, <1>8, <1>9, <1>10, <1>11,
     <1>12, <1>13, <1>14, <1>15 DEF Next, Handler

LEMMA Outcomes == Spec => []OutcomeInv
BY OutcomeInit, OutcomeNext, PTL DEF Spec

(***************************************************************************)
(* A rejection that a reviewer was told of is final: the call has not run  *)
(* and never will, unless another decision had read the row as pending     *)
(* before the rejection was written, or the rejection had before the other *)
(* was, which decide lets happen.                                          *)
(***************************************************************************)
THEOREM RejectionIsFinal == Spec => []RejectionStands
<1>1. OutcomeInv => RejectionStands
  <2>. SUFFICES ASSUME OutcomeInv, NEW a \in Approvals, "rejected" \in told[a],
                       a \notin contested
                PROVE  runs[a] = 0
    BY DEF RejectionStands
  <2>1. Settled(a) /\ runs[a] \in Nat
    BY ApprovalsAssumption DEF OutcomeInv, SafetyInv, TypeOK
  <2>. QED
    BY <2>1 DEF Settled
<1>. QED
  BY <1>1, Outcomes, PTL

----------------------------------------------------------------------------
(* The mechanism implements its contract.                                  *)

Outcome == [a \in Approvals |-> IF a \in contested THEN "contested" ELSE status[a]]

LEMMA ContractInit == Init => Contract!Init
<1>. SUFFICES ASSUME Init PROVE Contract!Init
  OBVIOUS
<1>1. {a \in Approvals : runs[a] > 0} = {}
  <2>1. \A a \in Approvals : runs[a] = 0
    BY DEF Init
  <2>. QED
    BY <2>1
<1>2. PICK a \in Approvals :
        status = [x \in Approvals |-> IF x = a THEN "pending" ELSE "absent"]
  BY DEF Init
<1>3. Outcome = [x \in Approvals |-> IF x = a THEN "pending" ELSE "absent"]
  BY <1>2 DEF Outcome, Init
<1>. QED
  BY <1>1, <1>3 DEF Contract!Init, Outcome

(* A step that leaves outcomes and executions alone is invisible.          *)
LEMMA Invisible ==
  ASSUME Outcome' = Outcome, runs' = runs
  PROVE  UNCHANGED Contract!vars
BY DEF Contract!vars, Outcome

(* The UPDATE behind a check: it shows only when the decision was the only *)
(* one.                                                                    *)
LEMMA WritesOutcome ==
  ASSUME OutcomeInv, NEW r \in Requests, Deciding(r), job[r].on \in Approvals,
         NEW o \in {"approved", "rejected", "expired"},
         status' = [status EXCEPT ![job[r].on] = o],
         contested' = contested, runs' = runs
  PROVE  [Contract!Next]_(Contract!vars)
<1>1. InStep(r) /\ TypeOK
  BY DEF OutcomeInv, SafetyInv
<1>2. CASE job[r].on \in contested
  <2>1. Outcome' = Outcome
    BY <1>1, <1>2 DEF Outcome, TypeOK
  <2>. QED
    BY <2>1, Invisible
<1>3. CASE job[r].on \notin contested
  <2>1. /\ Outcome[job[r].on] = "pending"
        /\ Outcome' = [Outcome EXCEPT ![job[r].on] = o]
    BY <1>1, <1>3 DEF Outcome, InStep, TypeOK
  <2>2. PICK a \in Approvals : a = job[r].on
    OBVIOUS
  <2>3. Contract!Decide(a)
    BY <2>1, <2>2 DEF Contract!Decide, Outcome
  <2>. QED
    BY <2>3 DEF Contract!Next
<1>. QED
  BY <1>2, <1>3

LEMMA ContractNext ==
  ASSUME OutcomeInv, [Next]_vars
  PROVE  [Contract!Next]_(Contract!vars)
<1>. USE ApprovalsAssumption
<1>0. /\ TypeOK
      /\ \A r \in Requests : InStep(r) /\ Backed(r)
  BY DEF OutcomeInv, SafetyInv
<1>1. CASE UNCHANGED <<status, runs, contested>>
  BY <1>1, Invisible DEF Outcome
<1>2. ASSUME NEW r \in Requests, Check(r)
      PROVE  [Contract!Next]_(Contract!vars)
  <2>1. job[r].on \in Approvals /\ status' = status /\ runs' = runs
    BY <1>0, <1>2, ActiveJob DEF Check, store
  <2>2. CASE Outcome' = Outcome
    BY <2>1, <2>2, Invisible
  <2>3. CASE Outcome' # Outcome
    <3>1. contested' = contested \cup {job[r].on} /\ job[r].on \notin contested
      BY <1>2, <2>1, <2>3 DEF Check, Meets, Outcome
    <3>2. status[job[r].on] = "pending"
      BY <1>2, <3>1 DEF Check
    <3>3. /\ Outcome[job[r].on] = "pending"
          /\ Outcome' = [Outcome EXCEPT ![job[r].on] = "contested"]
      BY <2>1, <3>1, <3>2 DEF Outcome
    <3>4. PICK a \in Approvals : a = job[r].on
      BY <2>1
    <3>5. Contract!Decide(a)
      BY <2>1, <3>3, <3>4 DEF Contract!Decide, Outcome
    <3>. QED
      BY <3>5 DEF Contract!Next
  <2>. QED
    BY <2>2, <2>3
<1>6. ASSUME NEW r \in Requests, MarkExpired(r) \/ Record(r)
      PROVE  [Contract!Next]_(Contract!vars)
  <2>1. /\ job[r].on \in Approvals /\ job[r].decision \in {"approved", "rejected"}
        /\ Deciding(r) /\ contested' = contested /\ runs' = runs
    BY <1>0, <1>6, ActiveJob DEF MarkExpired, Record, Deciding, Active, Decisions
  <2>2. \E o \in {"approved", "rejected", "expired"} :
          status' = [status EXCEPT ![job[r].on] = o]
    BY <1>6, <2>1 DEF MarkExpired, Record, Recorded, ExpiredStatus
  <2>. QED
    BY <2>1, <2>2, WritesOutcome
<1>3. ASSUME NEW r \in Requests, RunTool(r)
      PROVE  [Contract!Next]_(Contract!vars)
  <2>1. /\ job[r].on \in Approvals
        /\ Outcome[job[r].on] \in {"approved", "executed", "contested"}
    BY <1>0, <1>3, ActiveJob DEF RunTool, InStep, Backed, Outcome
  <2>2. /\ Outcome' = Outcome
        /\ runs'[job[r].on] = runs[job[r].on] + 1
        /\ \A a \in Approvals \ {job[r].on} : runs'[a] = runs[a]
    BY <1>0, <1>3, <2>1 DEF RunTool, TypeOK, store, Outcome
  <2>3. runs[job[r].on] \in Nat
    BY <1>0, <2>1 DEF TypeOK
  <2>4. {a \in Approvals : runs'[a] > 0}
          = {a \in Approvals : runs[a] > 0} \cup {job[r].on}
    BY <2>1, <2>2, <2>3
  <2>5. PICK a \in Approvals : a = job[r].on
    BY <2>1
  <2>6. Contract!RunTool(a)
    BY <2>1, <2>2, <2>4, <2>5 DEF Contract!RunTool, Outcome
  <2>. QED
    BY <2>6 DEF Contract!Next
<1>4. ASSUME NEW b \in Approvals, Opens(b), runs' = runs, contested' = contested
      PROVE  [Contract!Next]_(Contract!vars)
  <2>1. CASE b \in contested
    <3>1. Outcome' = Outcome
      BY <1>0, <1>4, <2>1 DEF Opens, Outcome, TypeOK
    <3>. QED
      BY <1>4, <3>1, Invisible
  <2>2. CASE b \notin contested
    <3>1. Outcome[b] = "absent" /\ Outcome' = [Outcome EXCEPT ![b] = "pending"]
      BY <1>0, <1>4, <2>2 DEF Opens, Outcome, TypeOK
    <3>2. Contract!Open(b)
      BY <1>4, <3>1 DEF Contract!Open, Outcome
    <3>. QED
      BY <3>2 DEF Contract!Next
  <2>. QED
    BY <2>1, <2>2
<1>5. ASSUME NEW r \in Requests, Mark(r)
      PROVE  [Contract!Next]_(Contract!vars)
  <2>1. /\ job[r].on \in Approvals
        /\ job[r].on \notin contested =>
             status[job[r].on] \in {"approved", "executed"}
        /\ runs[job[r].on] > 0
    BY <1>0, <1>5, ActiveJob DEF Mark, InStep, Backed
  <2>2. /\ runs' = runs /\ contested' = contested
        /\ status' = [status EXCEPT ![job[r].on] = "executed"]
    BY <1>5 DEF Mark
  <2>3. CASE job[r].on \in contested \/ status[job[r].on] = "executed"
    <3>1. Outcome' = Outcome
      BY <1>0, <2>1, <2>2, <2>3 DEF TypeOK, Outcome
    <3>. QED
      BY <2>2, <3>1, Invisible
  <2>4. CASE job[r].on \notin contested /\ status[job[r].on] = "approved"
    <3>1. /\ Outcome[job[r].on] = "approved"
          /\ Outcome' = [Outcome EXCEPT ![job[r].on] = "executed"]
      BY <1>0, <2>1, <2>2, <2>4 DEF Outcome, TypeOK
    <3>2. PICK a \in Approvals : a = job[r].on
      BY <2>1
    <3>3. Contract!Close(a)
      BY <2>1, <2>2, <3>1, <3>2 DEF Contract!Close, Outcome
    <3>. QED
      BY <3>3 DEF Contract!Next
  <2>. QED
    BY <2>1, <2>3, <2>4
<1>7. ASSUME NEW r \in Requests, Handler(r)
      PROVE  \/ UNCHANGED <<status, runs, contested>>
             \/ Check(r) \/ MarkExpired(r) \/ Record(r) \/ RunTool(r) \/ Mark(r)
             \/ \E b \in Approvals : Opens(b) /\ runs' = runs /\ contested' = contested
  <2>1. Lookup(r) \/ Resolve(r) \/ Consume(r) => UNCHANGED <<status, runs, contested>>
    BY DEF Lookup, Resolve, Consume, store
  <2>2. Plan(r) =>
          \/ UNCHANGED <<status, runs, contested>>
          \/ \E b \in Approvals : Opens(b) /\ runs' = runs /\ contested' = contested
    BY DEF Plan
  <2>. QED
    BY <1>7, <2>1, <2>2 DEF Handler
<1>8. ASSUME NEW r \in Requests, Fail(r)
      PROVE  \/ UNCHANGED <<status, runs, contested>>
             \/ \E b \in Approvals : Opens(b) /\ runs' = runs /\ contested' = contested
  BY <1>8 DEF Fail
<1>9. ASSUME \/ \E r \in Requests, a \in Approvals, d \in Decisions : Submit(r, a, d)
             \/ Crash
             \/ \E a \in Approvals : Expire(a)
             \/ \E v \in Access : ChangeAccess(v)
             \/ UNCHANGED vars
      PROVE  UNCHANGED <<status, runs, contested>>
  BY <1>9 DEF Submit, Crash, Expire, ChangeAccess, vars, store, history
<1>. QED
  BY <1>1, <1>2, <1>3, <1>4, <1>5, <1>6, <1>7, <1>8, <1>9 DEF Next

(***************************************************************************)
(* decide_approval over the PostgreSQL store, both engines and every       *)
(* interleaving of requests, retries, failures and crashes, implements the *)
(* contract a reviewer is offered: an outcome is final unless two          *)
(* decisions were made on the pending row at the same time.                *)
(***************************************************************************)
THEOREM KeepsContract == Spec => ContractSpec
BY ContractInit, ContractNext, Outcomes, PTL DEF Spec, ContractSpec, Contract!Spec

----------------------------------------------------------------------------
(* Why a call is run again.  A request that met no other on its approval   *)
(* finds the call not run, recorded, or left by an attempt that failed.    *)

\* Two requests at work on one approval have both met another.
Together(r, q) ==
  /\ r # q /\ job[r].pc # "idle" /\ job[q].pc # "idle" /\ job[r].on = job[q].on
  => r \in shared /\ q \in shared

\* A call that ran is recorded, about to be recorded, or was given up.
Accounted(a) ==
  runs[a] > 0 /\ a \notin aborted =>
    a \in results \/ \E q \in Requests : job[q].on = a /\ Unrecorded(job[q])

\* The places of the handler behind a recorded decision.
Behind == {"resolve", "run", "consume", "plan", "mark"}

\* An approval nobody decided has no one behind the decision.
Open(a) ==
  status[a] \in {"absent", "pending"} =>
    /\ runs[a] = 0
    /\ \A q \in Requests : job[q].on = a => job[q].pc \notin Behind

\* An approve that is alone on its way to the call is the first to run it,
\* or the retry of an attempt that failed.
First(r) ==
  /\ r \notin shared /\ job[r].decision = "approved"
  /\ job[r].pc \in {"record", "resolve", "run"}
  => runs[job[r].on] = 0 \/ job[r].on \in aborted

RerunInv ==
  /\ SafetyInv
  /\ \A r, q \in Requests : Together(r, q)
  /\ \A a \in Approvals : Accounted(a)
  /\ \A a \in Approvals : Open(a)
  /\ \A r \in Requests : First(r)

\* A step of request r: it goes on with its work, or leaves.
Moves(r) ==
  /\ job[r].pc # "idle"
  /\ \A q \in Requests \ {r} : job'[q] = job[q]
  /\ \/ /\ job'[r].pc # "idle" /\ job'[r].on = job[r].on
        /\ job'[r].decision = job[r].decision
        /\ shared' = shared
     \/ job'[r].pc = "idle" /\ job'[r].on = NoApproval /\ shared' = shared \ {r}

LEMMA GotoMoves ==
  ASSUME TypeOK, NEW r \in Requests, job[r].pc # "idle",
         NEW step \in Steps, Goto(r, step)
  PROVE  Moves(r) /\ job'[r].pc = step
BY ActiveJob DEF Goto, Moves, TypeOK, Active, Steps

LEMMA LeaveMoves ==
  ASSUME TypeOK, NEW r \in Requests, job[r].pc # "idle", Leave(r)
  PROVE  Moves(r) /\ job'[r].pc = "idle"
BY DEF Leave, Moves, TypeOK, Idle

LEMMA HandlerMoves ==
  ASSUME TypeOK, NEW r \in Requests, Handler(r) \/ Fail(r)
  PROVE  Moves(r)
<1>1. job[r].pc # "idle"
  BY DEF Handler, Fail, Check, MarkExpired, Record, Lookup,
         Resolve, RunTool, Consume, Plan, Mark
<1>2. (\E step \in Steps : Goto(r, step)) \/ Leave(r)
  BY DEF Handler, Fail, Check, MarkExpired, Record, Lookup,
         Resolve, RunTool, Consume, Plan, Mark, NotPending, Decided, Refuse,
         Answer, Steps
<1>. QED
  BY <1>1, <1>2, GotoMoves, LeaveMoves

(* A step of r that runs no call keeps the invariant if it loses no        *)
(* execution from sight and goes behind a decision only when there is one. *)
LEMMA RerunKept ==
  ASSUME RerunInv, TypeOK', NEW r \in Requests, Moves(r),
         runs' = runs, aborted \subseteq aborted', results \subseteq results',
         \A a \in Approvals : status'[a] \in {"absent", "pending"} =>
                                status[a] \in {"absent", "pending"},
         Unrecorded(job[r]) =>
           Unrecorded(job'[r]) \/ job[r].on \in results' \cup aborted',
         job'[r].pc \in Behind =>
           \/ job[r].pc \in Behind
           \/ status'[job[r].on] \notin {"absent", "pending"},
         First(r)'
  PROVE  /\ \A p, q \in Requests : Together(p, q)'
         /\ \A a \in Approvals : Accounted(a)'
         /\ \A a \in Approvals : Open(a)'
         /\ \A q \in Requests : First(q)'
<1>. USE ApprovalsAssumption
<1>0. /\ TypeOK
      /\ \A p, q \in Requests : Together(p, q)
      /\ \A a \in Approvals : Accounted(a)
      /\ \A a \in Approvals : Open(a)
      /\ \A q \in Requests : First(q)
  BY DEF RerunInv, SafetyInv
<1>a. job[r].on \in Approvals
  BY <1>0, ActiveJob DEF Moves
<1>1. ASSUME NEW p \in Requests, NEW q \in Requests
      PROVE  Together(p, q)'
  BY <1>0, <1>a DEF Together, Moves
<1>2. ASSUME NEW a \in Approvals
      PROVE  Accounted(a)'
  <2>. SUFFICES ASSUME runs'[a] > 0, a \notin aborted', a \notin results'
                PROVE  \E q \in Requests : job'[q].on = a /\ Unrecorded(job'[q])
    BY DEF Accounted
  <2>1. PICK q \in Requests : job[q].on = a /\ Unrecorded(job[q])
    BY <1>0 DEF Accounted
  <2>2. CASE q = r
    <3>1. Unrecorded(job'[r])
      BY <2>1, <2>2
    <3>2. job'[r].on = a
      BY <2>1, <2>2, <3>1 DEF Moves, Unrecorded
    <3>. QED
      BY <3>1, <3>2
  <2>3. CASE q # r
    BY <2>1, <2>3 DEF Moves
  <2>. QED
    BY <2>2, <2>3
<1>3. ASSUME NEW a \in Approvals
      PROVE  Open(a)'
  <2>. SUFFICES ASSUME status'[a] \in {"absent", "pending"}
                PROVE  /\ runs'[a] = 0
                       /\ \A q \in Requests :
                            job'[q].on = a => job'[q].pc \notin Behind
    BY DEF Open
  <2>1. runs[a] = 0 /\ \A q \in Requests : job[q].on = a => job[q].pc \notin Behind
    BY <1>0 DEF Open
  <2>2. job'[r].on = a => job'[r].pc \notin Behind
    BY <2>1 DEF Moves
  <2>. QED
    BY <2>1, <2>2 DEF Moves
<1>4. ASSUME NEW q \in Requests
      PROVE  First(q)'
  <2>1. CASE q = r
    BY <2>1
  <2>2. CASE q # r
    <3>1. job'[q] = job[q] /\ (q \notin shared' => q \notin shared)
      BY <2>2 DEF Moves
    <3>. QED
      BY <1>0, <3>1 DEF First
  <2>. QED
    BY <2>1, <2>2
<1>. QED
  BY <1>1, <1>2, <1>3, <1>4

LEMMA RerunInit == Init => RerunInv
BY SafetyInit, ApprovalsAssumption
   DEF Init, RerunInv, Together, Accounted, Open, First, Idle, Behind, TypeOK

LEMMA RerunNext ==
  ASSUME RerunInv, [Next]_vars
  PROVE  RerunInv'
<1>. USE ApprovalsAssumption
<1>. DEFINE Rest == /\ \A p, q \in Requests : Together(p, q)
                    /\ \A a \in Approvals : Accounted(a)
                    /\ \A a \in Approvals : Open(a)
                    /\ \A q \in Requests : First(q)
<1>0. TypeOK /\ SafetyInv /\ SafetyInv' /\ TypeOK' /\ Rest
  BY SafetyNext DEF RerunInv, SafetyInv
<1>. SUFFICES Rest'
  BY <1>0 DEF RerunInv
<1>a. \A r \in Requests : Backed(r)
  BY <1>0 DEF SafetyInv
<1>b. ASSUME NEW r \in Requests, job[r].pc # "idle"
      PROVE  /\ job[r].on \in Approvals
             /\ job[r].decision \in {"approved", "rejected"}
  BY <1>0, <1>b, ActiveJob DEF Active, Decisions
<1>c. \A a \in Approvals : runs[a] \in Nat /\ (runs[a] = 0 \/ runs[a] > 0)
  BY <1>0 DEF TypeOK
<1>1. CASE UNCHANGED vars
  BY <1>0, <1>1 DEF vars, Together, Accounted, Open, First
<1>2. ASSUME NEW r \in Requests, NEW a \in Approvals, NEW d \in Decisions,
             Submit(r, a, d)
      PROVE  Rest'
  <2>1. /\ \A p \in Requests \ {r} : job'[p] = job[p]
        /\ job'[r] = [pc |-> "check", on |-> a, decision |-> d]
        /\ \A p \in Requests \ {r} :
             job[p].on = a => p \in shared' /\ r \in shared'
        /\ shared \subseteq shared'
        /\ job[r] = Idle
    BY <1>0, <1>2 DEF Submit, TypeOK
  <2>2. runs' = runs /\ aborted' = aborted /\ results' = results /\ status' = status
    BY <1>2 DEF Submit, store, history
  <2>3. ASSUME NEW p \in Requests, NEW q \in Requests
        PROVE  Together(p, q)'
    BY <1>0, <2>1, <2>3 DEF Together
  <2>4. ASSUME NEW x \in Approvals
        PROVE  Accounted(x)'
    <3>. SUFFICES ASSUME runs[x] > 0, x \notin aborted, x \notin results
                  PROVE  \E q \in Requests : job'[q].on = x /\ Unrecorded(job'[q])
      BY <2>2 DEF Accounted
    <3>1. PICK q \in Requests : job[q].on = x /\ Unrecorded(job[q])
      BY <1>0 DEF Accounted
    <3>2. q # r
      BY <2>1, <3>1 DEF Unrecorded, Idle
    <3>. QED
      BY <2>1, <3>1, <3>2
  <2>5. ASSUME NEW x \in Approvals
        PROVE  Open(x)'
    BY <1>0, <2>1, <2>2, <2>5 DEF Open, Behind
  <2>6. ASSUME NEW q \in Requests
        PROVE  First(q)'
    <3>1. CASE q = r
      BY <2>1, <3>1 DEF First
    <3>2. CASE q # r
      BY <1>0, <2>1, <2>2, <3>2 DEF First
    <3>. QED
      BY <3>1, <3>2
  <2>. QED
    BY <2>3, <2>4, <2>5, <2>6
<1>3. ASSUME NEW r \in Requests, Check(r)
      PROVE  Rest'
  <2>1. Moves(r) /\ job[r].pc = "check"
    BY <1>0, <1>3, HandlerMoves DEF Check, Handler
  <2>2. /\ runs' = runs /\ aborted' = aborted /\ results' = results
        /\ status' = status
    BY <1>3 DEF Check, store
  <2>3. /\ job'[r].pc \in {"lookup", "idle", "expire", "record"}
        /\ job'[r].pc = "record" => status[job[r].on] = "pending"
    BY <1>0, <1>3, <2>1, GotoMoves, LeaveMoves DEF Check, NotPending, Refuse, Steps
  <2>4. First(r)'
    BY <1>0, <1>b, <2>1, <2>2, <2>3 DEF First, Moves, Open
  <2>. QED
    BY <1>0, <2>1, <2>2, <2>3, <2>4, RerunKept DEF Unrecorded, Behind
<1>4. ASSUME NEW r \in Requests, MarkExpired(r)
      PROVE  Rest'
  <2>1. Moves(r) /\ job[r].pc = "expire" /\ job'[r].pc = "idle"
    BY <1>0, <1>4, HandlerMoves, LeaveMoves DEF MarkExpired, Handler, Refuse
  <2>2. /\ runs' = runs /\ aborted' = aborted /\ results' = results
        /\ \A a \in Approvals : status'[a] \in {"absent", "pending"} =>
                                  status[a] \in {"absent", "pending"}
    BY <1>0, <1>4 DEF MarkExpired, ExpiredStatus, TypeOK
  <2>3. First(r)'
    BY <2>1 DEF First
  <2>. QED
    BY <1>0, <2>1, <2>2, <2>3, RerunKept DEF Unrecorded, Behind
<1>5. ASSUME NEW r \in Requests, Record(r)
      PROVE  Rest'
  <2>1. Moves(r) /\ job[r].pc = "record" /\ job'[r].pc \in {"resolve", "idle"}
    BY <1>0, <1>5, HandlerMoves, GotoMoves, LeaveMoves
       DEF Record, Decided, Answer, Handler, Steps
  <2>2. /\ runs' = runs /\ aborted' = aborted /\ results' = results
        /\ status'[job[r].on] \notin {"absent", "pending"}
        /\ \A a \in Approvals : status'[a] \in {"absent", "pending"} =>
                                  status[a] \in {"absent", "pending"}
    BY <1>0, <1>5, <1>b, <2>1 DEF Record, Recorded, TypeOK
  <2>3. First(r)'
    BY <1>0, <2>1, <2>2 DEF First, Moves
  <2>. QED
    BY <1>0, <2>1, <2>2, <2>3, RerunKept DEF Unrecorded
<1>7. ASSUME NEW r \in Requests, Lookup(r)
      PROVE  Rest'
  <2>1. /\ Moves(r) /\ job[r].pc = "lookup"
        /\ runs' = runs /\ aborted' = aborted /\ results' = results
        /\ status' = status
    BY <1>0, <1>7, HandlerMoves DEF Lookup, Handler, store
  <2>2. /\ job'[r].pc \in {"idle", "resolve"}
        /\ job'[r].pc = "resolve" => Retryable(job[r].on)
    BY <1>0, <1>7, <2>1, GotoMoves, LeaveMoves DEF Lookup, Refuse, Answer, Steps
  <2>3. First(r)'
    <3>. SUFFICES ASSUME r \notin shared', job'[r].pc = "resolve",
                         job[r].on \notin aborted
                  PROVE  runs[job[r].on] = 0
      BY <2>1, <2>2 DEF First, Moves
    <3>1. job[r].on \in Approvals /\ job[r].on \notin results /\ r \notin shared
      BY <1>b, <2>1, <2>2 DEF Retryable, Moves
    <3>2. ASSUME NEW q \in Requests, job[q].on = job[r].on, Unrecorded(job[q])
          PROVE  FALSE
      BY <1>0, <2>1, <3>1, <3>2 DEF Together, Unrecorded
    <3>. QED
      BY <1>0, <1>c, <3>1, <3>2 DEF Accounted
  <2>. QED
    BY <1>0, <2>1, <2>2, <2>3, RerunKept DEF Unrecorded, Retryable, Behind
<1>8. ASSUME NEW r \in Requests, Resolve(r)
      PROVE  Rest'
  <2>1. /\ Moves(r) /\ job[r].pc = "resolve"
        /\ runs' = runs /\ aborted' = aborted /\ results' = results
        /\ status' = status
    BY <1>0, <1>8, HandlerMoves DEF Resolve, Handler, store
  <2>2. First(r)'
    BY <1>0, <2>1 DEF First, Moves
  <2>. QED
    BY <1>0, <2>1, <2>2, RerunKept DEF Unrecorded, Behind
<1>9. ASSUME NEW r \in Requests, RunTool(r)
      PROVE  Rest'
  <2>1. /\ Moves(r) /\ job[r].pc = "run" /\ job[r].decision = "approved"
        /\ job'[r].pc \in {"consume", "plan"} /\ aborted' = aborted
        /\ results' = results /\ status' = status
        /\ job[r].on \in Approvals
    BY <1>0, <1>9, <1>a, <1>b, HandlerMoves, GotoMoves
       DEF RunTool, Handler, Backed, store, Steps
  <2>2. /\ job'[r].on = job[r].on /\ job'[r].decision = job[r].decision
        /\ shared' = shared
        /\ \A q \in Requests \ {r} : job'[q] = job[q]
    BY <2>1 DEF Moves
  <2>3. \A a \in Approvals \ {job[r].on} : runs'[a] = runs[a]
    BY <1>0, <1>9 DEF RunTool, TypeOK
  <2>4. ASSUME NEW p \in Requests, NEW q \in Requests
        PROVE  Together(p, q)'
    BY <1>0, <2>1, <2>2 DEF Together
  <2>5. ASSUME NEW a \in Approvals
        PROVE  Accounted(a)'
    <3>1. CASE a = job[r].on
      BY <2>1, <2>2, <3>1 DEF Accounted, Unrecorded
    <3>2. CASE a # job[r].on
      <4>. SUFFICES ASSUME runs[a] > 0, a \notin aborted, a \notin results
                    PROVE  \E q \in Requests : job'[q].on = a /\ Unrecorded(job'[q])
        BY <2>1, <2>3, <3>2 DEF Accounted
      <4>1. PICK q \in Requests : job[q].on = a /\ Unrecorded(job[q])
        BY <1>0 DEF Accounted
      <4>. QED
        BY <2>2, <3>2, <4>1
    <3>. QED
      BY <3>1, <3>2
  <2>6. ASSUME NEW a \in Approvals
        PROVE  Open(a)'
    <3>1. CASE a = job[r].on
      BY <1>0, <2>1, <3>1 DEF Open, Behind
    <3>2. CASE a # job[r].on
      BY <1>0, <2>1, <2>2, <2>3, <3>2 DEF Open
    <3>. QED
      BY <3>1, <3>2
  <2>7. ASSUME NEW q \in Requests
        PROVE  First(q)'
    <3>1. CASE q = r
      BY <2>1, <3>1 DEF First
    <3>2. CASE q # r
      <4>. SUFFICES ASSUME q \notin shared,
                           job[q].pc \in {"record", "resolve", "run"},
                           job[q].decision = "approved"
                    PROVE  runs'[job[q].on] = 0 \/ job[q].on \in aborted
        BY <2>1, <2>2, <3>2 DEF First
      <4>1. job[q].on # job[r].on /\ job[q].on \in Approvals
        BY <1>0, <1>b, <2>1, <3>2 DEF Together
      <4>. QED
        BY <1>0, <2>3, <4>1 DEF First
    <3>. QED
      BY <3>1, <3>2
  <2>. QED
    BY <2>4, <2>5, <2>6, <2>7
<1>10. ASSUME NEW r \in Requests, Consume(r)
       PROVE  Rest'
  <2>1. /\ Moves(r) /\ job[r].pc = "consume"
        /\ runs' = runs /\ aborted' = aborted /\ results' = results
        /\ status' = status
    BY <1>0, <1>10, HandlerMoves DEF Consume, Handler, store
  <2>2. /\ job'[r].pc \in {"plan", "mark", "idle"}
        /\ job[r].decision = "approved" => job'[r].pc \in {"plan", "mark"}
    <3>1. CASE Goto(r, "plan")
      BY <1>0, <2>1, <3>1, GotoMoves DEF Steps
    <3>2. CASE Goto(r, "mark")
      BY <1>0, <2>1, <3>2, GotoMoves DEF Steps
    <3>3. CASE job[r].decision # "approved" /\ Answer(r, "rejected")
      BY <1>0, <2>1, <3>3, LeaveMoves DEF Answer
    <3>. QED
      BY <1>10, <3>1, <3>2, <3>3 DEF Consume
  <2>3. First(r)'
    BY <2>2 DEF First
  <2>4. Unrecorded(job[r]) => Unrecorded(job'[r])
    BY <2>1, <2>2 DEF Unrecorded, Moves
  <2>. QED
    BY <1>0, <2>1, <2>2, <2>3, <2>4, RerunKept DEF Behind
<1>11. ASSUME NEW r \in Requests, Plan(r)
       PROVE  Rest'
  <2>1. /\ Moves(r) /\ job[r].pc = "plan"
        /\ runs' = runs /\ aborted' = aborted /\ results' = results
    BY <1>0, <1>11, HandlerMoves DEF Plan, Handler
  <2>2. /\ job'[r].pc \in {"mark", "idle"}
        /\ job[r].decision = "approved" => job'[r].pc = "mark"
    <3>1. CASE Goto(r, "mark")
      BY <1>0, <2>1, <3>1, GotoMoves DEF Steps
    <3>2. CASE job[r].decision # "approved" /\ Answer(r, "rejected")
      BY <1>0, <2>1, <3>2, LeaveMoves DEF Answer
    <3>. QED
      BY <1>11, <3>1, <3>2 DEF Plan
  <2>3. \A a \in Approvals : status'[a] \in {"absent", "pending"} =>
                               status[a] \in {"absent", "pending"}
    BY <1>0, <1>11 DEF Plan, Opens, TypeOK
  <2>4. First(r)'
    BY <2>2 DEF First
  <2>5. Unrecorded(job[r]) => Unrecorded(job'[r])
    BY <2>1, <2>2 DEF Unrecorded, Moves
  <2>. QED
    BY <1>0, <2>1, <2>2, <2>3, <2>4, <2>5, RerunKept DEF Behind
<1>12. ASSUME NEW r \in Requests, Mark(r)
       PROVE  Rest'
  <2>1. /\ Moves(r) /\ job[r].pc = "mark" /\ job'[r].pc = "idle"
        /\ runs' = runs /\ aborted' = aborted
        /\ results' = results \cup {job[r].on}
    BY <1>0, <1>12, HandlerMoves, LeaveMoves DEF Mark, Handler, Answer
  <2>2. \A a \in Approvals : status'[a] \in {"absent", "pending"} =>
                               status[a] \in {"absent", "pending"}
    BY <1>0, <1>12 DEF Mark, TypeOK
  <2>3. First(r)'
    BY <2>1 DEF First
  <2>. QED
    BY <1>0, <2>1, <2>2, <2>3, RerunKept DEF Behind
<1>13. ASSUME NEW r \in Requests, Fail(r)
       PROVE  Rest'
  <2>1. /\ Moves(r) /\ job'[r].pc = "idle"
        /\ runs' = runs /\ results' = results /\ aborted \subseteq aborted'
        /\ Unrecorded(job[r]) => job[r].on \in aborted'
    BY <1>0, <1>13, HandlerMoves, LeaveMoves DEF Fail, Refuse
  <2>2. \A a \in Approvals : status'[a] \in {"absent", "pending"} =>
                               status[a] \in {"absent", "pending"}
    BY <1>0, <1>13 DEF Fail, Opens, TypeOK
  <2>3. First(r)'
    BY <2>1 DEF First
  <2>. QED
    BY <1>0, <2>1, <2>2, <2>3, RerunKept DEF Behind
<1>14. CASE Crash
  <2>1. /\ \A q \in Requests : job'[q] = Idle
        /\ runs' = runs /\ results' = results /\ status' = status
    BY <1>14 DEF Crash, store
  <2>2. \A q \in Requests : Unrecorded(job[q]) => job[q].on \in aborted'
    BY <1>14 DEF Crash
  <2>3. aborted \subseteq aborted'
    BY <1>14 DEF Crash
  <2>4. \A a \in Approvals : Accounted(a)'
    BY <1>0, <2>1, <2>2, <2>3 DEF Accounted
  <2>. QED
    BY <1>0, <2>1, <2>4 DEF Together, Open, First, Idle, Behind
<1>15. ASSUME NEW a \in Approvals, Expire(a)
       PROVE  Rest'
  BY <1>0, <1>15 DEF Expire, Together, Accounted, Open, First, store, watch, history
<1>16. ASSUME NEW v \in Access, ChangeAccess(v)
       PROVE  Rest'
  BY <1>0, <1>16 DEF ChangeAccess, Together, Accounted, Open, First, store, history
<1>. QED
  BY <1>1, <1>2, <1>3, <1>4, <1>5, <1>7, <1>8, <1>9, <1>10, <1>11,
     <1>12, <1>13, <1>14, <1>15, <1>16 DEF Next, Handler

LEMMA Reruns == Spec => []RerunInv
BY RerunInit, RerunNext, PTL DEF Spec

(***************************************************************************)
(* A saved call is executed a second time only after an attempt that ran   *)
(* it and ended before mark_executed, or while another decide request was  *)
(* at work on the same approval: a retry alone never doubles a call.       *)
(***************************************************************************)
THEOREM RerunsHaveACause == Spec => NoRerunWithoutCause
<1>1. ASSUME RerunInv, [Next]_vars, NEW a \in Approvals,
             runs[a] > 0, runs'[a] > runs[a]
      PROVE  \/ a \in aborted
             \/ \E r \in Requests : job[r].on = a /\ job[r].pc = "run" /\ r \in shared
  <2>1. TypeOK /\ runs[a] \in Nat
    BY <1>1 DEF RerunInv, SafetyInv, TypeOK
  <2>2. runs' # runs
    BY <1>1, <2>1
  <2>3. PICK r \in Requests : RunTool(r)
    BY <1>1, <2>2
       DEF Next, vars, Handler, Submit, Check, MarkExpired, Record,
           Lookup, Resolve, Consume, Plan, Mark, Fail, Crash, Expire,
           ChangeAccess, history
  <2>4. a = job[r].on
    BY <1>1, <2>1, <2>3 DEF RunTool, TypeOK
  <2>5. job[r].pc = "run" /\ job[r].decision = "approved"
    BY <1>1, <2>3 DEF RunTool, RerunInv, SafetyInv, Backed
  <2>6. First(r)
    BY <1>1 DEF RerunInv
  <2>. QED
    BY <1>1, <2>1, <2>4, <2>5, <2>6 DEF First
<1>2. RerunInv /\ [Next]_vars =>
        [\A a \in Approvals :
           (runs[a] > 0 /\ runs'[a] > runs[a]) =>
             \/ a \in aborted
             \/ \E r \in Requests :
                  job[r].on = a /\ job[r].pc = "run" /\ r \in shared]_vars
  BY <1>1
<1>. QED
  BY <1>2, Reruns, PTL DEF Spec, NoRerunWithoutCause
=============================================================================
