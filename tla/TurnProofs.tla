----------------------------- MODULE TurnProofs -----------------------------
(***************************************************************************)
(* Proofs about a turn and the tool calls it makes: module AgentTurn, for  *)
(* any tools, any limit on iterations, any size of a batch and both        *)
(* engines, and module McpPool, which an MCP call of a turn goes through,  *)
(* for any number of requests, connections, versions and sessions.         *)
(*                                                                         *)
(* The invariant of the turn, SegmentInv, says what its nodes hand to each *)
(* other.  The one of the pool, PoolInv, says what each coroutine may rely *)
(* on while it is suspended: it still holds the lock it was given, the key *)
(* it found absent is still absent, the room it made is still there, and   *)
(* none of the sessions it has yet to close is in a call that did not      *)
(* wait.                                                                   *)
(***************************************************************************)
EXTENDS AgentTurn, McpPool, FiniteSetTheorems, SequenceTheorems, TLAPS


----------------------------------------------------------------------------
(* The count of useless observations stays a small number.                 *)
LEMMA TrailingType ==
  ASSUME NEW count \in 0..2, NEW n \in Nat \ {0}, NEW ok \in [1..n -> BOOLEAN]
  PROVE  Trailing(count, ok) \in 0..2
<1>1. Len(ok) = n
  OBVIOUS
<1>2. Cap(count + 1) \in 0..2
  BY DEF Cap
<1>. QED
  BY <1>1, <1>2 DEF Trailing

LEMMA PairType ==
  ASSUME NEW count \in 0..2, NEW a \in BOOLEAN, NEW b \in BOOLEAN
  PROVE  Trailing(count, <<a, b>>) \in 0..2 /\ Trailing(count, <<b>>) \in 0..2
BY DEF Trailing, Cap

(***************************************************************************)
(* The invariant: what the nodes hand to each other.  Each node is entered *)
(* in one status, only a think within the budget leads to a tool call, and *)
(* the steps of a segment are bounded by the iterations of the turn.       *)
(***************************************************************************)
Handover ==
  /\ at \in {"prepare", "think", "execute"} => status = "running"
  /\ at = "execute" => batch \in Batches
  /\ at = "check" =>
       \/ status = "pending_approval"
       \/ status = "running" /\ answer = "text"
  /\ at = "paused" => status = "pending_approval"

Budget ==
  /\ asked <= loops
  /\ asked <= MaxIterations
  /\ at \in {"prepare", "think", "execute", "paused"} => loops <= MaxIterations
  /\ status = "pending_approval" => loops <= MaxIterations

Pace ==
  /\ at = "prepare" => steps = 0
  /\ at = "think" => steps <= 2 * loops + 3
  /\ at = "execute" => steps <= 2 * loops + 2
  /\ at = "check" => steps <= 2 * loops + 3
  /\ at \in AtRest => steps <= 2 * loops + 4

SegmentInv ==
  /\ TurnTypeOK
  /\ Handover
  /\ Budget
  /\ Pace
  /\ GateHolds
  /\ PausesWhole
  /\ EndsWithAnswer

LEMMA TurnInitInv == TurnInit => SegmentInv
<1>. SUFFICES ASSUME TurnInit PROVE SegmentInv
  OBVIOUS
<1>1. TurnTypeOK
  <2>1. ctx \in Contexts /\ catalog \subseteq Tools
    BY DEF TurnInit, Contexts
  <2>2. saved \in Snapshots
    BY DEF TurnInit, Snapshots, NoSnapshot
  <2>3. /\ engine \in Engines /\ at \in Nodes /\ status = "running"
        /\ answer = "none" /\ batch = <<>> /\ ran = {} /\ stopped \in BOOLEAN
    BY DEF TurnInit, Nodes
  <2>4. loops = 0 /\ tail = 0 /\ steps = 0 /\ asked = 0 /\ fails = 0
    BY DEF TurnInit
  <2>5. 0 \in 0..(MaxIterations + 1)
    BY AgentTurnAssumption
  <2>. QED
    BY <2>1, <2>2, <2>3, <2>4, <2>5 DEF TurnTypeOK
<1>2. Handover /\ GateHolds /\ PausesWhole /\ EndsWithAnswer
  BY DEF TurnInit, Handover, GateHolds, PausesWhole, EndsWithAnswer
<1>3. Budget /\ Pace
  BY AgentTurnAssumption DEF TurnInit, Budget, Pace, AtRest
<1>. QED
  BY <1>1, <1>2, <1>3 DEF SegmentInv

LEMMA PrepareInv == SegmentInv /\ Prepare => SegmentInv'
<1>. SUFFICES ASSUME SegmentInv, Prepare PROVE SegmentInv'
  OBVIOUS
<1>. USE AgentTurnAssumption DEF SegmentInv, Prepare
<1>1. TurnTypeOK'
  BY DEF TurnTypeOK, Nodes
<1>2. Handover' /\ GateHolds' /\ PausesWhole' /\ EndsWithAnswer'
  BY DEF Handover, GateHolds, PausesWhole, EndsWithAnswer
<1>3. Budget' /\ Pace'
  BY DEF Budget, Pace, AtRest, TurnTypeOK
<1>. QED
  BY <1>1, <1>2, <1>3

(* A decision to call tools is one of the batches the executor is given.   *)
LEMMA BatchType ==
  ASSUME TurnTypeOK, CallTools
  PROVE  batch' \in Batches
<1>1. PICK n \in 1..MaxBatch : batch' \in [1..n -> catalog]
  BY DEF CallTools
<1>2. batch' \in [1..n -> Tools]
  BY <1>1 DEF TurnTypeOK
<1>. QED
  BY <1>1, <1>2 DEF Batches

LEMMA ThinkInv == SegmentInv /\ Think => SegmentInv'
<1>. SUFFICES ASSUME SegmentInv, Think PROVE SegmentInv'
  OBVIOUS
<1>. USE AgentTurnAssumption DEF SegmentInv
<1>0. /\ at = "think" /\ loops' = loops + 1 /\ steps' = steps + 1 /\ ran' = {}
      /\ status = "running"
      /\ UNCHANGED <<engine, ctx, catalog, status, tail, saved, fails>>
      /\ loops \in Nat /\ asked \in Nat /\ steps \in Nat
      /\ loops <= MaxIterations /\ asked <= loops /\ asked <= MaxIterations
      /\ steps <= 2 * loops + 3
  BY DEF Think, Handover, Budget, Pace, TurnTypeOK
<1>1. GateHolds' /\ PausesWhole'
  BY <1>0 DEF GateHolds, PausesWhole
<1>2. CASE /\ at' = "check" /\ answer' = "text" /\ batch' = <<>>
           /\ stopped' \in BOOLEAN
           /\ \/ asked' = asked
              \/ asked' = asked + 1 /\ loops + 1 <= MaxIterations
  <2>1. TurnTypeOK'
    BY <1>0, <1>2 DEF TurnTypeOK, Nodes
  <2>2. Handover' /\ EndsWithAnswer'
    BY <1>0, <1>2 DEF Handover, EndsWithAnswer
  <2>3. Budget' /\ Pace'
    BY <1>0, <1>2 DEF Budget, Pace, AtRest
  <2>. QED
    BY <1>1, <2>1, <2>2, <2>3
<1>3. CASE /\ at' = "execute" /\ batch' \in Batches
           /\ asked' = asked + 1 /\ loops + 1 <= MaxIterations
           /\ UNCHANGED <<answer, stopped>>
  <2>1. TurnTypeOK'
    BY <1>0, <1>3 DEF TurnTypeOK, Nodes
  <2>2. Handover' /\ EndsWithAnswer'
    BY <1>0, <1>3 DEF Handover, EndsWithAnswer
  <2>3. Budget' /\ Pace'
    BY <1>0, <1>3 DEF Budget, Pace, AtRest
  <2>. QED
    BY <1>1, <2>1, <2>2, <2>3
<1>4. CASE Decline
  BY <1>2, <1>4 DEF Decline
<1>5. CASE Consult /\ Reply
  <2>1. asked' = asked + 1 /\ loops + 1 <= MaxIterations
    BY <1>0, <1>5 DEF Consult, Counted
  <2>. QED
    BY <1>2, <1>5, <2>1 DEF Reply, TurnTypeOK
<1>6. CASE Consult /\ CallTools
  <2>1. batch' \in Batches
    BY <1>6, BatchType
  <2>2. asked' = asked + 1 /\ loops + 1 <= MaxIterations
    BY <1>0, <1>6 DEF Consult, Counted
  <2>. QED
    BY <1>3, <1>6, <2>1, <2>2 DEF CallTools
<1>. QED
  BY <1>4, <1>5, <1>6 DEF Think, Consult

LEMMA ExecuteInv == SegmentInv /\ Execute => SegmentInv'
<1>. SUFFICES ASSUME SegmentInv, Execute PROVE SegmentInv'
  OBVIOUS
<1>. USE AgentTurnAssumption DEF SegmentInv
<1>0. /\ at = "execute" /\ steps' = steps + 1 /\ status = "running"
      /\ UNCHANGED <<engine, ctx, catalog, loops, batch, asked, stopped>>
      /\ loops \in Nat /\ asked \in Nat /\ steps \in Nat
      /\ loops <= MaxIterations /\ asked <= loops /\ asked <= MaxIterations
      /\ steps <= 2 * loops + 2
      /\ tail \in 0..2 /\ fails \in 0..2
  BY DEF Execute, Handover, Budget, Pace, TurnTypeOK
<1>1. PICK n \in 1..MaxBatch : batch \in [1..n -> Tools]
  BY <1>0 DEF Handover, Batches
<1>2. DOMAIN batch = 1..n /\ n \in Nat \ {0}
  BY <1>1
<1>3. CASE Pause
  <2>1. PICK i \in DOMAIN batch :
          /\ Gated(batch[i])
          /\ ran' = {}
          /\ saved' = [tool |-> batch[i], tail |-> tail]
          /\ status' = "pending_approval" /\ answer' = "prompt"
          /\ tail' = Cap(tail + 1) /\ fails' = fails
          /\ at' \in {"paused", "check"}
    BY <1>3 DEF Pause, FirstGated
  <2>2. batch[i] \in Tools /\ batch[i] \in ctx.granted \cap ctx.gated
    BY <1>1, <2>1 DEF Gated
  <2>3. saved' \in Snapshots /\ saved'.tool = batch[i] /\ tail' \in 0..2
    BY <1>0, <2>1, <2>2 DEF Snapshots, Cap
  <2>4. TurnTypeOK'
    BY <1>0, <2>1, <2>3 DEF TurnTypeOK, Nodes, AtRest
  <2>5. Handover' /\ GateHolds' /\ PausesWhole' /\ EndsWithAnswer'
    BY <1>0, <2>1, <2>2, <2>3 DEF Handover, GateHolds, PausesWhole, EndsWithAnswer
  <2>6. Budget' /\ Pace'
    BY <1>0, <2>1 DEF Budget, Pace, AtRest
  <2>. QED
    BY <2>4, <2>5, <2>6
<1>4. CASE RunBatch
  <2>1. tail' \in 0..2 /\ fails' \in 0..2
    BY <1>0, <1>2, <1>4, TrailingType DEF RunBatch
  <2>2. /\ ran' = {batch[i] : i \in DOMAIN batch} \cap ctx.granted
        /\ at' = "think" /\ UNCHANGED <<saved, status, answer>>
    BY <1>4 DEF RunBatch
  <2>3. ran' \subseteq Tools
    BY <1>1, <1>2, <2>2
  <2>4. TurnTypeOK'
    BY <1>0, <2>1, <2>2, <2>3 DEF TurnTypeOK, Nodes
  <2>5. ran' \subseteq ctx.granted \ ctx.gated
    BY <1>4, <2>2 DEF RunBatch, Gated
  <2>6. Handover' /\ GateHolds' /\ PausesWhole' /\ EndsWithAnswer'
    BY <1>0, <2>2, <2>5 DEF Handover, GateHolds, PausesWhole, EndsWithAnswer
  <2>7. Budget' /\ Pace'
    BY <1>0, <2>2 DEF Budget, Pace, AtRest
  <2>. QED
    BY <2>4, <2>6, <2>7
<1>. QED
  BY <1>3, <1>4 DEF Execute

LEMMA CheckInv == SegmentInv /\ Check => SegmentInv'
<1>. SUFFICES ASSUME SegmentInv, Check PROVE SegmentInv'
  OBVIOUS
<1>. USE AgentTurnAssumption DEF SegmentInv, Check
<1>1. TurnTypeOK'
  BY DEF TurnTypeOK, Nodes, AtRest
<1>2. Handover' /\ GateHolds' /\ PausesWhole' /\ EndsWithAnswer'
  BY DEF Handover, GateHolds, PausesWhole, EndsWithAnswer
<1>3. Budget' /\ Pace'
  BY DEF Budget, Pace, AtRest, TurnTypeOK
<1>. QED
  BY <1>1, <1>2, <1>3

LEMMA ApproveInv == SegmentInv /\ Approve => SegmentInv'
<1>. SUFFICES ASSUME SegmentInv, NEW c \in Contexts, NEW usable \in BOOLEAN,
                     at = "paused", ctx' = c, status' = "running",
                     fails' = Trailing(fails, <<usable>>),
                     Continue(c, usable),
                     batch' = <<>>, saved' = NoSnapshot, steps' = 0,
                     UNCHANGED <<engine, asked, ran, stopped>>
              PROVE  SegmentInv'
  BY DEF Approve
<1>. USE AgentTurnAssumption DEF SegmentInv
<1>0. /\ status = "pending_approval" /\ ran = {}
      /\ loops \in Nat /\ asked \in Nat
      /\ loops <= MaxIterations /\ asked <= loops /\ asked <= MaxIterations
      /\ tail \in 0..2 /\ fails \in 0..2 /\ saved.tail \in 0..2
  BY DEF Handover, PausesWhole, Budget, TurnTypeOK, Snapshots
<1>1. /\ at' \in {"prepare", "think"} /\ answer' = "none" /\ loops' = loops
      /\ catalog' \subseteq Tools /\ tail' \in 0..2 /\ fails' \in 0..2
  BY <1>0, PairType DEF Continue, Contexts, TurnTypeOK
<1>2. TurnTypeOK'
  BY <1>0, <1>1 DEF TurnTypeOK, Nodes, Snapshots, NoSnapshot
<1>3. Handover' /\ GateHolds' /\ PausesWhole' /\ EndsWithAnswer'
  BY <1>0, <1>1 DEF Handover, GateHolds, PausesWhole, EndsWithAnswer
<1>4. Budget' /\ Pace'
  BY <1>0, <1>1 DEF Budget, Pace, AtRest
<1>. QED
  BY <1>2, <1>3, <1>4

LEMMA RejectInv == SegmentInv /\ Reject => SegmentInv'
<1>. SUFFICES ASSUME SegmentInv, Reject PROVE SegmentInv'
  OBVIOUS
<1>. USE AgentTurnAssumption DEF SegmentInv
<1>0. /\ at = "paused" /\ status = "pending_approval" /\ ran = {}
      /\ loops \in Nat /\ asked \in Nat /\ loops <= MaxIterations
      /\ asked <= loops /\ asked <= MaxIterations
  BY DEF Reject, Handover, PausesWhole, Budget, TurnTypeOK
<1>1. /\ \/ at' = "check" /\ status' = "running" /\ ctx' \in Contexts
         \/ at' = "done" /\ status' = "completed" /\ ctx' = ctx
      /\ answer' = "text" /\ batch' = <<>> /\ saved' = NoSnapshot /\ steps' = 0
      /\ UNCHANGED <<engine, catalog, loops, tail, asked, ran, fails, stopped>>
  BY DEF Reject
<1>2. TurnTypeOK'
  BY <1>0, <1>1 DEF TurnTypeOK, Nodes, AtRest, Snapshots, NoSnapshot
<1>3. Handover' /\ GateHolds' /\ PausesWhole' /\ EndsWithAnswer'
  BY <1>0, <1>1 DEF Handover, GateHolds, PausesWhole, EndsWithAnswer
<1>4. Budget' /\ Pace'
  BY <1>0, <1>1 DEF Budget, Pace, AtRest
<1>. QED
  BY <1>2, <1>3, <1>4

LEMMA FailInv == SegmentInv /\ Fail => SegmentInv'
<1>. SUFFICES ASSUME SegmentInv, Fail PROVE SegmentInv'
  OBVIOUS
<1>. USE AgentTurnAssumption DEF SegmentInv, Fail
<1>1. TurnTypeOK'
  BY DEF TurnTypeOK, AtRest
<1>2. Handover' /\ GateHolds' /\ PausesWhole' /\ EndsWithAnswer'
  BY DEF Handover, GateHolds, PausesWhole, EndsWithAnswer
<1>3. Budget' /\ Pace'
  BY DEF Budget, Pace, AtRest, Nodes, TurnTypeOK
<1>. QED
  BY <1>1, <1>2, <1>3

LEMMA Segments == TurnSpec => []SegmentInv
<1>1. SegmentInv /\ UNCHANGED turnVars => SegmentInv'
  BY DEF SegmentInv, turnVars, TurnTypeOK, Handover, Budget, Pace, GateHolds, PausesWhole,
         EndsWithAnswer
<1>2. SegmentInv /\ [TurnNext]_turnVars => SegmentInv'
  BY <1>1, PrepareInv, ThinkInv, ExecuteInv, CheckInv, ApproveInv, RejectInv,
     FailInv DEF TurnNext, Node
<1>. QED
  BY <1>2, TurnInitInv, PTL DEF TurnSpec

----------------------------------------------------------------------------
(***************************************************************************)
(* The variables of a turn stay in their types, loop_count included: it    *)
(* never passes max_iterations by more than the last, declined think.      *)
(***************************************************************************)
THEOREM TurnIsTyped == TurnSpec => []TurnTypeOK
BY Segments, PTL DEF SegmentInv

(***************************************************************************)
(* max_iterations bounds the planner consultations of a turn however often *)
(* it is paused and approved: loop_count survives both ways to resume.     *)
(***************************************************************************)
THEOREM BudgetIsKept == TurnSpec => []BudgetHolds
<1>1. SegmentInv => BudgetHolds
  BY DEF SegmentInv, Budget, BudgetHolds
<1>. QED
  BY <1>1, Segments, PTL

(***************************************************************************)
(* The ApprovalGate of the segment's own context decides what the loop may *)
(* execute, with a stale catalog too.                                      *)
(***************************************************************************)
THEOREM GateIsKept == TurnSpec => []GateHolds
BY Segments, PTL DEF SegmentInv

(***************************************************************************)
(* ApprovalGate.pending_result holds back the batch, not the call.         *)
(***************************************************************************)
THEOREM BatchIsHeld == TurnSpec => []PausesWhole
BY Segments, PTL DEF SegmentInv

(***************************************************************************)
(* The flow's max_steps is never the reason why a turn ends.               *)
(***************************************************************************)
THEOREM StepsSuffice == TurnSpec => []StepLimitUnreached
<1>1. SegmentInv => StepLimitUnreached
  <2>. SUFFICES ASSUME SegmentInv PROVE steps <= MaxSteps
    BY DEF StepLimitUnreached
  <2>1. /\ loops \in 0..(MaxIterations + 1) /\ steps \in Nat
        /\ at \in Nodes \cup AtRest /\ MaxIterations \in Nat \ {0}
    BY AgentTurnAssumption DEF SegmentInv, TurnTypeOK
  <2>2. steps <= 2 * loops + 4
    BY <2>1 DEF SegmentInv, Pace, Nodes
  <2>. QED
    BY <2>1, <2>2 DEF MaxSteps
<1>. QED
  BY <1>1, Segments, PTL

(***************************************************************************)
(* default_self_check never fails a turn: whatever route led to the end,   *)
(* there is an answer, and it is not the prompt of an approval.            *)
(***************************************************************************)
THEOREM AnswersAtTheEnd == TurnSpec => []EndsWithAnswer
BY Segments, PTL DEF SegmentInv

----------------------------------------------------------------------------
(* The pool of MCP sessions.                                               *)


Shape ==
  /\ task \in [Tasks -> Coroutines]
  /\ pool \in [Keys -> Sessions \cup {NoSession}]
  /\ opened \in 0..MaxOpened
  /\ DOMAIN lock = Sessions
  /\ spoiled \subseteq Sessions

(* The session of this call may be closed: the call had to wait for it, or *)
(* another one failed on it.                                               *)
Excused(u) == u \in waited \/ task[u].session \in spoiled

KeyKnown ==
  \A t \in Tasks :
    \/ At(t, "idle")
    \/ task[t].key \in Keys
    \/ /\ t = Janitor
       /\ At(t, "table") \/ (At(t, "closing") /\ task[t].then = "done")

CallHolds ==
  \A t \in Tasks : At(t, "call") =>
    task[t].session \in Sessions /\ lock[task[t].session].holder = t

TableHeld ==
  \A t \in Tasks : At(t, "closing") \/ At(t, "connect") => tableLock.holder = t

Absent ==
  \A t \in Tasks :
    \/ At(t, "connect")
    \/ At(t, "closing") /\ task[t].then = "limit"
    => \A k \in Keys : k = task[t].key => pool[k] = NoSession

RoomKept == \A t \in Tasks : At(t, "connect") => Room

Blamed ==
  \A t \in Tasks : At(t, "evict") => task[t].session \in spoiled

Waited ==
  \A t \in Tasks : At(t, "wait") => t \in waited /\ task[t].session \in Sessions

TodoHarmless ==
  \A t, u \in Tasks :
    At(t, "closing") /\ At(u, "call") /\ task[u].session \in task[t].todo =>
      Excused(u)

PoolInv ==
  /\ Shape
  /\ KeyKnown
  /\ CallHolds
  /\ TableHeld
  /\ Absent
  /\ RoomKept
  /\ PoolBound
  /\ Blamed
  /\ Waited
  /\ TodoHarmless

(* What NoSurpriseEviction asks of a step.                                 *)
NoSurprise ==
  \A u \in Tasks :
    At(u, "call") /\ task[u].session \in Pooled \ Pooled' => Excused(u)

Holds(t) == tableLock.holder = t \/ Granted(tableLock, t)

(* Sessions whose closing surprises nobody.                                *)
Closable(S) ==
  /\ S \subseteq Pooled
  /\ \A u \in Tasks : At(u, "call") /\ task[u].session \in S => Excused(u)

----------------------------------------------------------------------------
LEMMA SessionSets ==
  ASSUME NEW P, P \subseteq Sessions
  PROVE  IsFiniteSet(P) /\ Cardinality(P) \in Nat
<1>1. IsFiniteSet(Sessions)
  BY McpPoolAssumption, FS_Interval DEF Sessions
<1>. QED
  BY <1>1, FS_Subset, FS_CardinalityType

LEMMA FewerSessions ==
  ASSUME NEW P, NEW Q, P \subseteq Sessions, Q \subseteq P
  PROVE  Cardinality(Q) <= Cardinality(P)
BY SessionSets, FS_Subset

LEMMA NotASession == NoSession \notin Sessions
BY DEF NoSession, Sessions

(* Only one coroutine is under the lock of the table.                      *)
LEMMA Alone ==
  ASSUME TableHeld, NEW t \in Tasks, Holds(t), NEW u \in Tasks, u # t
  PROVE  ~At(u, "closing") /\ ~At(u, "connect")
BY McpPoolAssumption DEF TableHeld, Holds, Granted, Tasks

LEMMA HeldByIt ==
  ASSUME NEW t \in Tasks
  PROVE  Held(t).holder = t
BY DEF Held, Grant

(* A step of t writes the record of t and no other.                        *)
LEMMA Rewritten ==
  ASSUME Shape, NEW t \in Tasks, NEW r \in Coroutines,
         task' = [task EXCEPT ![t] = r]
  PROVE  /\ task' \in [Tasks -> Coroutines]
         /\ task'[t] = r
         /\ \A u \in Tasks : u # t => task'[u] = task[u]
BY DEF Shape

(* A coroutine that holds the table goes on to close sessions.             *)
LEMMA CloseAllInv ==
  ASSUME PoolInv, NEW t \in Tasks, Holds(t),
         NEW S, Closable(S),
         NEW then \in {"lookup", "limit", "done"},
         task[t].key \in Keys \/ (t = Janitor /\ then = "done"),
         then = "limit" => \A k \in Keys : k = task[t].key => pool[k] = NoSession,
         CloseAll(t, S, then), UNCHANGED <<opened, spoiled>>
  PROVE  PoolInv' /\ NoSurprise
<1>. USE DEF PoolInv
<1>1. PICK s \in S :
        /\ Pop(s)
        /\ task' = [task EXCEPT ![t].pc = "closing", ![t].closing = s,
                                ![t].todo = S \ {s}, ![t].then = then]
  BY DEF CloseAll
<1>2. Pooled \subseteq Sessions
  BY DEF Shape, Pooled
<1>3. s \in Pooled /\ S \subseteq Sessions
  BY <1>2 DEF Closable
<1>4. /\ task' \in [Tasks -> Coroutines]
      /\ task'[t].pc = "closing" /\ task'[t].todo = S \ {s}
      /\ task'[t].then = then /\ task'[t].key = task[t].key
      /\ \A u \in Tasks : u # t => task'[u] = task[u]
  <2>1. task[t] \in Coroutines
    BY DEF Shape
  <2>2. PICK r : r = [task[t] EXCEPT !.pc = "closing", !.closing = s,
                                     !.todo = S \ {s}, !.then = then]
    OBVIOUS
  <2>3. /\ r \in Coroutines
        /\ r.pc = "closing" /\ r.todo = S \ {s}
        /\ r.then = then /\ r.key = task[t].key
    BY <1>3, <2>1, <2>2 DEF Coroutines, Pcs
  <2>4. task' = [task EXCEPT ![t] = r]
    BY <1>1, <2>2 DEF Shape
  <2>. QED
    BY <2>3, <2>4 DEF Shape
<1>5. KeyOf(s) \in Keys /\ pool[KeyOf(s)] = s
  BY <1>3 DEF KeyOf, Pooled
<1>6. /\ pool' \in [Keys -> Sessions \cup {NoSession}]
      /\ \A k \in Keys : pool'[k] = IF k = KeyOf(s) THEN NoSession ELSE pool[k]
  BY <1>1, <1>5 DEF Shape, Pop
<1>7. Pooled' \subseteq Pooled
  BY <1>6 DEF Pooled
<1>8. Cardinality(Pooled') <= Cardinality(Pooled)
  BY <1>2, <1>7, FewerSessions
<1>9. /\ UNCHANGED <<opened, spoiled, lock, waited>>
      /\ tableLock'.holder = t
  BY HeldByIt DEF CloseAll
<1>10. Shape'
  BY <1>4, <1>6, <1>9 DEF Shape
<1>11. KeyKnown' /\ CallHolds' /\ Blamed' /\ Waited'
  BY <1>4, <1>9 DEF KeyKnown, CallHolds, Blamed, Waited, At
<1>12. TableHeld' /\ RoomKept'
  BY <1>4, <1>9, Alone DEF TableHeld, RoomKept, At
<1>13. Absent'
  BY <1>4, <1>6, Alone DEF Absent, At
<1>14. PoolBound'
  <2>1. Cardinality(Pooled) \in Nat /\ Cardinality(Pooled') \in Nat
    BY <1>2, <1>7, SessionSets
  <2>. QED
    BY <1>8, <2>1, McpPoolAssumption DEF PoolBound
<1>15. TodoHarmless'
  <2>. SUFFICES ASSUME NEW v \in Tasks, NEW u \in Tasks,
                       At(v, "closing")', At(u, "call")',
                       task'[u].session \in task'[v].todo
                PROVE  Excused(u)'
    BY DEF TodoHarmless
  <2>1. v = t
    BY <1>4, Alone DEF At
  <2>2. u # t
    BY <1>4 DEF At
  <2>3. At(u, "call") /\ task[u].session \in S
    BY <1>4, <2>1, <2>2 DEF At
  <2>4. Excused(u)
    BY <2>3 DEF Closable
  <2>. QED
    BY <1>4, <1>9, <2>2, <2>4 DEF Excused
<1>16. NoSurprise
  <2>. SUFFICES ASSUME NEW u \in Tasks, At(u, "call"),
                       task[u].session \in Pooled \ Pooled'
                PROVE  Excused(u)
    BY DEF NoSurprise
  <2>1. task[u].session = s
    <3>1. PICK k \in Keys : pool[k] = task[u].session
      BY DEF Pooled
    <3>2. pool'[k] # pool[k]
      BY <3>1 DEF Pooled
    <3>. QED
      BY <1>5, <1>6, <3>1, <3>2
  <2>. QED
    BY <2>1 DEF Closable
<1>. QED
  BY <1>10, <1>11, <1>12, <1>13, <1>14, <1>15, <1>16

(* It ends.                                                                *)
LEMMA LeaveInv ==
  ASSUME PoolInv, NEW t \in Tasks, Holds(t), Leave(t),
         UNCHANGED <<pool, lock, opened, spoiled>>
  PROVE  PoolInv' /\ NoSurprise
<1>. USE DEF PoolInv
<1>1. /\ task' \in [Tasks -> Coroutines]
      /\ task'[t].pc = "idle"
      /\ \A u \in Tasks : u # t => task'[u] = task[u]
  BY DEF Leave, Finish, Resting, Shape, Coroutines, Pcs
<1>2. waited' = waited \ {t} /\ Pooled' = Pooled
  BY DEF Leave, Finish, Pooled
<1>3. Shape' /\ PoolBound'
  BY <1>1, <1>2 DEF Shape, PoolBound
<1>4. KeyKnown' /\ CallHolds' /\ Blamed' /\ Waited'
  BY <1>1, <1>2 DEF KeyKnown, CallHolds, Blamed, Waited, At
<1>5. TableHeld' /\ RoomKept' /\ Absent' /\ TodoHarmless'
  BY <1>1, Alone DEF TableHeld, RoomKept, Absent, TodoHarmless, At
<1>. QED
  BY <1>2, <1>3, <1>4, <1>5 DEF NoSurprise

(* It enters a client next.                                                *)
LEMMA ReadyInv ==
  ASSUME PoolInv, NEW t \in Tasks, Holds(t), Room, task[t].key \in Keys,
         \A k \in Keys : k = task[t].key => pool[k] = NoSession,
         tableLock' = Held(t),
         task' = [task EXCEPT ![t].pc = "connect", ![t].closing = NoSession],
         UNCHANGED <<pool, lock, waited, opened, spoiled>>
  PROVE  PoolInv' /\ NoSurprise
<1>. USE DEF PoolInv
<1>1. /\ task' \in [Tasks -> Coroutines]
      /\ task'[t].pc = "connect" /\ task'[t].key = task[t].key
      /\ \A u \in Tasks : u # t => task'[u] = task[u]
  <2>1. PICK r : r = [task[t] EXCEPT !.pc = "connect", !.closing = NoSession]
    OBVIOUS
  <2>a. PICK y : y = task[t]
    OBVIOUS
  <2>b. y \in Coroutines /\ "connect" \in Pcs
    BY <2>a DEF Shape, Pcs
  <2>2. r \in Coroutines /\ r.pc = "connect" /\ r.key = task[t].key
    BY <2>1, <2>a, <2>b DEF Coroutines
  <2>3. task' = [task EXCEPT ![t] = r]
    BY <2>1 DEF Shape
  <2>. QED
    BY <2>2, <2>3, Rewritten
<1>2. Pooled' = Pooled /\ tableLock'.holder = t
  BY HeldByIt DEF Pooled
<1>3. Shape' /\ PoolBound'
  BY <1>1, <1>2 DEF Shape, PoolBound
<1>4. KeyKnown' /\ CallHolds' /\ Blamed' /\ Waited'
  BY <1>1 DEF KeyKnown, CallHolds, Blamed, Waited, At
<1>5. TableHeld' /\ RoomKept' /\ Absent' /\ TodoHarmless'
  BY <1>1, <1>2, Alone
  DEF TableHeld, RoomKept, Room, Absent, TodoHarmless, At
<1>. QED
  BY <1>2, <1>3, <1>4, <1>5 DEF NoSurprise

(* It leaves the table for its session: the parts of the invariant that do *)
(* not speak of the table.                                                 *)
LEMMA AdmitInv ==
  ASSUME PoolInv, NEW t \in Tasks, Holds(t), task[t].key \in Keys,
         NEW s \in Sessions, Admit(t, s), UNCHANGED spoiled
  PROVE  /\ task' \in [Tasks -> Coroutines] /\ DOMAIN lock' = Sessions
         /\ KeyKnown' /\ CallHolds' /\ TableHeld' /\ Absent' /\ RoomKept'
         /\ Blamed' /\ Waited' /\ TodoHarmless'
<1>. USE DEF PoolInv
<1>1. PICK pc \in {"call", "wait"} :
        /\ task' = [task EXCEPT ![t].pc = pc, ![t].session = s]
        /\ pc = "call" =>
             lock[s] = FreeLock /\ lock' = [lock EXCEPT ![s].holder = t]
        /\ pc = "wait" =>
             lock' = [lock EXCEPT ![s] = Enqueue(@, t)] /\ t \in waited'
  BY DEF Admit
<1>2. /\ task' \in [Tasks -> Coroutines]
      /\ task'[t].pc = pc /\ task'[t].session = s
      /\ task'[t].key = task[t].key
      /\ \A u \in Tasks : u # t => task'[u] = task[u]
  <2>1. PICK r : r = [task[t] EXCEPT !.pc = pc, !.session = s]
    OBVIOUS
  <2>a. PICK y : y = task[t]
    OBVIOUS
  <2>b. y \in Coroutines /\ pc \in Pcs
    BY <2>a DEF Shape, Pcs
  <2>2. r \in Coroutines /\ r.pc = pc /\ r.session = s /\ r.key = task[t].key
    BY <2>1, <2>a, <2>b DEF Coroutines
  <2>3. task' = [task EXCEPT ![t] = r]
    BY <1>1, <2>1 DEF Shape
  <2>. QED
    BY <2>2, <2>3, Rewritten
<1>3. DOMAIN lock' = Sessions /\ waited \subseteq waited'
  BY DEF Admit, Shape
<1>4. KeyKnown' /\ Blamed' /\ Waited'
  BY <1>1, <1>2, <1>3 DEF KeyKnown, Blamed, Waited, At
<1>5. TableHeld' /\ RoomKept' /\ Absent' /\ TodoHarmless'
  BY <1>2, Alone DEF TableHeld, RoomKept, Absent, TodoHarmless, At
<1>6. CallHolds'
  <2>1. CASE pc = "call"
    <3>1. /\ lock'[s].holder = t /\ lock[s].holder = NoTask
          /\ \A r \in Sessions : r # s => lock'[r] = lock[r]
      BY <1>1, <2>1 DEF Shape, FreeLock
    <3>. QED
      BY <1>2, <2>1, <3>1, McpPoolAssumption DEF CallHolds, At, Tasks
  <2>2. CASE pc = "wait"
    <3>1. \A r \in Sessions : lock'[r].holder = lock[r].holder
      BY <1>1, <2>2 DEF Shape, Enqueue
    <3>. QED
      BY <1>2, <2>2, <3>1 DEF CallHolds, At
  <2>. QED
    BY <2>1, <2>2
<1>. QED
  BY <1>2, <1>3, <1>4, <1>5, <1>6

(* Sessions that are not in use may be closed.                             *)
LEMMA Unused ==
  ASSUME CallHolds, NEW S, S \subseteq Pooled, \A s \in S : ~InUse(s)
  PROVE  Closable(S)
BY McpPoolAssumption DEF CallHolds, Closable, InUse, Tasks

LEMMA LimitInv ==
  ASSUME PoolInv, NEW t \in Tasks, Holds(t), task[t].key \in Keys,
         \A k \in Keys : k = task[t].key => pool[k] = NoSession,
         Limit(t), UNCHANGED <<opened, spoiled>>
  PROVE  PoolInv' /\ NoSurprise
<1>1. CASE /\ Room /\ tableLock' = Held(t)
           /\ task' = [task EXCEPT ![t].pc = "connect", ![t].closing = NoSession]
           /\ UNCHANGED <<pool, recency, idle, lock, waited>>
  BY <1>1, ReadyInv
<1>2. CASE \E k \in Keys : Oldest(k) /\ CloseAll(t, {pool[k]}, "limit")
  <2>1. PICK k \in Keys : Oldest(k) /\ CloseAll(t, {pool[k]}, "limit")
    BY <1>2
  <2>2. Closable({pool[k]})
    BY <2>1, Unused DEF Oldest, Evictable, Pooled, PoolInv
  <2>. QED
    BY <2>1, <2>2, CloseAllInv
<1>3. CASE Leave(t) /\ UNCHANGED <<pool, recency, idle, lock>>
  BY <1>3, LeaveInv
<1>. QED
  BY <1>1, <1>2, <1>3 DEF Limit

LEMMA LookupInv ==
  ASSUME PoolInv, NEW t \in Tasks, Holds(t), task[t].key \in Keys,
         Lookup(t), UNCHANGED <<opened, spoiled>>
  PROVE  PoolInv' /\ NoSurprise
<1>. DEFINE k == task[t].key
<1>1. CASE /\ pool[k] # NoSession /\ UNCHANGED pool
           /\ tableLock' = Release(Held(t)) /\ Admit(t, pool[k])
  <2>1. pool[k] \in Sessions
    BY <1>1 DEF PoolInv, Shape
  <2>2. Pooled' = Pooled
    BY <1>1 DEF Pooled
  <2>3. Shape' /\ PoolBound'
    BY <1>1, <2>1, <2>2, AdmitInv DEF PoolInv, Shape, PoolBound
  <2>. QED
    BY <1>1, <2>1, <2>2, <2>3, AdmitInv DEF PoolInv, NoSurprise
<1>2. CASE Leave(t) /\ UNCHANGED <<pool, lock>>
  BY <1>2, LeaveInv
<1>3. CASE pool[k] = NoSession /\ Supersede(t)
  <2>. DEFINE old == {s \in Pooled : KeyOf(s)[1] = task[t].key[1] /\ ~InUse(s)}
  <2>1. CASE CloseAll(t, old, "limit")
    <3>1. Closable(old)
      BY Unused DEF PoolInv
    <3>. QED
      BY <1>3, <2>1, <3>1, CloseAllInv
  <2>2. CASE Limit(t)
    BY <1>3, <2>2, LimitInv
  <2>. QED
    BY <1>3, <2>1, <2>2 DEF Supersede
<1>. QED
  BY <1>1, <1>2, <1>3 DEF Lookup

(* Whatever a coroutine that holds the table goes on with.                 *)
LEMMA ResumeInv ==
  ASSUME PoolInv, NEW t \in Tasks, Holds(t), NEW then,
         task[t].key \in Keys \/ (t = Janitor /\ then = "done"),
         then = "limit" => \A k \in Keys : k = task[t].key => pool[k] = NoSession,
         Resume(t, then), UNCHANGED <<opened, spoiled>>
  PROVE  PoolInv' /\ NoSurprise
BY LookupInv, LimitInv, LeaveInv DEF Resume

LEMMA TakeTableInv ==
  ASSUME PoolInv, NEW t \in Tasks, TakeTable(t)
  PROVE  PoolInv' /\ NoSurprise
<1>. DEFINE expired == {s \in Pooled : s \in idle /\ ~InUse(s)}
            then == IF t = Janitor THEN "done" ELSE "lookup"
<1>1. Holds(t) /\ Clean(t) /\ UNCHANGED <<opened, spoiled>>
  BY DEF TakeTable, Holds
<1>2. /\ then \in {"lookup", "done"}
      /\ task[t].key \in Keys \/ (t = Janitor /\ then = "done")
  BY DEF TakeTable, PoolInv, KeyKnown, At
<1>3. CASE CloseAll(t, expired, then)
  <2>1. Closable(expired)
    BY Unused DEF PoolInv
  <2>. QED
    BY <1>1, <1>2, <1>3, <2>1, CloseAllInv
<1>4. CASE Resume(t, then)
  BY <1>1, <1>2, <1>4, ResumeInv
<1>. QED
  BY <1>1, <1>3, <1>4 DEF Clean

LEMMA ClosedInv ==
  ASSUME PoolInv, NEW t \in Tasks, Closed(t)
  PROVE  PoolInv' /\ NoSurprise
<1>. DEFINE left == task[t].todo \cap Pooled
            then == task[t].then
<1>1. Holds(t) /\ UNCHANGED <<opened, spoiled>>
  BY DEF Closed, Holds, PoolInv, TableHeld
<1>2. /\ then \in {"lookup", "limit", "done"}
      /\ task[t].key \in Keys \/ (t = Janitor /\ then = "done")
      /\ then = "limit" => \A k \in Keys : k = task[t].key => pool[k] = NoSession
  BY DEF Closed, PoolInv, Shape, Coroutines, KeyKnown, Absent, At
<1>3. CASE CloseAll(t, left, then)
  <2>1. Closable(left)
    BY DEF Closed, Closable, PoolInv, TodoHarmless
  <2>. QED
    BY <1>1, <1>2, <1>3, <2>1, CloseAllInv
<1>4. CASE Resume(t, then)
  BY <1>1, <1>2, <1>4, ResumeInv
<1>. QED
  BY <1>3, <1>4 DEF Closed

LEMMA EvictInv ==
  ASSUME PoolInv, NEW t \in Tasks, Evict(t)
  PROVE  PoolInv' /\ NoSurprise
<1>. DEFINE victim == Victim(t, task[t].session)
<1>1. /\ Holds(t) /\ EvictSession(t) /\ UNCHANGED <<opened, spoiled>>
      /\ task[t].key \in Keys
  BY DEF Evict, Holds, PoolInv, KeyKnown, At
<1>2. CASE CloseAll(t, victim, "done")
  <2>1. task[t].session \in spoiled /\ task[t].session # NoSession
    BY NotASession DEF Evict, PoolInv, Shape, Blamed
  <2>2. victim \subseteq Pooled
    BY <1>1, <2>1 DEF Victim, Pooled
  <2>3. Closable(victim)
    BY <2>1, <2>2 DEF Closable, Victim, Excused
  <2>. QED
    BY <1>1, <1>2, <2>3, CloseAllInv
<1>3. CASE Resume(t, "done")
  BY <1>1, <1>3, ResumeInv
<1>. QED
  BY <1>1, <1>2, <1>3 DEF EvictSession

----------------------------------------------------------------------------
LEMMA ConnectInv ==
  ASSUME PoolInv, NEW t \in Tasks, Connect(t)
  PROVE  PoolInv' /\ NoSurprise
<1>. DEFINE s == opened + 1
<1>1. /\ s \in Sessions /\ opened' = s /\ s \in 0..MaxOpened
      /\ pool' = [pool EXCEPT ![task[t].key] = s]
      /\ Admit(t, s) /\ UNCHANGED spoiled
  BY McpPoolAssumption DEF Connect, PoolInv, Shape, Sessions
<1>2. /\ Holds(t) /\ task[t].key \in Keys /\ Room
      /\ pool[task[t].key] = NoSession
  BY McpPoolAssumption
  DEF Connect, PoolInv, KeyKnown, TableHeld, Absent, RoomKept, Holds, At
<1>3. Pooled \subseteq Sessions
  BY DEF PoolInv, Shape, Pooled
<1>4. Pooled' = Pooled \cup {s}
  BY <1>1, <1>2, NotASession DEF PoolInv, Shape, Pooled
<1>5. PoolBound'
  <2>1. Cardinality(Pooled) \in Nat /\ Cardinality(Pooled) < MaxSessions
    BY <1>2, <1>3, SessionSets DEF Room
  <2>2. Cardinality(Pooled') <= Cardinality(Pooled) + 1
    BY <1>3, <1>4, <2>1, SessionSets, FS_AddElement
  <2>3. Cardinality(Pooled') \in Nat
    BY <1>1, <1>3, <1>4, SessionSets
  <2>. QED
    BY <2>1, <2>2, <2>3, McpPoolAssumption DEF PoolBound
<1>6. Shape'
  BY <1>1, <1>2, AdmitInv DEF PoolInv, Shape
<1>. QED
  BY <1>1, <1>2, <1>4, <1>5, <1>6, AdmitInv DEF PoolInv, NoSurprise

LEMMA RefusedInv ==
  ASSUME PoolInv, NEW t \in Tasks, Refused(t)
  PROVE  PoolInv' /\ NoSurprise
BY LeaveInv DEF Refused, PoolInv, TableHeld, Holds

(* Steps of a coroutine that is not under the lock of the table, neither   *)
(* before nor after, and does not begin a call.                            *)
LEMMA ApartInv ==
  ASSUME PoolInv, NEW t \in Tasks, NEW r \in Coroutines,
         task' = [task EXCEPT ![t] = r],
         \/ r.pc = "idle"
         \/ r.pc = "table" /\ (r.key \in Keys \/ t = Janitor)
         \/ r.pc = "evict" /\ r.key \in Keys /\ r.session \in spoiled',
         \A u \in Tasks : u # t /\ tableLock.holder = u => tableLock'.holder = u,
         DOMAIN lock' = Sessions,
         \A u \in Tasks, s \in Sessions :
           u # t /\ lock[s].holder = u => lock'[s].holder = u,
         waited \ {t} \subseteq waited',
         spoiled \subseteq spoiled' /\ spoiled' \subseteq Sessions,
         UNCHANGED <<pool, opened>>
  PROVE  PoolInv' /\ NoSurprise
<1>. USE DEF PoolInv
<1>1. /\ task' \in [Tasks -> Coroutines]
      /\ task'[t] = r
      /\ \A u \in Tasks : u # t => task'[u] = task[u]
  BY Rewritten
<1>2. Pooled' = Pooled
  BY DEF Pooled
<1>3. Shape' /\ PoolBound'
  BY <1>1, <1>2 DEF Shape, PoolBound
<1>4. KeyKnown' /\ CallHolds' /\ Blamed' /\ Waited'
  BY <1>1 DEF KeyKnown, CallHolds, Blamed, Waited, At
<1>5. TableHeld' /\ Absent' /\ RoomKept'
  BY <1>1, <1>2 DEF TableHeld, Absent, RoomKept, Room, At
<1>6. TodoHarmless'
  BY <1>1 DEF TodoHarmless, Excused, At
<1>. QED
  BY <1>2, <1>3, <1>4, <1>5, <1>6 DEF NoSurprise

LEMMA RestingType == Resting \in Coroutines /\ Resting.pc = "idle"
BY DEF Resting, Coroutines, Pcs

LEMMA SubmitInv ==
  ASSUME PoolInv, NEW t \in Requests, NEW k \in Keys, Submit(t, k)
  PROVE  PoolInv' /\ NoSurprise
<1>1. PICK r : r = [Resting EXCEPT !.pc = "table", !.key = k]
  OBVIOUS
<1>2. r \in Coroutines /\ r.pc = "table" /\ r.key \in Keys
  BY <1>1 DEF Resting, Coroutines, Pcs
<1>3. task' = [task EXCEPT ![t] = r] /\ tableLock'.holder = tableLock.holder
  BY <1>1 DEF Submit, Enqueue
<1>. QED
  BY <1>2, <1>3, ApartInv DEF Submit, PoolInv, Shape, Tasks

LEMMA WakeInv ==
  ASSUME PoolInv, Wake
  PROVE  PoolInv' /\ NoSurprise
<1>1. PICK r : r = [task[Janitor] EXCEPT !.pc = "table"]
  OBVIOUS
<1>2. r \in Coroutines /\ r.pc = "table"
  BY <1>1 DEF PoolInv, Shape, Coroutines, Pcs, Tasks
<1>3. task' = [task EXCEPT ![Janitor] = r] /\ tableLock'.holder = tableLock.holder
  BY <1>1 DEF Wake, Enqueue
<1>. QED
  BY <1>2, <1>3, ApartInv DEF Wake, PoolInv, Shape, Tasks

LEMMA TurnInv ==
  ASSUME PoolInv, NEW t \in Tasks, Turn(t)
  PROVE  PoolInv' /\ NoSurprise
<1>. USE DEF PoolInv
<1>. DEFINE s == task[t].session
<1>1. PICK r : r = [task[t] EXCEPT !.pc = "call"]
  OBVIOUS
<1>2. /\ r \in Coroutines /\ r.pc = "call" /\ r.session = s
      /\ r.key = task[t].key
  BY <1>1 DEF Shape, Coroutines, Pcs
<1>3. /\ task' \in [Tasks -> Coroutines]
      /\ task'[t] = r
      /\ \A u \in Tasks : u # t => task'[u] = task[u]
  BY <1>1, <1>2, Rewritten DEF Turn
<1>4. /\ Pooled' = Pooled /\ Room' = Room
      /\ UNCHANGED <<pool, opened, tableLock, waited, spoiled>>
      /\ t \in waited
  BY DEF Turn, Pooled, Room, Waited
<1>5. Shape' /\ PoolBound'
  BY <1>3, <1>4 DEF Turn, Shape, PoolBound
<1>6. KeyKnown' /\ Blamed' /\ Waited' /\ TableHeld' /\ Absent' /\ RoomKept'
  BY <1>2, <1>3, <1>4
  DEF Turn, KeyKnown, Blamed, Waited, TableHeld, Absent, RoomKept, At
<1>7. TodoHarmless'
  BY <1>2, <1>3, <1>4 DEF TodoHarmless, Excused, At
<1>8. CallHolds'
  <2>1. s \in Sessions
    BY DEF Turn, Waited
  <2>2. /\ lock[s].holder = NoTask /\ lock'[s].holder = t
        /\ \A x \in Sessions : x # s => lock'[x] = lock[x]
    BY <2>1 DEF Turn, Granted, Grant, Shape
  <2>. QED
    BY <1>2, <1>3, <2>1, <2>2, McpPoolAssumption DEF CallHolds, At, Tasks
<1>. QED
  BY <1>4, <1>5, <1>6, <1>7, <1>8 DEF NoSurprise

LEMMA ReturnInv ==
  ASSUME PoolInv, NEW t \in Tasks, Return(t)
  PROVE  PoolInv' /\ NoSurprise
<1>. DEFINE s == task[t].session
<1>1. /\ task' = [task EXCEPT ![t] = Resting] /\ waited' = waited \ {t}
      /\ lock' = [lock EXCEPT ![s] = Release(@)]
      /\ UNCHANGED <<pool, opened, tableLock, spoiled>>
  BY DEF Return, Finish
<1>2. lock[s].holder = t
  BY DEF Return, PoolInv, CallHolds
<1>3. \A u \in Tasks, x \in Sessions :
        u # t /\ lock[x].holder = u => lock'[x].holder = u
  BY <1>1, <1>2 DEF PoolInv, Shape
<1>. QED
  BY <1>1, <1>3, RestingType, ApartInv DEF PoolInv, Shape

LEMMA RaiseInv ==
  ASSUME PoolInv, NEW t \in Tasks, Raise(t)
  PROVE  PoolInv' /\ NoSurprise
<1>. DEFINE s == task[t].session
<1>1. PICK r : r = [task[t] EXCEPT !.pc = "evict"]
  OBVIOUS
<1>2. /\ s \in Sessions /\ lock[s].holder = t /\ task[t].key \in Keys
  BY DEF Raise, PoolInv, CallHolds, KeyKnown, At
<1>3. r \in Coroutines /\ r.pc = "evict" /\ r.key \in Keys /\ r.session = s
  BY <1>1, <1>2 DEF PoolInv, Shape, Coroutines, Pcs
<1>4. /\ task' = [task EXCEPT ![t] = r] /\ spoiled' = spoiled \cup {s}
      /\ lock' = [lock EXCEPT ![s] = Release(@)]
      /\ tableLock'.holder = tableLock.holder
      /\ UNCHANGED <<pool, opened, waited>>
  BY <1>1 DEF Raise, Enqueue
<1>5. \A u \in Tasks, x \in Sessions :
        u # t /\ lock[x].holder = u => lock'[x].holder = u
  BY <1>2, <1>4 DEF PoolInv, Shape
<1>. QED
  BY <1>2, <1>3, <1>4, <1>5, ApartInv DEF PoolInv, Shape

LEMMA CancelInv ==
  ASSUME PoolInv, NEW t \in Requests, Cancel(t)
  PROVE  PoolInv' /\ NoSurprise
<1>1. /\ task' = [task EXCEPT ![t] = Resting] /\ waited' = waited \ {t}
      /\ UNCHANGED <<pool, opened, spoiled>>
  BY DEF Cancel, Finish
<1>2. /\ \A u \in Tasks : u # t /\ tableLock.holder = u => tableLock'.holder = u
      /\ DOMAIN lock' = Sessions
      /\ \A u \in Tasks, x \in Sessions :
           u # t /\ lock[x].holder = u => lock'[x].holder = u
  BY DEF Cancel, LetGo
<1>. QED
  BY <1>1, <1>2, RestingType, ApartInv DEF PoolInv, Shape, Tasks

LEMMA QuietInv ==
  ASSUME PoolInv, UNCHANGED <<pool, opened, tableLock, lock, task, waited, spoiled>>
  PROVE  PoolInv' /\ NoSurprise
BY DEF PoolInv, NoSurprise, Shape, KeyKnown, CallHolds, TableHeld, Absent,
       RoomKept, Room, PoolBound, Pooled, Blamed, Waited, TodoHarmless,
       Excused, At

LEMMA NextInv == PoolInv /\ [Next]_vars => PoolInv' /\ NoSurprise
<1>. SUFFICES ASSUME PoolInv, [Next]_vars PROVE PoolInv' /\ NoSurprise
  OBVIOUS
<1>1. CASE \E t \in Requests, k \in Keys : Submit(t, k)
  BY <1>1, SubmitInv
<1>2. CASE Wake
  BY <1>2, WakeInv
<1>3. CASE \E t \in Tasks : Step(t)
  BY <1>3, TakeTableInv, ClosedInv, ConnectInv, RefusedInv, TurnInv,
     ReturnInv, RaiseInv, EvictInv DEF Step
<1>4. CASE \E t \in Requests : Cancel(t)
  BY <1>4, CancelInv
<1>5. CASE \E s \in Sessions : Age(s)
  BY <1>5, QuietInv DEF Age
<1>6. CASE UNCHANGED vars
  BY <1>6, QuietInv DEF vars
<1>. QED
  BY <1>1, <1>2, <1>3, <1>4, <1>5, <1>6 DEF Next

LEMMA InitPool == Init => PoolInv
<1>. SUFFICES ASSUME Init PROVE PoolInv
  OBVIOUS
<1>1. Shape
  BY RestingType, McpPoolAssumption DEF Init, Shape
<1>2. \A t \in Tasks : task[t].pc = "idle"
  BY RestingType DEF Init
<1>3. Pooled = {}
  BY DEF Init, Pooled
<1>4. PoolBound
  BY <1>3, FS_EmptySet, McpPoolAssumption DEF PoolBound
<1>. QED
  BY <1>1, <1>2, <1>4
  DEF PoolInv, KeyKnown, CallHolds, TableHeld, Absent, RoomKept, Blamed,
      Waited, TodoHarmless, At

LEMMA Invariance == Spec => []PoolInv
<1>1. PoolInv /\ [Next]_vars => PoolInv'
  BY NextInv
<1>. QED
  BY <1>1, InitPool, PTL DEF Spec

----------------------------------------------------------------------------
(* _enforce_session_limit_locked keeps the table within its limit, however *)
(* requests, the janitor, failures and timeouts interleave.                *)
THEOREM PoolIsBounded == Spec => []PoolBound
BY Invariance, PTL DEF PoolInv

(* session.lock keeps the calls of one client apart, also after the session *)
(* has been evicted from the table.                                        *)
THEOREM CallsAreSerial == Spec => []OneCallPerClient
<1>1. PoolInv => OneCallPerClient
  BY DEF PoolInv, CallHolds, OneCallPerClient
<1>. QED
  BY <1>1, Invariance, PTL

(* A step of a coroutine leaves the others where they are.                 *)
LEMMA Untouched ==
  ASSUME Shape, NEW t \in Tasks, NEW u \in Tasks, u # t, Step(u)
  PROVE  task'[t] = task[t]
<1>1. ASSUME Leave(u) PROVE task'[t] = task[t]
  BY <1>1 DEF Leave, Finish, Shape
<1>2. ASSUME NEW S, NEW then, CloseAll(u, S, then) PROVE task'[t] = task[t]
  BY <1>2 DEF CloseAll, Shape
<1>3. ASSUME NEW s, Admit(u, s) PROVE task'[t] = task[t]
  BY <1>3 DEF Admit, Shape
<1>4. ASSUME Limit(u) PROVE task'[t] = task[t]
  BY <1>1, <1>2, <1>4 DEF Limit, Shape
<1>5. ASSUME Lookup(u) PROVE task'[t] = task[t]
  BY <1>1, <1>2, <1>3, <1>4, <1>5 DEF Lookup, Supersede
<1>6. ASSUME NEW then, Resume(u, then) PROVE task'[t] = task[t]
  BY <1>1, <1>4, <1>5, <1>6 DEF Resume
<1>7. CASE TakeTable(u) \/ Closed(u) \/ Evict(u)
  BY <1>2, <1>6, <1>7 DEF TakeTable, Clean, Closed, Evict, EvictSession
<1>8. CASE Connect(u) \/ Refused(u)
  BY <1>1, <1>3, <1>8 DEF Connect, Refused
<1>9. CASE Turn(u) \/ Return(u) \/ Raise(u)
  BY <1>9 DEF Turn, Return, Raise, Finish, Shape
<1>. QED
  BY <1>7, <1>8, <1>9 DEF Step

(* _evict_session compares with expected: a coroutine whose call failed    *)
(* closes the session of that call and none opened since.                  *)
THEOREM EvictsItsOwn == Spec => EvictsOnlyItsOwn
<1>1. ASSUME PoolInv, [Next]_vars, NEW t \in Tasks, At(t, "evict"),
             task'[t].pc = "closing"
      PROVE  task'[t].closing = task[t].session
  <2>. USE DEF PoolInv
  <2>0. task'[t] # task[t]
    BY <1>1 DEF At
  <2>1. CASE \E u \in Requests, k \in Keys : Submit(u, k)
    BY <1>1, <2>0, <2>1 DEF Submit, Shape, At
  <2>2. CASE Wake
    BY <1>1, <2>0, <2>2 DEF Wake, Shape, At
  <2>3. CASE \E u \in Tasks : Step(u)
    <3>1. Step(t)
      BY <1>1, <2>0, <2>3, Untouched
    <3>2. Evict(t)
      BY <1>1, <3>1
      DEF Step, At, TakeTable, Closed, Connect, Refused, Turn, Return, Raise
    <3>3. EvictSession(t) /\ task[t] \in Coroutines
      BY <1>1, <3>2 DEF Evict, Shape
    <3>4. CASE Resume(t, "done")
      BY <1>1, <3>4, RestingType DEF Resume, Leave, Finish, Shape
    <3>5. CASE CloseAll(t, Victim(t, task[t].session), "done")
      <4>1. PICK s \in Victim(t, task[t].session) :
              task' = [task EXCEPT ![t].pc = "closing", ![t].closing = s,
                         ![t].todo = Victim(t, task[t].session) \ {s},
                         ![t].then = "done"]
        BY <3>5 DEF CloseAll
      <4>2. PICK r :
              r = [task[t] EXCEPT !.pc = "closing", !.closing = s,
                     !.todo = Victim(t, task[t].session) \ {s}, !.then = "done"]
        OBVIOUS
      <4>3. r.closing = s
        BY <3>3, <4>2 DEF Coroutines
      <4>4. task'[t] = r
        BY <1>1, <4>1, <4>2 DEF Shape
      <4>. QED
        BY <4>3, <4>4 DEF Victim
    <3>. QED
      BY <3>3, <3>4, <3>5 DEF EvictSession
  <2>4. CASE \E u \in Requests : Cancel(u)
    BY <1>1, <2>0, <2>4, RestingType DEF Cancel, Finish, Shape
  <2>5. CASE (\E s \in Sessions : Age(s)) \/ UNCHANGED vars
    BY <2>0, <2>5 DEF Age, vars
  <2>. QED
    BY <1>1, <2>1, <2>2, <2>3, <2>4, <2>5 DEF Next
<1>2. PoolInv /\ [Next]_vars =>
        [\A t \in Tasks :
           At(t, "evict") /\ task'[t].pc = "closing" =>
             task'[t].closing = task[t].session]_vars
  BY <1>1
<1>. QED
  BY <1>2, Invariance, PTL DEF Spec, EvictsOnlyItsOwn

(* No clean-up, newer version, full table or neighbour closes the client   *)
(* under a call that has not waited, unless an earlier call on it failed.  *)
THEOREM CallsAreUndisturbed == Spec => NoSurpriseEviction
<1>1. PoolInv /\ [Next]_vars =>
        [\A t \in Requests :
           (At(t, "call") /\ task[t].session \in Pooled \ Pooled') =>
             t \in waited \/ task[t].session \in spoiled]_vars
  BY NextInv DEF NoSurprise, Excused, Tasks
<1>. QED
  BY <1>1, Invariance, PTL DEF Spec, NoSurpriseEviction

----------------------------------------------------------------------------
(* The types.  The queues are the interesting part: a coroutine is in the  *)
(* queue of the table exactly while it waits for it, and once.             *)

Queued(l, t) == \E i \in DOMAIN l.queue : l.queue[i] = t

Waits(t) == task[t].pc \in {"table", "evict"}

Distinct(l) == \A i, j \in DOMAIN l.queue : l.queue[i] = l.queue[j] => i = j

QueueOK ==
  /\ tableLock \in Locks
  /\ Distinct(tableLock)
  /\ \A t \in Tasks : Waits(t) <=> Queued(tableLock, t)

(* _janitor_loop uses no session.                                          *)
JanitorApart ==
  /\ task[Janitor].pc \in {"idle", "table", "closing"}
  /\ task[Janitor].then = "done"

RestOK ==
  /\ recency \in Seq(Keys)
  /\ idle \subseteq Sessions
  /\ open \subseteq Sessions
  /\ lock \in [Sessions -> Locks]
  /\ waited \subseteq Requests

TypesInv == QueueOK /\ JanitorApart /\ RestOK

LEMMA Absentee ==
  ASSUME NEW q, NEW x, \A i \in DOMAIN q : q[i] # x
  PROVE  Without(q, x) = q
BY DEF Without

(* A sequence that has x loses one place.                                  *)
LEMMA PlaceTaken ==
  ASSUME NEW q, NEW x, \E i \in DOMAIN q : q[i] = x
  PROVE  \E i \in DOMAIN q :
           /\ q[i] = x
           /\ DOMAIN Without(q, x) = 1..(Len(q) - 1)
           /\ \A j \in 1..(Len(q) - 1) :
                Without(q, x)[j] = IF j < i THEN q[j] ELSE q[j + 1]
<1>1. PICK i : i = CHOOSE n \in DOMAIN q : q[n] = x
  OBVIOUS
<1>2. i \in DOMAIN q /\ q[i] = x
  BY <1>1
<1>3. Without(q, x) = [j \in 1..(Len(q) - 1) |-> IF j < i THEN q[j] ELSE q[j + 1]]
  BY <1>1, <1>2 DEF Without
<1>. QED
  BY <1>2, <1>3

LEMMA WithoutType ==
  ASSUME NEW T, NEW q \in Seq(T), NEW x
  PROVE  Without(q, x) \in Seq(T)
<1>1. Len(q) \in Nat /\ DOMAIN q = 1..Len(q) /\ \A i \in 1..Len(q) : q[i] \in T
  BY LenProperties, ElementOfSeq
<1>2. CASE \A i \in DOMAIN q : q[i] # x
  BY <1>2, Absentee
<1>3. CASE \E i \in DOMAIN q : q[i] = x
  <2>1. PICK i \in DOMAIN q :
          Without(q, x) = [j \in 1..(Len(q) - 1) |-> IF j < i THEN q[j] ELSE q[j + 1]]
    BY <1>3 DEF Without
  <2>2. PICK n : n = Len(q) - 1
    OBVIOUS
  <2>3. n \in Nat
    BY <1>1, <2>1, <2>2
  <2>4. \A j \in 1..n : j \in 1..Len(q) /\ j + 1 \in 1..Len(q)
    BY <1>1, <2>2, <2>3
  <2>5. PICK p : p = [j \in 1..n |-> IF j < i THEN q[j] ELSE q[j + 1]]
    OBVIOUS
  <2>6. \A j \in 1..n : p[j] \in T
    BY <1>1, <2>4, <2>5
  <2>7. p \in [1..n -> T]
    BY <2>5, <2>6
  <2>8. p \in Seq(T)
    BY <2>3, <2>7, IsASeq
  <2>. QED
    BY <2>1, <2>2, <2>5, <2>8
<1>. QED
  BY <1>2, <1>3

LEMMA LockFields ==
  ASSUME NEW l \in Locks
  PROVE  /\ l.holder \in Tasks \cup {NoTask} /\ l.queue \in Seq(Tasks)
         /\ l = [holder |-> l.holder, queue |-> l.queue]
         /\ Len(l.queue) \in Nat /\ DOMAIN l.queue = 1..Len(l.queue)
         /\ \A i \in 1..Len(l.queue) : l.queue[i] \in Tasks
<1>1. l.holder \in Tasks \cup {NoTask} /\ l.queue \in Seq(Tasks)
      /\ l = [holder |-> l.holder, queue |-> l.queue]
  BY DEF Locks
<1>. QED
  BY <1>1, LenProperties, ElementOfSeq

LEMMA Released ==
  ASSUME NEW l \in Locks
  PROVE  /\ Release(l) \in Locks
         /\ Distinct(l) => Distinct(Release(l))
         /\ \A u : Queued(Release(l), u) <=> Queued(l, u)
BY LockFields DEF Release, Locks, Distinct, Queued

LEMMA Enqueued ==
  ASSUME NEW l \in Locks, NEW t \in Tasks
  PROVE  /\ Enqueue(l, t) \in Locks
         /\ Distinct(l) /\ ~Queued(l, t) => Distinct(Enqueue(l, t))
         /\ \A u : Queued(Enqueue(l, t), u) <=> Queued(l, u) \/ u = t
<1>1. PICK q, p : q = l.queue /\ p = Append(q, t)
  OBVIOUS
<1>2. /\ q \in Seq(Tasks) /\ Len(q) \in Nat /\ DOMAIN q = 1..Len(q)
      /\ l.holder \in Tasks \cup {NoTask}
  BY <1>1, LockFields
<1>3. /\ p \in Seq(Tasks) /\ DOMAIN p = 1..(Len(q) + 1)
      /\ \A i \in 1..Len(q) : p[i] = q[i]
      /\ p[Len(q) + 1] = t
  BY <1>1, <1>2, AppendProperties, LenProperties
<1>4. Enqueue(l, t) = [holder |-> l.holder, queue |-> p]
  BY <1>1 DEF Enqueue
<1>5. Enqueue(l, t) \in Locks
  BY <1>2, <1>3, <1>4 DEF Locks
<1>6. ASSUME NEW u PROVE Queued(Enqueue(l, t), u) <=> Queued(l, u) \/ u = t
  <2>1. (\E i \in 1..(Len(q) + 1) : p[i] = u) <=> (\E i \in 1..Len(q) : q[i] = u) \/ u = t
    BY <1>2, <1>3
  <2>. QED
    BY <1>1, <1>2, <1>3, <1>4, <2>1 DEF Queued
<1>7. Distinct(l) /\ ~Queued(l, t) => Distinct(Enqueue(l, t))
  BY <1>1, <1>2, <1>3, <1>4 DEF Distinct, Queued
<1>. QED
  BY <1>5, <1>6, <1>7

LEMMA Grants ==
  ASSUME NEW l \in Locks, NEW t \in Tasks, Granted(l, t)
  PROVE  /\ Grant(l, t) \in Locks
         /\ Distinct(l) => Distinct(Grant(l, t))
         /\ Distinct(l) => \A u : Queued(Grant(l, t), u) <=> Queued(l, u) /\ u # t
<1>1. PICK q, p : q = l.queue /\ p = Tail(q)
  OBVIOUS
<1>2. /\ q \in Seq(Tasks) /\ Len(q) \in Nat /\ DOMAIN q = 1..Len(q)
      /\ q # <<>> /\ Head(q) = t
  BY <1>1, LockFields DEF Granted
<1>3. /\ Len(q) > 0 /\ q[1] = t /\ p \in Seq(Tasks) /\ Len(p) = Len(q) - 1
      /\ \A i \in 1..Len(p) : p[i] = q[i + 1]
  BY <1>1, <1>2, HeadTailProperties, EmptySeq
<1>4. DOMAIN p = 1..(Len(q) - 1)
  BY <1>3, LenProperties
<1>5. Grant(l, t) = [holder |-> t, queue |-> p]
  BY <1>1 DEF Grant
<1>6. Grant(l, t) \in Locks
  BY <1>3, <1>5 DEF Locks
<1>7. \A i \in 1..(Len(q) - 1) : p[i] = q[i + 1] /\ i + 1 \in 1..Len(q)
  BY <1>2, <1>3
<1>8. ASSUME Distinct(l) PROVE Distinct(Grant(l, t))
  <2>1. \A i, j \in 1..Len(q) : q[i] = q[j] => i = j
    BY <1>1, <1>2, <1>8 DEF Distinct
  <2>2. ASSUME NEW i \in 1..(Len(q) - 1), NEW j \in 1..(Len(q) - 1), p[i] = p[j]
        PROVE  i = j
    <3>1. i + 1 = j + 1
      BY <1>7, <2>1, <2>2
    <3>. QED
      BY <3>1
  <2>. QED
    BY <1>4, <1>5, <2>2 DEF Distinct
<1>9. ASSUME Distinct(l), NEW u PROVE Queued(Grant(l, t), u) <=> Queued(l, u) /\ u # t
  <2>1. \A i \in 1..Len(q) : q[i] = t => i = 1
    BY <1>1, <1>2, <1>3, <1>9 DEF Distinct
  <2>2. ASSUME NEW i \in 1..Len(q), q[i] = u, u # t
        PROVE  \E j \in 1..(Len(q) - 1) : p[j] = u
    <3>1. i # 1
      BY <1>3, <2>2
    <3>2. i - 1 \in 1..(Len(q) - 1)
      BY <1>2, <3>1
    <3>3. (i - 1) + 1 = i
      BY <3>2
    <3>. QED
      BY <1>7, <2>2, <3>2, <3>3
  <2>3. ASSUME NEW j \in 1..(Len(q) - 1), p[j] = u
        PROVE  u # t /\ \E i \in 1..Len(q) : q[i] = u
    <3>1. q[j + 1] = u /\ j + 1 \in 1..Len(q) /\ j + 1 # 1
      BY <1>7, <2>3
    <3>. QED
      BY <2>1, <3>1
  <2>4. Queued(Grant(l, t), u) <=> \E j \in 1..(Len(q) - 1) : p[j] = u
    BY <1>4, <1>5 DEF Queued
  <2>5. Queued(l, u) <=> \E i \in 1..Len(q) : q[i] = u
    BY <1>1, <1>2 DEF Queued
  <2>. QED
    BY <2>2, <2>3, <2>4, <2>5
<1>. QED
  BY <1>6, <1>8, <1>9

LEMMA LettingGo ==
  ASSUME NEW l \in Locks, NEW t \in Tasks
  PROVE  /\ LetGo(l, t) \in Locks
         /\ Distinct(l) => Distinct(LetGo(l, t))
         /\ Distinct(l) => \A u : Queued(LetGo(l, t), u) <=> Queued(l, u) /\ u # t
<1>1. PICK q, p : q = l.queue /\ p = Without(q, t)
  OBVIOUS
<1>2. /\ q \in Seq(Tasks) /\ Len(q) \in Nat /\ DOMAIN q = 1..Len(q)
      /\ l.holder \in Tasks \cup {NoTask}
  BY <1>1, LockFields
<1>3. p \in Seq(Tasks)
  BY <1>1, <1>2, WithoutType
<1>4. LetGo(l, t).queue = p /\ LetGo(l, t) \in Locks
  BY <1>1, <1>2, <1>3 DEF LetGo, Locks
<1>5. CASE \A i \in DOMAIN q : q[i] # t
  <2>1. p = q
    BY <1>1, <1>5, Absentee
  <2>. QED
    BY <1>1, <1>4, <1>5, <2>1 DEF Distinct, Queued
<1>6. CASE \E i \in DOMAIN q : q[i] = t
  <2>1. PICK n \in 1..Len(q) :
          /\ q[n] = t
          /\ DOMAIN p = 1..(Len(q) - 1)
          /\ \A j \in 1..(Len(q) - 1) : p[j] = IF j < n THEN q[j] ELSE q[j + 1]
    <3>1. PICK i \in DOMAIN q :
            /\ q[i] = t
            /\ DOMAIN Without(q, t) = 1..(Len(q) - 1)
            /\ \A j \in 1..(Len(q) - 1) :
                 Without(q, t)[j] = IF j < i THEN q[j] ELSE q[j + 1]
      BY <1>6, PlaceTaken
    <3>. QED
      BY <1>1, <1>2, <3>1
  <2>2. DOMAIN p = 1..(Len(q) - 1)
    BY <2>1
  <2>3. \A j \in 1..(Len(q) - 1) :
          /\ j < n => p[j] = q[j] /\ j \in 1..Len(q)
          /\ ~(j < n) => p[j] = q[j + 1] /\ j + 1 \in 1..Len(q) /\ j + 1 > n
    BY <1>2, <2>1
  <2>4. ASSUME Distinct(l) PROVE Distinct(LetGo(l, t))
    <3>1. \A i, j \in 1..Len(q) : q[i] = q[j] => i = j
      BY <1>1, <1>2, <2>4 DEF Distinct
    <3>2. \A i, j \in 1..(Len(q) - 1) : p[i] = p[j] => i = j
      BY <1>2, <2>3, <3>1
    <3>. QED
      BY <1>4, <2>2, <3>2 DEF Distinct
  <2>5. ASSUME Distinct(l), NEW u PROVE Queued(LetGo(l, t), u) <=> Queued(l, u) /\ u # t
    <3>1. \A i \in 1..Len(q) : q[i] = t => i = n
      BY <1>1, <1>2, <2>1, <2>5 DEF Distinct
    <3>2. ASSUME NEW i \in 1..Len(q), q[i] = u, u # t
          PROVE  \E j \in 1..(Len(q) - 1) : p[j] = u
      <4>1. CASE i < n
        <5>1. i \in 1..(Len(q) - 1)
          BY <1>2, <4>1
        <5>. QED
          BY <2>3, <3>2, <4>1, <5>1
      <4>2. CASE i > n
        <5>1. i - 1 \in 1..(Len(q) - 1) /\ ~(i - 1 < n) /\ (i - 1) + 1 = i
          BY <1>2, <4>2
        <5>. QED
          BY <2>3, <3>2, <5>1
      <4>. QED
        BY <2>1, <3>2, <4>1, <4>2
    <3>3. ASSUME NEW j \in 1..(Len(q) - 1), p[j] = u
          PROVE  u # t /\ \E i \in 1..Len(q) : q[i] = u
      <4>1. CASE j < n
        <5>1. q[j] = u /\ j \in 1..Len(q)
          BY <2>3, <3>3, <4>1
        <5>2. j # n
          BY <2>1, <4>1
        <5>. QED
          BY <3>1, <5>1, <5>2
      <4>2. CASE ~(j < n)
        <5>1. q[j + 1] = u /\ j + 1 \in 1..Len(q) /\ j + 1 # n
          BY <2>3, <3>3, <4>2
        <5>. QED
          BY <3>1, <5>1
      <4>. QED
        BY <4>1, <4>2
    <3>4. Queued(LetGo(l, t), u) <=> \E j \in 1..(Len(q) - 1) : p[j] = u
      BY <1>4, <2>2 DEF Queued
    <3>5. Queued(l, u) <=> \E i \in 1..Len(q) : q[i] = u
      BY <1>1, <1>2 DEF Queued
    <3>. QED
      BY <3>2, <3>3, <3>4, <3>5
  <2>. QED
    BY <1>4, <2>4, <2>5
<1>. QED
  BY <1>5, <1>6

(* t holds the table, or takes it now from the head of the queue.          *)
OwnTable(t) ==
  \/ Waits(t) /\ Granted(tableLock, t)
  \/ ~Waits(t) /\ tableLock.holder = t

LEMMA TableOf ==
  ASSUME QueueOK, NEW t \in Tasks, OwnTable(t), NEW l,
         l = Held(t) \/ l = Release(Held(t))
  PROVE  /\ l \in Locks /\ Distinct(l)
         /\ \A u \in Tasks : Queued(l, u) <=> Queued(tableLock, u) /\ u # t
<1>1. PICK h : h = Held(t)
  OBVIOUS
<1>2. h \in Locks /\ Distinct(h)
      /\ \A u \in Tasks : Queued(h, u) <=> Queued(tableLock, u) /\ u # t
  <2>1. CASE Waits(t) /\ Granted(tableLock, t)
    <3>1. tableLock.holder # t
      BY <2>1, McpPoolAssumption DEF Granted, Tasks
    <3>2. h = Grant(tableLock, t)
      BY <1>1, <3>1 DEF Held
    <3>. QED
      BY <2>1, <3>2, Grants DEF QueueOK
  <2>2. CASE ~Waits(t) /\ tableLock.holder = t
    BY <1>1, <2>2 DEF Held, QueueOK
  <2>. QED
    BY <2>1, <2>2 DEF OwnTable
<1>. QED
  BY <1>1, <1>2, Released

(* A step of t that leaves the queue of the table, or that enters it.      *)
LEMMA QueueStep ==
  ASSUME Shape, QueueOK, NEW t \in Tasks, NEW r \in Coroutines,
         task' = [task EXCEPT ![t] = r],
         tableLock' \in Locks, Distinct(tableLock'),
         r.pc \notin {"table", "evict"} =>
           \A u \in Tasks : Queued(tableLock', u) <=> Queued(tableLock, u) /\ u # t,
         r.pc \in {"table", "evict"} =>
           \A u \in Tasks : Queued(tableLock', u) <=> Queued(tableLock, u) \/ u = t
  PROVE  QueueOK'
<1>1. task'[t] = r /\ \A u \in Tasks : u # t => task'[u] = task[u]
  BY Rewritten
<1>2. ASSUME NEW u \in Tasks PROVE Waits(u)' <=> Queued(tableLock', u)
  <2>1. CASE u = t
    BY <1>1, <2>1 DEF Waits
  <2>2. CASE u # t
    <3>1. Waits(u)' <=> Waits(u)
      BY <1>1, <2>2 DEF Waits
    <3>. QED
      BY <2>2, <3>1 DEF QueueOK
  <2>. QED
    BY <2>1, <2>2
<1>3. \A u : Queued(tableLock, u)' <=> Queued(tableLock', u)
  BY DEF Queued
<1>. QED
  BY <1>2, <1>3 DEF QueueOK, Distinct

LEMMA JanitorStep ==
  ASSUME Shape, JanitorApart, NEW t \in Tasks, NEW r \in Coroutines,
         task' = [task EXCEPT ![t] = r],
         t = Janitor => r.pc \in {"idle", "table", "closing"} /\ r.then = "done"
  PROVE  JanitorApart'
<1>1. task'[t] = r /\ \A u \in Tasks : u # t => task'[u] = task[u]
  BY Rewritten
<1>. QED
  BY <1>1 DEF JanitorApart, Tasks

(* What a coroutine that holds the table does to the rest of the state.    *)
Onward(t) ==
  /\ \E r \in Coroutines :
       /\ task' = [task EXCEPT ![t] = r]
       /\ r.pc \notin {"table", "evict"}
       /\ t = Janitor => r.pc \in {"idle", "closing"} /\ r.then = "done"
  /\ tableLock' = Held(t) \/ tableLock' = Release(Held(t))
  /\ recency' \in Seq(Keys)
  /\ idle' \subseteq Sessions
  /\ lock' \in [Sessions -> Locks]
  /\ waited' \subseteq Requests

LEMMA OnwardTypes ==
  ASSUME Shape, TypesInv, NEW t \in Tasks, OwnTable(t), Onward(t), open' \subseteq Sessions
  PROVE  TypesInv'
<1>1. PICK r \in Coroutines :
        /\ task' = [task EXCEPT ![t] = r]
        /\ r.pc \notin {"table", "evict"}
        /\ t = Janitor => r.pc \in {"idle", "closing"} /\ r.then = "done"
  BY DEF Onward
<1>2. QueueOK'
  <2>1. /\ tableLock' \in Locks /\ Distinct(tableLock')
        /\ \A u \in Tasks : Queued(tableLock', u) <=> Queued(tableLock, u) /\ u # t
    BY TableOf DEF Onward, TypesInv
  <2>. QED
    BY <1>1, <2>1, QueueStep DEF TypesInv
<1>3. JanitorApart'
  BY <1>1, JanitorStep DEF TypesInv
<1>4. RestOK'
  BY DEF Onward, RestOK
<1>. QED
  BY <1>2, <1>3, <1>4 DEF TypesInv

LEMMA LeaveOnward ==
  ASSUME TypesInv, NEW t \in Tasks, Leave(t), recency' \in Seq(Keys),
         idle' \subseteq Sessions, lock' = lock
  PROVE  Onward(t)
<1>1. Resting.then = "done"
  BY DEF Resting
<1>2. /\ task' = [task EXCEPT ![t] = Resting]
      /\ tableLock' = Release(Held(t)) /\ waited' = waited \ {t}
  BY DEF Leave, Finish
<1>. QED
  BY <1>1, <1>2, RestingType DEF Onward, TypesInv, RestOK

LEMMA PopTypes ==
  ASSUME Shape, RestOK, NEW s \in Pooled, Pop(s)
  PROVE  recency' \in Seq(Keys)
BY WithoutType DEF Pop, RestOK

LEMMA CloseAllOnward ==
  ASSUME Shape, TypesInv, NEW t \in Tasks, NEW S, S \subseteq Pooled,
         NEW then \in {"lookup", "limit", "done"}, t = Janitor => then = "done",
         CloseAll(t, S, then)
  PROVE  Onward(t)
<1>1. PICK s \in S :
        /\ Pop(s)
        /\ task' = [task EXCEPT ![t].pc = "closing", ![t].closing = s,
                                ![t].todo = S \ {s}, ![t].then = then]
  BY DEF CloseAll
<1>2. PICK y : y = task[t]
  OBVIOUS
<1>3. PICK r : r = [y EXCEPT !.pc = "closing", !.closing = s,
                             !.todo = S \ {s}, !.then = then]
  OBVIOUS
<1>4. y \in Coroutines /\ s \in Sessions /\ S \ {s} \subseteq Sessions
  BY <1>2 DEF Shape, Pooled
<1>5. r \in Coroutines /\ r.pc = "closing" /\ r.then = then
  BY <1>3, <1>4 DEF Coroutines, Pcs
<1>6. task' = [task EXCEPT ![t] = r]
  BY <1>1, <1>2, <1>3 DEF Shape
<1>7. recency' \in Seq(Keys)
  BY <1>1, PopTypes DEF TypesInv
<1>. QED
  BY <1>5, <1>6, <1>7 DEF Onward, CloseAll, TypesInv, RestOK

LEMMA LimitOnward ==
  ASSUME Shape, TypesInv, NEW t \in Requests, Limit(t)
  PROVE  Onward(t)
<1>1. t \in Tasks /\ t # Janitor
  BY McpPoolAssumption DEF Tasks
<1>2. CASE /\ tableLock' = Held(t)
           /\ task' = [task EXCEPT ![t].pc = "connect", ![t].closing = NoSession]
           /\ UNCHANGED <<pool, recency, idle, lock, waited>>
  <2>1. PICK y, r : y = task[t] /\ r = [y EXCEPT !.pc = "connect", !.closing = NoSession]
    OBVIOUS
  <2>2. y \in Coroutines
    BY <1>1, <2>1 DEF Shape
  <2>3. r \in Coroutines /\ r.pc = "connect"
    BY <2>1, <2>2 DEF Coroutines, Pcs
  <2>4. task' = [task EXCEPT ![t] = r]
    BY <1>1, <1>2, <2>1 DEF Shape
  <2>. QED
    BY <1>1, <1>2, <2>3, <2>4 DEF Onward, TypesInv, RestOK
<1>3. CASE \E k \in Keys : Oldest(k) /\ CloseAll(t, {pool[k]}, "limit")
  <2>1. PICK k \in Keys : Oldest(k) /\ CloseAll(t, {pool[k]}, "limit")
    BY <1>3
  <2>2. {pool[k]} \subseteq Pooled
    BY <2>1 DEF Oldest, Evictable, Pooled
  <2>. QED
    BY <1>1, <2>1, <2>2, CloseAllOnward
<1>4. CASE Leave(t) /\ UNCHANGED <<pool, recency, idle, lock>>
  BY <1>1, <1>4, LeaveOnward DEF TypesInv, RestOK
<1>. QED
  BY <1>2, <1>3, <1>4 DEF Limit

LEMMA TouchTypes ==
  ASSUME RestOK, NEW k \in Keys, Touch(k)
  PROVE  recency' \in Seq(Keys) /\ idle' \subseteq Sessions
<1>1. Without(recency, k) \in Seq(Keys)
  BY WithoutType DEF RestOK
<1>2. Append(Without(recency, k), k) \in Seq(Keys)
  BY <1>1, AppendProperties
<1>. QED
  BY <1>2 DEF Touch, RestOK

LEMMA AdmitTypes ==
  ASSUME Shape, RestOK, NEW t \in Requests, NEW s \in Sessions, Admit(t, s)
  PROVE  /\ \E r \in Coroutines :
              task' = [task EXCEPT ![t] = r] /\ r.pc \in {"call", "wait"}
         /\ lock' \in [Sessions -> Locks]
         /\ waited' \subseteq Requests
<1>0. t \in Tasks /\ lock \in [Sessions -> Locks] /\ lock[s] \in Locks
  BY DEF Tasks, RestOK
<1>1. PICK pc \in {"call", "wait"} :
        /\ task' = [task EXCEPT ![t].pc = pc, ![t].session = s]
        /\ \/ lock' = [lock EXCEPT ![s].holder = t]
           \/ lock' = [lock EXCEPT ![s] = Enqueue(@, t)]
        /\ waited' = waited \/ waited' = waited \cup {t}
  BY DEF Admit
<1>2. PICK y, r : y = task[t] /\ r = [y EXCEPT !.pc = pc, !.session = s]
  OBVIOUS
<1>3. y \in Coroutines
  BY <1>0, <1>2 DEF Shape
<1>4. r \in Coroutines /\ r.pc = pc
  BY <1>2, <1>3 DEF Coroutines, Pcs
<1>5. task' = [task EXCEPT ![t] = r]
  BY <1>0, <1>1, <1>2 DEF Shape
<1>6. lock' \in [Sessions -> Locks]
  <2>1. [lock[s] EXCEPT !.holder = t] \in Locks
    BY <1>0 DEF Locks
  <2>2. Enqueue(lock[s], t) \in Locks
    BY <1>0, Enqueued
  <2>. QED
    BY <1>0, <1>1, <2>1, <2>2
<1>7. waited' \subseteq Requests
  BY <1>1 DEF RestOK
<1>. QED
  BY <1>4, <1>5, <1>6, <1>7

LEMMA LookupOnward ==
  ASSUME Shape, TypesInv, NEW t \in Requests, task[t].key \in Keys, Lookup(t)
  PROVE  Onward(t)
<1>. DEFINE k == task[t].key
<1>0. t \in Tasks /\ t # Janitor
  BY McpPoolAssumption DEF Tasks
<1>1. CASE /\ pool[k] # NoSession /\ Touch(k)
           /\ tableLock' = Release(Held(t)) /\ Admit(t, pool[k])
  <2>1. pool[k] \in Sessions
    BY <1>1 DEF Shape
  <2>. QED
    BY <1>0, <1>1, <2>1, TouchTypes, AdmitTypes DEF Onward, TypesInv
<1>2. CASE Touch(k) /\ Leave(t) /\ UNCHANGED lock
  BY <1>0, <1>2, TouchTypes, LeaveOnward DEF TypesInv
<1>3. CASE Supersede(t)
  <2>. DEFINE old == {s \in Pooled : KeyOf(s)[1] = task[t].key[1] /\ ~InUse(s)}
  <2>1. CASE CloseAll(t, old, "limit")
    <3>1. old \subseteq Pooled
      OBVIOUS
    <3>. QED
      BY <1>0, <2>1, <3>1, CloseAllOnward
  <2>2. CASE Limit(t)
    BY <2>2, LimitOnward
  <2>. QED
    BY <1>3, <2>1, <2>2 DEF Supersede
<1>. QED
  BY <1>1, <1>2, <1>3 DEF Lookup

LEMMA ResumeOnward ==
  ASSUME Shape, TypesInv, NEW t \in Tasks, NEW then, Resume(t, then),
         then # "done" => t \in Requests /\ task[t].key \in Keys
  PROVE  Onward(t)
<1>1. CASE then = "lookup" /\ Lookup(t)
  BY <1>1, LookupOnward
<1>2. CASE then = "limit" /\ Limit(t)
  BY <1>2, LimitOnward
<1>3. CASE then = "done" /\ Leave(t) /\ UNCHANGED <<pool, recency, idle, lock>>
  BY <1>3, LeaveOnward DEF TypesInv, RestOK
<1>. QED
  BY <1>1, <1>2, <1>3 DEF Resume

----------------------------------------------------------------------------
LEMMA TakeTableTypes ==
  ASSUME PoolInv, TypesInv, NEW t \in Tasks, TakeTable(t)
  PROVE  TypesInv'
<1>. DEFINE expired == {s \in Pooled : s \in idle /\ ~InUse(s)}
            then == IF t = Janitor THEN "done" ELSE "lookup"
<1>1. /\ Shape /\ OwnTable(t) /\ Clean(t) /\ open' \subseteq Sessions
  BY DEF TakeTable, PoolInv, OwnTable, Waits, At, TypesInv, RestOK
<1>2. then # "done" => t \in Requests /\ task[t].key \in Keys
  BY DEF TakeTable, PoolInv, KeyKnown, At, Tasks
<1>3. CASE CloseAll(t, expired, then)
  <2>1. expired \subseteq Pooled
    OBVIOUS
  <2>2. Onward(t)
    BY <1>1, <1>3, <2>1, CloseAllOnward
  <2>. QED
    BY <1>1, <2>2, OnwardTypes
<1>4. CASE Resume(t, then)
  <2>1. Onward(t)
    BY <1>1, <1>2, <1>4, ResumeOnward
  <2>. QED
    BY <1>1, <2>1, OnwardTypes
<1>. QED
  BY <1>1, <1>3, <1>4 DEF Clean

LEMMA ClosedTypes ==
  ASSUME PoolInv, TypesInv, NEW t \in Tasks, Closed(t)
  PROVE  TypesInv'
<1>. DEFINE left == task[t].todo \cap Pooled
            then == task[t].then
<1>1. /\ Shape /\ OwnTable(t) /\ open' \subseteq Sessions
  BY DEF Closed, PoolInv, TableHeld, OwnTable, Waits, At, TypesInv, RestOK
<1>2. /\ then \in {"lookup", "limit", "done"}
      /\ then # "done" => t \in Requests /\ task[t].key \in Keys
      /\ t = Janitor => then = "done"
  BY DEF Closed, PoolInv, Shape, Coroutines, KeyKnown, At, TypesInv, JanitorApart, Tasks
<1>3. CASE CloseAll(t, left, then)
  <2>1. left \subseteq Pooled
    OBVIOUS
  <2>2. Onward(t)
    BY <1>1, <1>2, <1>3, <2>1, CloseAllOnward
  <2>. QED
    BY <1>1, <2>2, OnwardTypes
<1>4. CASE Resume(t, then)
  <2>1. Onward(t)
    BY <1>1, <1>2, <1>4, ResumeOnward
  <2>. QED
    BY <1>1, <2>1, OnwardTypes
<1>. QED
  BY <1>3, <1>4 DEF Closed

LEMMA EvictTypes ==
  ASSUME PoolInv, TypesInv, NEW t \in Tasks, Evict(t)
  PROVE  TypesInv'
<1>. DEFINE victim == Victim(t, task[t].session)
<1>1. /\ Shape /\ OwnTable(t) /\ EvictSession(t) /\ open' \subseteq Sessions
      /\ task[t].key \in Keys
  BY DEF Evict, PoolInv, KeyKnown, OwnTable, Waits, At, TypesInv, RestOK
<1>2. CASE CloseAll(t, victim, "done")
  <2>1. task[t].session \in spoiled /\ task[t].session # NoSession
    BY NotASession DEF Evict, PoolInv, Shape, Blamed
  <2>2. victim \subseteq Pooled
    BY <1>1, <2>1 DEF Victim, Pooled
  <2>3. Onward(t)
    BY <1>1, <1>2, <2>2, CloseAllOnward
  <2>. QED
    BY <1>1, <2>3, OnwardTypes
<1>3. CASE Resume(t, "done")
  <2>1. Onward(t)
    BY <1>1, <1>3, ResumeOnward
  <2>. QED
    BY <1>1, <2>1, OnwardTypes
<1>. QED
  BY <1>1, <1>2, <1>3 DEF EvictSession

LEMMA ConnectTypes ==
  ASSUME PoolInv, TypesInv, NEW t \in Tasks, Connect(t)
  PROVE  TypesInv'
<1>. DEFINE s == opened + 1
<1>1. s \in Sessions /\ Touch(task[t].key) /\ Admit(t, s) /\ open' = open \cup {s}
  BY McpPoolAssumption DEF Connect, PoolInv, Shape, Sessions
<1>2. /\ Shape /\ OwnTable(t) /\ task[t].key \in Keys /\ t \in Requests
      /\ tableLock' = Release(Held(t))
  BY DEF Connect, PoolInv, KeyKnown, TableHeld, OwnTable, Waits, At, Held,
         TypesInv, JanitorApart, Tasks
<1>3. Onward(t)
  <2>1. recency' \in Seq(Keys) /\ idle' \subseteq Sessions
    BY <1>1, <1>2, TouchTypes DEF TypesInv
  <2>2. /\ \E r \in Coroutines :
              task' = [task EXCEPT ![t] = r] /\ r.pc \in {"call", "wait"}
        /\ lock' \in [Sessions -> Locks] /\ waited' \subseteq Requests
    BY <1>1, <1>2, AdmitTypes DEF TypesInv
  <2>. QED
    BY <1>2, <2>1, <2>2, McpPoolAssumption DEF Onward
<1>. QED
  BY <1>1, <1>2, <1>3, OnwardTypes DEF TypesInv, RestOK

LEMMA RefusedTypes ==
  ASSUME PoolInv, TypesInv, NEW t \in Tasks, Refused(t)
  PROVE  TypesInv'
<1>1. Shape /\ OwnTable(t) /\ open' \subseteq Sessions
  BY DEF Refused, PoolInv, TableHeld, OwnTable, Waits, At, TypesInv, RestOK
<1>2. Onward(t)
  BY LeaveOnward DEF Refused, TypesInv, RestOK
<1>. QED
  BY <1>1, <1>2, OnwardTypes

(* Steps that do not touch the table: t waits for it neither before nor    *)
(* after.                                                                  *)
LEMMA AsideTypes ==
  ASSUME Shape, TypesInv, NEW t \in Tasks, NEW r \in Coroutines,
         task' = [task EXCEPT ![t] = r], ~Waits(t), r.pc \in {"call", "idle"},
         t \in Requests, tableLock' = tableLock, RestOK'
  PROVE  TypesInv'
<1>1. ~Queued(tableLock, t)
  BY DEF TypesInv, QueueOK
<1>2. QueueOK'
  BY <1>1, QueueStep DEF TypesInv, QueueOK
<1>3. JanitorApart'
  BY JanitorStep, McpPoolAssumption DEF TypesInv
<1>. QED
  BY <1>2, <1>3 DEF TypesInv

LEMMA TurnTypes ==
  ASSUME PoolInv, TypesInv, NEW t \in Tasks, Turn(t)
  PROVE  TypesInv'
<1>. DEFINE s == task[t].session
<1>1. /\ s \in Sessions /\ t \in Requests /\ ~Waits(t) /\ Shape
      /\ task[t] \in Coroutines
  BY DEF Turn, PoolInv, Shape, Waited, Waits, At, TypesInv, JanitorApart, Tasks
<1>2. PICK r : r = [task[t] EXCEPT !.pc = "call"]
  OBVIOUS
<1>3. r \in Coroutines /\ r.pc = "call" /\ task' = [task EXCEPT ![t] = r]
  BY <1>1, <1>2 DEF Turn, Coroutines, Pcs
<1>4. lock' \in [Sessions -> Locks]
  <2>1. Grant(lock[s], t) \in Locks
    BY <1>1, Grants DEF Turn, TypesInv, RestOK
  <2>. QED
    BY <1>1, <2>1 DEF Turn, TypesInv, RestOK
<1>5. RestOK'
  BY <1>4 DEF Turn, TypesInv, RestOK
<1>. QED
  BY <1>1, <1>3, <1>5, AsideTypes DEF Turn

LEMMA ReturnTypes ==
  ASSUME PoolInv, TypesInv, NEW t \in Tasks, Return(t)
  PROVE  TypesInv'
<1>. DEFINE s == task[t].session
<1>1. /\ s \in Sessions /\ t \in Requests /\ ~Waits(t) /\ Shape
      /\ task[t].key \in Keys
  BY DEF Return, PoolInv, CallHolds, KeyKnown, Waits, At, TypesInv, JanitorApart, Tasks
<1>2. task' = [task EXCEPT ![t] = Resting] /\ waited' = waited \ {t}
  BY DEF Return, Finish
<1>3. lock' \in [Sessions -> Locks]
  <2>1. Release(lock[s]) \in Locks
    BY <1>1, Released DEF TypesInv, RestOK
  <2>. QED
    BY <1>1, <2>1 DEF Return, TypesInv, RestOK
<1>4. recency' \in Seq(Keys) /\ idle' \subseteq Sessions
  BY <1>1, TouchTypes DEF Return, TypesInv, RestOK
<1>5. RestOK'
  BY <1>2, <1>3, <1>4 DEF Return, TypesInv, RestOK
<1>. QED
  BY <1>1, <1>2, <1>5, RestingType, AsideTypes DEF Return

(* Steps by which t asks for the table.                                    *)
LEMMA AskTypes ==
  ASSUME Shape, TypesInv, NEW t \in Tasks, NEW r \in Coroutines,
         task' = [task EXCEPT ![t] = r], ~Waits(t), r.pc \in {"table", "evict"},
         t = Janitor => r.pc = "table" /\ r.then = "done",
         tableLock' = Enqueue(tableLock, t), RestOK'
  PROVE  TypesInv'
<1>1. ~Queued(tableLock, t)
  BY DEF TypesInv, QueueOK
<1>2. /\ tableLock' \in Locks /\ Distinct(tableLock')
      /\ \A u \in Tasks : Queued(tableLock', u) <=> Queued(tableLock, u) \/ u = t
  BY <1>1, Enqueued DEF TypesInv, QueueOK
<1>3. QueueOK'
  BY <1>2, QueueStep DEF TypesInv
<1>4. JanitorApart'
  BY JanitorStep DEF TypesInv
<1>. QED
  BY <1>3, <1>4 DEF TypesInv

LEMMA SubmitTypes ==
  ASSUME PoolInv, TypesInv, NEW t \in Requests, NEW k \in Keys, Submit(t, k)
  PROVE  TypesInv'
<1>1. PICK r : r = [Resting EXCEPT !.pc = "table", !.key = k]
  OBVIOUS
<1>2. r \in Coroutines /\ r.pc = "table"
  BY <1>1 DEF Resting, Coroutines, Pcs
<1>3. task' = [task EXCEPT ![t] = r] /\ ~Waits(t) /\ t # Janitor /\ t \in Tasks /\ Shape
  BY <1>1, McpPoolAssumption DEF Submit, Waits, At, Tasks, PoolInv
<1>4. RestOK' /\ tableLock' = Enqueue(tableLock, t)
  BY DEF Submit, TypesInv, RestOK
<1>. QED
  BY <1>2, <1>3, <1>4, AskTypes

LEMMA WakeTypes ==
  ASSUME PoolInv, TypesInv, Wake
  PROVE  TypesInv'
<1>1. PICK y, r : y = task[Janitor] /\ r = [y EXCEPT !.pc = "table"]
  OBVIOUS
<1>2. Janitor \in Tasks /\ Shape /\ y \in Coroutines
  BY <1>1 DEF PoolInv, Shape, Tasks
<1>3. r \in Coroutines /\ r.pc = "table" /\ r.then = y.then
  BY <1>1, <1>2 DEF Coroutines, Pcs
<1>4. task' = [task EXCEPT ![Janitor] = r] /\ ~Waits(Janitor) /\ y.then = "done"
  BY <1>1 DEF Wake, Waits, At, TypesInv, JanitorApart
<1>5. RestOK' /\ tableLock' = Enqueue(tableLock, Janitor)
  BY DEF Wake, TypesInv, RestOK
<1>. QED
  BY <1>2, <1>3, <1>4, <1>5, AskTypes

LEMMA RaiseTypes ==
  ASSUME PoolInv, TypesInv, NEW t \in Tasks, Raise(t)
  PROVE  TypesInv'
<1>. DEFINE s == task[t].session
<1>1. /\ s \in Sessions /\ t # Janitor /\ ~Waits(t) /\ Shape
      /\ task[t] \in Coroutines
  BY DEF Raise, PoolInv, Shape, CallHolds, Waits, At, TypesInv, JanitorApart
<1>2. PICK r : r = [task[t] EXCEPT !.pc = "evict"]
  OBVIOUS
<1>3. r \in Coroutines /\ r.pc = "evict" /\ task' = [task EXCEPT ![t] = r]
  BY <1>1, <1>2 DEF Raise, Coroutines, Pcs
<1>4. lock' \in [Sessions -> Locks]
  <2>1. Release(lock[s]) \in Locks
    BY <1>1, Released DEF TypesInv, RestOK
  <2>. QED
    BY <1>1, <2>1 DEF Raise, TypesInv, RestOK
<1>5. RestOK' /\ tableLock' = Enqueue(tableLock, t)
  BY <1>4 DEF Raise, TypesInv, RestOK
<1>. QED
  BY <1>1, <1>3, <1>5, AskTypes

LEMMA CancelTypes ==
  ASSUME PoolInv, TypesInv, NEW t \in Requests, Cancel(t)
  PROVE  TypesInv'
<1>1. /\ task' = [task EXCEPT ![t] = Resting] /\ waited' = waited \ {t}
      /\ t \in Tasks /\ t # Janitor /\ Shape
  BY McpPoolAssumption DEF Cancel, Finish, Tasks, PoolInv
<1>2. /\ tableLock' \in Locks /\ Distinct(tableLock')
      /\ \A u \in Tasks : Queued(tableLock', u) <=> Queued(tableLock, u) /\ u # t
  BY <1>1, LettingGo DEF Cancel, TypesInv, QueueOK
<1>3. QueueOK'
  BY <1>1, <1>2, RestingType, QueueStep DEF TypesInv
<1>4. JanitorApart'
  BY <1>1, RestingType, JanitorStep DEF TypesInv
<1>5. lock' \in [Sessions -> Locks]
  <2>1. \A s \in Sessions : LetGo(lock[s], t) \in Locks
    BY <1>1, LettingGo DEF TypesInv, RestOK
  <2>. QED
    BY <2>1 DEF Cancel
<1>6. RestOK'
  BY <1>1, <1>5 DEF Cancel, TypesInv, RestOK
<1>. QED
  BY <1>3, <1>4, <1>6 DEF TypesInv

LEMMA QuietTypes ==
  ASSUME TypesInv, idle' \subseteq Sessions,
         UNCHANGED <<recency, open, tableLock, lock, task, waited>>
  PROVE  TypesInv'
BY DEF TypesInv, QueueOK, Distinct, Waits, Queued, JanitorApart, RestOK

LEMMA TypesNext ==
  ASSUME PoolInv, TypesInv, [Next]_vars
  PROVE  TypesInv'
<1>1. CASE \E t \in Requests, k \in Keys : Submit(t, k)
  BY <1>1, SubmitTypes
<1>2. CASE Wake
  BY <1>2, WakeTypes
<1>3. CASE \E t \in Tasks : Step(t)
  BY <1>3, TakeTableTypes, ClosedTypes, ConnectTypes, RefusedTypes, TurnTypes,
     ReturnTypes, RaiseTypes, EvictTypes DEF Step
<1>4. CASE \E t \in Requests : Cancel(t)
  BY <1>4, CancelTypes
<1>5. CASE \E s \in Sessions : Age(s)
  BY <1>5, QuietTypes DEF Age, TypesInv, RestOK
<1>6. CASE UNCHANGED vars
  BY <1>6, QuietTypes DEF vars, TypesInv, RestOK
<1>. QED
  BY <1>1, <1>2, <1>3, <1>4, <1>5, <1>6 DEF Next

LEMMA TypesInit == Init => TypesInv
<1>. SUFFICES ASSUME Init PROVE TypesInv
  OBVIOUS
<1>1. FreeLock \in Locks /\ FreeLock.queue = <<>> /\ DOMAIN <<>> = {}
  BY EmptySeq DEF FreeLock, Locks
<1>2. \A t \in Tasks : task[t] = Resting
  BY DEF Init
<1>3. QueueOK
  BY <1>1, <1>2 DEF Init, QueueOK, Distinct, Queued, Waits, Resting
<1>4. JanitorApart
  BY <1>2 DEF JanitorApart, Tasks, Resting
<1>5. RestOK
  BY <1>1, EmptySeq DEF Init, RestOK
<1>. QED
  BY <1>3, <1>4, <1>5 DEF TypesInv

(* A coroutine is in the queue of the table's lock exactly while it waits  *)
(* for the table, once, through calls, failures and cancellations, and the *)
(* rest of the state of the pool has its type.                             *)
THEOREM PoolIsTyped == Spec => []TypeOK
<1>1. PoolInv /\ TypesInv /\ [Next]_vars => TypesInv'
  BY TypesNext
<1>2. PoolInv /\ TypesInv => TypeOK
  BY DEF PoolInv, Shape, TypesInv, QueueOK, RestOK, Queued, Waits, TypeOK
<1>. QED
  BY <1>1, <1>2, Invariance, TypesInit, PTL DEF Spec
=============================================================================
