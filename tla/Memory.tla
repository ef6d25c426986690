------------------------------- MODULE Memory -------------------------------
(***************************************************************************)
(* Long-term memory of one user: the native PostgreSQL provider with its   *)
(* versioned rows and the old aggregate table, the explicit saves of the   *)
(* user's turns, and the job that extracts candidates from what the user   *)
(* said, decides on them and applies them.                                 *)
(*                                                                         *)
(* A call of the provider is one transaction at READ COMMITTED; its two    *)
(* steps are the row lock of its SELECT ... FOR UPDATE or UPDATE, which    *)
(* may have to wait, and the commit.  The job is kept alone by an advisory *)
(* lock on its database session and loses it with the connection.          *)
(*                                                                         *)
(* Keys stand for the identity of a fact (tenant, user, scope, namespace,  *)
(* agent, memory_key), all of namespace preferences and scope user_global, *)
(* the ones that user_memories mirrors.  Confidence is in percent.  A      *)
(* message gives at most one candidate (five in the code).                 *)
(***************************************************************************)
EXTENDS Integers, Sequences, FiniteSets, SequencesExt

CONSTANTS Keys, Values, NoValue, Users, Jobs, NoJob,
          History,     \* what the user said, in the order of createdAt
          MaxRows,     \* bound on the rows of a key
          Offered,     \* the candidates that the language model may name
          AutoApply, ForgetAt  \* MEMORY_AUTO_APPLY_THRESHOLD, MEMORY_FORGET_THRESHOLD

ASSUME MemoryAssumption ==
  /\ Users \cap Jobs = {}
  /\ NoJob \notin Jobs
  /\ NoValue \notin Values
  /\ Keys # {}
  /\ IsInjective(History)
  /\ MaxRows \in Nat
  /\ AutoApply \in 0..100
  /\ ForgetAt \in 0..100

Clients == Users \cup Jobs
Messages == ToSet(History)

VARIABLES
  rows,    \* memory_items: per key its rows in the order of their ids
  mirror,  \* user_memories.facts
  op,      \* the provider call of each client
  done,    \* memory_extraction_messages: status per message
  cand,    \* memory_candidates per message, key and operation: its status,
           \* "settled" for rejected, needs_review and skipped
  run,     \* the extraction run of each job process
  holder   \* who holds the advisory lock of the jobs

vars == <<rows, mirror, op, done, cand, run, holder>>

-----------------------------------------------------------------------------
\* memory_items

Kinds == {"explicit", "automatic", "legacy"}
RowStatus == {"active", "superseded", "deleted", "expired"}

Row == [value : Values, kind : Kinds, conf : 0..100, status : RowStatus,
        version : 1..MaxRows, supersedes : 0..MaxRows,
        until : {"never", "later", "past"}] \* valid_until

Active(k) == {i \in DOMAIN rows[k] : rows[k][i].status = "active"}

\* The row a reader is given: recall and get_current leave out due rows.
Current(k) == {i \in Active(k) : rows[k][i].until # "past"}

LockedBy(c, k, i) == op[c].phase = "holding" /\ op[c].key = k /\ op[c].cur = i
Locked(k, i) == \E c \in Clients : LockedBy(c, k, i)

-----------------------------------------------------------------------------
\* Calls of the provider: value = NoValue is forget, anything else remember.

NoOp == [phase |-> "none", key |-> CHOOSE k \in Keys : TRUE, value |-> NoValue,
         kind |-> "explicit", conf |-> 100, ttl |-> FALSE, cur |-> 0]

Phases == {"none", "asked", "waiting", "holding", "changed", "failed"}

Asking(k, v, kind, conf, ttl) ==
  [NoOp EXCEPT !.phase = "asked", !.key = k, !.value = v, !.kind = kind,
               !.conf = conf, !.ttl = ttl]

\* The row lock.  A row locked by another call is waited for; the call then
\* gets it if it is still active and otherwise finds no row, not even one that
\* was inserted while it waited.
Look(c) ==
  /\ op[c].phase = "asked"
  /\ LET k == op[c].key IN
     op' = [op EXCEPT ![c] =
       IF Active(k) = {} THEN [@ EXCEPT !.phase = "holding", !.cur = 0]
       ELSE LET i == CHOOSE i \in Active(k) : TRUE IN
            [@ EXCEPT !.phase = IF Locked(k, i) THEN "waiting" ELSE "holding", !.cur = i]]
  /\ UNCHANGED <<rows, mirror, done, cand, run, holder>>

WokenWithTheRow(c) ==
  /\ op[c].phase = "waiting"
  /\ ~Locked(op[c].key, op[c].cur)
  /\ op' = [op EXCEPT ![c].phase = "holding"]
  /\ UNCHANGED <<rows, mirror, done, cand, run, holder>>

Woken(c) ==
  /\ op[c].phase = "waiting"
  /\ ~Locked(op[c].key, op[c].cur)
  /\ op' = [op EXCEPT ![c].phase = "holding",
                      ![c].cur = IF @ \in Active(op[c].key) THEN @ ELSE 0]
  /\ UNCHANGED <<rows, mirror, done, cand, run, holder>>

\* The answer of a commit may be lost.
Commit(c) ==
  \E a \in {"changed", "failed"} : op' = [op EXCEPT ![c] = [NoOp EXCEPT !.phase = a]]

\* remember: the same fact without a time limit is left as it is.
Same(c) ==
  /\ op[c].cur # 0
  /\ rows[op[c].key][op[c].cur].value = op[c].value
  /\ ~op[c].ttl
  /\ rows[op[c].key][op[c].cur].until = "never"

NewRow(c) ==
  LET k == op[c].key  i == op[c].cur IN
  [value |-> op[c].value, kind |-> op[c].kind, conf |-> op[c].conf, status |-> "active",
   version |-> IF i = 0 THEN 1 ELSE rows[k][i].version + 1,
   supersedes |-> i, until |-> IF op[c].ttl THEN "later" ELSE "never"]

\* uq_memory_items_active_identity: one active row per key.
Unique(c) == op[c].cur # 0 \/ Active(op[c].key) = {}

\* A row that is no longer active is past its time: an earlier limit of a
\* superseded row is kept in the code but read by nobody.
Retired(k, i, status) ==
  IF i = 0 THEN rows[k]
  ELSE [rows[k] EXCEPT ![i].status = status, ![i].until = "past"]

Remember(c) ==
  /\ op[c].phase = "holding"
  /\ op[c].value # NoValue
  /\ ~Same(c)
  /\ Unique(c)
  /\ Len(rows[op[c].key]) < MaxRows
  /\ LET k == op[c].key IN
     /\ rows' = [rows EXCEPT ![k] = Append(Retired(k, op[c].cur, "superseded"), NewRow(c))]
     /\ mirror' = [mirror EXCEPT ![k] = op[c].value]
  /\ Commit(c)
  /\ UNCHANGED <<done, cand, run, holder>>

RememberSame(c) ==
  /\ op[c].phase = "holding"
  /\ op[c].value # NoValue
  /\ Same(c)
  /\ Commit(c)
  /\ UNCHANGED <<rows, mirror, done, cand, run, holder>>

ForgetRowOnly(c) ==
  /\ op[c].phase = "holding"
  /\ op[c].value = NoValue
  /\ op[c].cur # 0
  /\ rows' = [rows EXCEPT ![op[c].key] = Retired(op[c].key, op[c].cur, "deleted")]
  /\ Commit(c)
  /\ UNCHANGED <<mirror, done, cand, run, holder>>

\* forget changes the row and removes the mirrored fact, if there was a row.
Forget(c) ==
  /\ op[c].phase = "holding"
  /\ op[c].value = NoValue
  /\ op[c].cur # 0
  /\ rows' = [rows EXCEPT ![op[c].key] = Retired(op[c].key, op[c].cur, "deleted")]
  /\ mirror' = [mirror EXCEPT ![op[c].key] = NoValue]
  /\ Commit(c)
  /\ UNCHANGED <<done, cand, run, holder>>

\* MemoryService makes every exception a result: a lost connection, the unique
\* index; forget answers the same when there was no row.
ProviderError(c) ==
  /\ op[c].phase \in {"asked", "waiting", "holding"}
  /\ op' = [op EXCEPT ![c] = [NoOp EXCEPT !.phase = "failed"]]
  /\ UNCHANGED <<rows, mirror, done, cand, run, holder>>

Answered(c) == op[c].phase \in {"changed", "failed"}

-----------------------------------------------------------------------------
\* The user

\* The tool save_user_memory of one of the user's turns.
SaveUserMemory(u, k, v) ==
  /\ Answered(u) \/ op[u].phase = "none"
  /\ op' = [op EXCEPT ![u] = Asking(k, v, "explicit", 100, FALSE)]
  /\ UNCHANGED <<rows, mirror, done, cand, run, holder>>

-----------------------------------------------------------------------------
\* Time, the sweep and the migration

Elapse(k) ==
  /\ \E i \in Current(k) :
       /\ rows[k][i].until = "later"
       /\ rows' = [rows EXCEPT ![k][i].until = "past"]
  /\ UNCHANGED <<mirror, op, done, cand, run, holder>>

\* expire_due: due rows that no call has locked.
Swept(k) ==
  [i \in DOMAIN rows[k] |->
     IF i \in Active(k) /\ rows[k][i].until = "past" /\ ~Locked(k, i)
     THEN [rows[k][i] EXCEPT !.status = "expired"] ELSE rows[k][i]]

\* db_migrate.py takes the mirrored facts without an active row for facts of
\* the time before memory_items.
Migrate ==
  LET K == {k \in Keys : mirror[k] # NoValue /\ Active(k) = {}} IN
  /\ K # {}
  /\ \A k \in K : Len(rows[k]) < MaxRows
  /\ rows' = [k \in Keys |->
       IF k \in K
       THEN Append(rows[k], [value |-> mirror[k], kind |-> "legacy", conf |-> 100,
                             status |-> "active", version |-> 1, supersedes |-> 0,
                             until |-> "never"])
       ELSE rows[k]]
  /\ UNCHANGED <<mirror, op, done, cand, run, holder>>

-----------------------------------------------------------------------------
\* The extraction job

\* What the parser lets through of the language model's answer.  admissible:
\* not inferred, not sensitive, not of a namespace the tenant manages, not
\* private to an agent that is not named; forgetting asks for an instruction.
Candidates ==
  [key : Keys, value : Values \cup {NoValue}, conf : 0..100,
   intent : BOOLEAN, ttl : BOOLEAN, admissible : BOOLEAN]

ASSUME OfferedAssumption == Offered \subseteq Candidates

Operation(d) == IF d.value = NoValue THEN "forget" ELSE "upsert"

Off == [at |-> "off", todo |-> <<>>, d |-> {}, status |-> "none"]
Stages == {"off", "message", "queued", "applying", "decided", "marked"}

Step(j, at) == run' = [run EXCEPT ![j].at = at]

\* A run that does not get the lock is skipped.  It sweeps and lists the
\* messages of the last day up to now.
StartRun(j) ==
  /\ run[j].at = "off"
  /\ holder = NoJob
  /\ holder' = j
  /\ rows' = [k \in Keys |-> Swept(k)]
  /\ \E a \in 1..Len(History), b \in 0..Len(History) :
       run' = [run EXCEPT ![j] = [Off EXCEPT !.at = "message", !.todo = SubSeq(History, a, b)]]
  /\ UNCHANGED <<mirror, op, done, cand>>

AtMessage(j) == run[j].at = "message" /\ run[j].todo # <<>>

NextMessage(j) ==
  run' = [run EXCEPT ![j] = [Off EXCEPT !.at = "message", !.todo = Tail(run[j].todo)]]

\* Completed before, anonymous, or the control plane does not answer.
SkipMessage(j) ==
  /\ AtMessage(j)
  /\ NextMessage(j)
  /\ UNCHANGED <<rows, mirror, op, done, cand, holder>>

\* The language model's candidate is enqueued; one that the same message gave
\* before for the same key and operation keeps its row.
Extract(j, d) ==
  /\ AtMessage(j)
  /\ LET m == Head(run[j].todo) IN
     /\ done[m] # "completed"
     /\ cand' = [cand EXCEPT ![m][d.key][Operation(d)] = IF @ = "none" THEN "pending" ELSE @]
  /\ run' = [run EXCEPT ![j].at = "queued", ![j].d = {d}]
  /\ UNCHANGED <<rows, mirror, op, done, holder>>

NothingExtracted(j) ==
  /\ AtMessage(j)
  /\ done[Head(run[j].todo)] # "completed"
  /\ done' = [done EXCEPT ![Head(run[j].todo)] = "completed"]
  /\ NextMessage(j)
  /\ UNCHANGED <<rows, mirror, op, cand, holder>>

Cand(j) == CHOOSE d \in run[j].d : TRUE

Decide(j, status) == run' = [run EXCEPT ![j].at = "decided", ![j].status = status]

Threshold(d) == IF d.value = NoValue THEN ForgetAt ELSE AutoApply
Confident(d) == d.admissible /\ d.conf >= Threshold(d)

\* Rejected or left for review without a look at the current fact.
RefuseUnread(j) ==
  /\ run[j].at = "queued"
  /\ ~Confident(Cand(j))
  /\ Decide(j, "settled")
  /\ UNCHANGED <<rows, mirror, op, done, cand, holder>>

\* get_current: what the resolver sees, as a set of at most one row.  It is
\* nothing, too, when the provider fails.
Seen(k) == {{rows[k][i] : i \in Current(k)}, {}}

Duplicate(d, seen) == \E r \in seen : r.value = d.value

\* The conflict rules for a candidate to store.
Conflict(d, seen) ==
  \E r \in seen :
    \/ /\ r.kind = "explicit"
       /\ ~d.intent \/ d.conf < 95
    \/ /\ r.kind = "automatic"
       /\ d.conf + 5 < r.conf
       /\ ~d.intent

ToApply(d, seen) ==
  IF d.value = NoValue THEN seen # {} ELSE ~Duplicate(d, seen) /\ ~Conflict(d, seen)

Resolve(j) ==
  /\ run[j].at = "queued"
  /\ Confident(Cand(j))
  /\ \E seen \in Seen(Cand(j).key) :
       LET d == Cand(j) IN
       \/ /\ ~ToApply(d, seen)
          /\ Decide(j, "settled")
          /\ op' = op
       \/ /\ ToApply(d, seen)
          /\ Step(j, "applying")
          /\ op' = [op EXCEPT ![j] = Asking(d.key, d.value, "automatic", d.conf, d.ttl)]
  /\ UNCHANGED <<rows, mirror, done, cand, holder>>

Applied(j) ==
  /\ run[j].at = "applying"
  /\ Answered(j)
  /\ Decide(j, IF op[j].phase = "changed" THEN "applied" ELSE "settled")
  /\ op' = [op EXCEPT ![j] = NoOp]
  /\ UNCHANGED <<rows, mirror, done, cand, holder>>

MarkDecision(j) ==
  /\ run[j].at = "decided"
  /\ cand' = [cand EXCEPT ![Head(run[j].todo)][Cand(j).key][Operation(Cand(j))] = run[j].status]
  /\ run' = [run EXCEPT ![j] = [Off EXCEPT !.at = "marked", !.todo = run[j].todo]]
  /\ UNCHANGED <<rows, mirror, op, done, holder>>

ExtractionCompleted(j) ==
  /\ run[j].at = "marked"
  /\ done' = [done EXCEPT ![Head(run[j].todo)] = "completed"]
  /\ NextMessage(j)
  /\ UNCHANGED <<rows, mirror, op, cand, holder>>

\* An exception of the language model or of the candidate store.
ExtractionFailed(j) ==
  /\ \/ AtMessage(j) /\ done[Head(run[j].todo)] # "completed"
     \/ run[j].at \in {"queued", "decided", "marked"}
  /\ done' = [done EXCEPT ![Head(run[j].todo)] = "failed"]
  /\ NextMessage(j)
  /\ UNCHANGED <<rows, mirror, op, cand, holder>>

Released(j) == holder' = IF holder = j THEN NoJob ELSE holder

EndRun(j) ==
  /\ run[j].at = "message"
  /\ run[j].todo = <<>>
  /\ run' = [run EXCEPT ![j] = Off]
  /\ Released(j)
  /\ UNCHANGED <<rows, mirror, op, done, cand>>

CrashMidCall(j) ==
  /\ run[j].at # "off"
  /\ run' = [run EXCEPT ![j] = Off]
  /\ Released(j)
  /\ UNCHANGED <<rows, mirror, op, done, cand>>

\* The process ends; the database rolls an open transaction back.
Crash(j) ==
  /\ run[j].at # "off"
  /\ run' = [run EXCEPT ![j] = Off]
  /\ op' = [op EXCEPT ![j] = NoOp]
  /\ Released(j)
  /\ UNCHANGED <<rows, mirror, done, cand>>

\* The connection that holds the advisory lock is lost; the run goes on.
LoseLock(j) ==
  /\ holder = j
  /\ holder' = NoJob
  /\ UNCHANGED <<rows, mirror, op, done, cand, run>>

-----------------------------------------------------------------------------
Init ==
  /\ rows = [k \in Keys |-> <<>>]
  /\ mirror \in [Keys -> Values \cup {NoValue}]
  /\ op = [c \in Clients |-> NoOp]
  /\ done = [m \in Messages |-> "none"]
  /\ cand = [m \in Messages |-> [k \in Keys |-> [o \in {"upsert", "forget"} |-> "none"]]]
  /\ run = [j \in Jobs |-> Off]
  /\ holder = NoJob

Provider(c) == Look(c) \/ Woken(c) \/ Remember(c) \/ RememberSame(c) \/ Forget(c)

JobStep(j) ==
  \/ SkipMessage(j) \/ NothingExtracted(j)
  \/ \E d \in Offered : Extract(j, d)
  \/ RefuseUnread(j) \/ Resolve(j) \/ Applied(j) \/ MarkDecision(j)
  \/ ExtractionCompleted(j) \/ ExtractionFailed(j) \/ EndRun(j)

Next ==
  \/ \E c \in Clients : Provider(c) \/ ProviderError(c)
  \/ \E u \in Users, k \in Keys, v \in Values : SaveUserMemory(u, k, v)
  \/ \E k \in Keys : Elapse(k)
  \/ Migrate
  \/ \E j \in Jobs : StartRun(j) \/ JobStep(j) \/ Crash(j) \/ LoseLock(j)

Spec == Init /\ [][Next]_vars

-----------------------------------------------------------------------------
\* Types of the state: at most one provider call per client, and a job is in
\* one only while it applies a candidate.
TypeOK ==
  /\ \A k \in Keys : Len(rows[k]) <= MaxRows /\ ToSet(rows[k]) \subseteq Row
  /\ mirror \in [Keys -> Values \cup {NoValue}]
  /\ op \in [Clients -> [phase : Phases, key : Keys, value : Values \cup {NoValue},
                         kind : Kinds, conf : 0..100, ttl : BOOLEAN,
                         cur : 0..MaxRows]]
  /\ \A j \in Jobs : op[j].phase # "none" <=> run[j].at = "applying"
  /\ done \in [Messages -> {"none", "failed", "completed"}]
  /\ cand \in [Messages -> [Keys -> [{"upsert", "forget"} ->
       {"none", "pending", "applied", "settled"}]]]
  /\ \A j \in Jobs : /\ run[j].at \in Stages
                     /\ run[j].d \subseteq Offered
                     /\ run[j].at \in {"queued", "applying", "decided"}
                          <=> run[j].d # {}
  /\ holder \in Jobs \cup {NoJob}

\* However calls wait for each other's row locks, the rows of a key form
\* chains of versions: one active row at most, no row superseded twice, and a
\* row that supersedes another is its next version (remember, forget and the
\* unique index of memory_items).
VersionsChain ==
  \A k \in Keys :
    /\ Cardinality(Active(k)) <= 1
    /\ \A i \in DOMAIN rows[k] :
         LET s == rows[k][i].supersedes IN
         /\ s # 0 => /\ s < i
                     /\ rows[k][s].status = "superseded"
                     /\ rows[k][i].version = rows[k][s].version + 1
         /\ rows[k][i].status = "superseded" =>
              Cardinality({n \in DOMAIN rows[k] : rows[k][n].supersedes = i}) = 1

\* The provider implements the abstract store of facts: what a reader is given
\* changes only by calls that take effect once, by time, and by the migration,
\* which brings back at most a fact that was not forgotten
\* (NativePgMemoryProvider and the backfill of memory_items).
Fact(k) == IF Current(k) = {} THEN NoValue
           ELSE rows[k][CHOOSE i \in Current(k) : TRUE].value

OpenCall(c) ==
  LET none == op[c].phase = "none" \/ Answered(c) IN
  [key |-> IF none THEN NoValue ELSE op[c].key,
   value |-> op[c].value,
   answer |-> IF none THEN op[c].phase ELSE "open"]

Store == INSTANCE FactStore WITH fact <- [k \in Keys |-> Fact(k)], last <- mirror,
                                 call <- [c \in Clients |-> OpenCall(c)]

FactSpec == Store!Spec

\* What the user saved explicitly is not replaced by an extracted candidate
\* without the intent to update it: "it goes to needs_review and does not
\* silently overwrite" (architecture.md, key constraints of P4).
ExplicitNotOverwritten ==
  [][\A j \in Jobs, k \in Keys : \A i \in Active(k) :
       (/\ rows[k][i].kind = "explicit"
        /\ op[j].key = k /\ op[j].phase = "holding"
        /\ rows'[k][i].status = "superseded")
       => Cand(j).intent]_vars
=============================================================================
