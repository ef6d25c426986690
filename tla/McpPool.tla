------------------------------ MODULE McpPool ------------------------------
(***************************************************************************)
(* MCPClientManager: the pool of MCP client sessions of a runtime process. *)
(* All of it runs as coroutines of one event loop, so a step here is what  *)
(* a coroutine does from one await that suspends it to the next; another   *)
(* coroutine can only run in between.                                      *)
(*                                                                         *)
(* Two kinds of asyncio.Lock: the one around the table of sessions, held   *)
(* while a session is looked up, closed or opened, and one per session,    *)
(* held during a call.  A lock that was just released and has a waiter is  *)
(* nobody's until the waiter runs, and locked() says so: the code looks at *)
(* locked() to find sessions that are not in use.                          *)
(***************************************************************************)
EXTENDS Naturals, Sequences, FiniteSets

CONSTANTS
  Requests,     \* coroutines submitted by tool calls and warm-ups
  Janitor,      \* the coroutine of _janitor_loop
  NoTask,       \* nobody
  Connections,  \* connection ids
  Versions,     \* versions of a connection's configuration
  MaxSessions,  \* MCP_SESSION_MAX_SIZE
  MaxOpened     \* bound on the sessions ever opened

ASSUME McpPoolAssumption ==
  /\ Janitor \notin Requests /\ NoTask \notin Requests \cup {Janitor}
  /\ MaxSessions \in Nat \ {0}
  /\ MaxOpened \in Nat

Tasks == Requests \cup {Janitor}
Keys == Connections \X Versions  \* mcp_connection_cache_key
Sessions == 1..MaxOpened
NoSession == 0

VARIABLES
  pool,       \* _sessions: the session under each key
  recency,    \* the keys of the pool, by last_used_at
  idle,       \* sessions whose idle TTL has passed since last_used_at
  opened,     \* sessions opened so far
  open,       \* sessions whose client is connected
  tableLock,  \* _sessions_lock: holder and FIFO of waiters
  lock,       \* session.lock of every session
  task,       \* where each coroutine is
  \* history, read by properties and never by a guard of the code
  waited,     \* requests that had to wait for the lock of their session
  spoiled     \* sessions a call failed on

vars == <<pool, recency, idle, opened, open, tableLock, lock, task, waited, spoiled>>

Locks == [holder : Tasks \cup {NoTask}, queue : Seq(Tasks)]
FreeLock == [holder |-> NoTask, queue |-> <<>>]

\* locked()
InUse(s) == lock[s].holder # NoTask

Pcs == {"idle", "table", "closing", "connect", "wait", "call", "evict"}

\* then: what follows the closing of the sessions closing and todo
Coroutines == [pc : Pcs, key : Keys \cup {<<>>},
               session : Sessions \cup {NoSession}, todo : SUBSET Sessions,
               closing : Sessions \cup {NoSession},
               then : {"lookup", "limit", "done"}]
Resting == [pc |-> "idle", key |-> <<>>, session |-> NoSession, todo |-> {},
            closing |-> NoSession, then |-> "done"]

TypeOK ==
  /\ pool \in [Keys -> Sessions \cup {NoSession}]
  /\ recency \in Seq(Keys)
  /\ idle \subseteq Sessions
  /\ opened \in 0..MaxOpened
  /\ open \subseteq Sessions
  /\ tableLock \in Locks
  /\ \A t \in Tasks : task[t].pc \in {"table", "evict"} <=>
       \E i \in DOMAIN tableLock.queue : tableLock.queue[i] = t
  /\ lock \in [Sessions -> Locks]
  /\ task \in [Tasks -> Coroutines]
  /\ waited \subseteq Requests
  /\ spoiled \subseteq Sessions

Init ==
  /\ pool = [k \in Keys |-> NoSession]
  /\ recency = <<>>
  /\ idle = {}
  /\ opened = 0
  /\ open = {}
  /\ tableLock = FreeLock
  /\ lock = [s \in Sessions |-> FreeLock]
  /\ task = [t \in Tasks |-> Resting]
  /\ waited = {}
  /\ spoiled = {}

----------------------------------------------------------------------------
Pooled == {pool[k] : k \in Keys} \ {NoSession}
KeyOf(s) == CHOOSE k \in Keys : pool[k] = s

\* No sequence here has an element twice.
Without(seq, x) ==
  IF \A i \in DOMAIN seq : seq[i] # x THEN seq
  ELSE LET i == CHOOSE i \in DOMAIN seq : seq[i] = x
       IN  [j \in 1..(Len(seq) - 1) |-> IF j < i THEN seq[j] ELSE seq[j + 1]]

\* session.last_used_at = now
Touch(k) ==
  /\ recency' = Append(Without(recency, k), k)
  /\ idle' = idle \ {pool'[k]}

\* _close_session_locked up to the await of the client's exit.
Pop(s) ==
  /\ pool' = [pool EXCEPT ![KeyOf(s)] = NoSession]
  /\ recency' = Without(recency, KeyOf(s))

Release(l) == [holder |-> NoTask, queue |-> l.queue]
Enqueue(l, t) == [holder |-> l.holder, queue |-> Append(l.queue, t)]
Granted(l, t) == l.holder = NoTask /\ l.queue # <<>> /\ Head(l.queue) = t
Grant(l, t) == [holder |-> t, queue |-> Tail(l.queue)]

\* The table's lock as t holds it: since before, or by being granted it now.
Held(t) == IF tableLock.holder = t THEN tableLock ELSE Grant(tableLock, t)

At(t, pc) == task[t].pc = pc
Finish(t) ==
  /\ task' = [task EXCEPT ![t] = Resting]
  /\ waited' = waited \ {t}

\* The end of a coroutine that holds the table.
Leave(t) ==
  /\ tableLock' = Release(Held(t))
  /\ Finish(t)

\* Close the sessions of S one by one, the first one at once, then go on.
\* The rest of S is not looked at again before it is closed.
CloseAll(t, S, then) ==
  /\ tableLock' = Held(t)
  /\ \E s \in S :
       /\ Pop(s)
       /\ task' = [task EXCEPT ![t].pc = "closing", ![t].closing = s,
                               ![t].todo = S \ {s}, ![t].then = then]
  /\ UNCHANGED <<idle, lock, waited>>

\* Mutant of Admit: whoever finds the lock of the session not held takes
\* it, and whoever waits for it stays in the queue.
AdmitAlways(t, s) ==
  /\ lock' = [lock EXCEPT ![s].holder = t]
  /\ task' = [task EXCEPT ![t].pc = "call", ![t].session = s]
  /\ UNCHANGED waited

\* async with session.lock
Admit(t, s) ==
  \/ /\ lock[s] = FreeLock
     /\ lock' = [lock EXCEPT ![s].holder = t]
     /\ task' = [task EXCEPT ![t].pc = "call", ![t].session = s]
     /\ UNCHANGED waited
  \/ /\ lock[s] # FreeLock
     /\ lock' = [lock EXCEPT ![s] = Enqueue(@, t)]
     /\ task' = [task EXCEPT ![t].pc = "wait", ![t].session = s]
     /\ waited' = waited \cup {t}

----------------------------------------------------------------------------
(* What a coroutine that holds the table does without an await in between, *)
(* up to the exit or the entry of a client.                                *)

\* Mutant of Evictable: sessions in use may go as well.
EvictableInUse(k) == TRUE

Evictable(k) == pool[k] # NoSession /\ ~InUse(pool[k])

\* The least recently used session that is not in use.
Oldest(k) ==
  \E i \in DOMAIN recency :
    /\ recency[i] = k
    /\ Evictable(k)
    /\ \A j \in 1..(i - 1) : ~Evictable(recency[j])

\* Mutant of Room: one session too many.
RoomForOneMore == Cardinality(Pooled) <= MaxSessions

Room == Cardinality(Pooled) < MaxSessions

\* _enforce_session_limit_locked, again after each closed session; the entry
\* of the new client comes next.
Limit(t) ==
  \/ /\ Room
     /\ tableLock' = Held(t)
     /\ task' = [task EXCEPT ![t].pc = "connect", ![t].closing = NoSession]
     /\ UNCHANGED <<pool, recency, idle, lock, waited>>
  \/ /\ ~Room
     /\ \E k \in Keys : Oldest(k) /\ CloseAll(t, {pool[k]}, "limit")
  \/ /\ ~Room
     /\ ~\E k \in Keys : Oldest(k)
     /\ Leave(t)
     /\ UNCHANGED <<pool, recency, idle, lock>>

\* _evict_superseded_connection_locked
Supersede(t) ==
  LET old == {s \in Pooled : KeyOf(s)[1] = task[t].key[1] /\ ~InUse(s)} IN
  \/ CloseAll(t, old, "limit")
  \/ old = {} /\ Limit(t)

\* A hit is used at once.  A warm-up whose discovery is not out of date has
\* nothing more to do.
Lookup(t) ==
  LET k == task[t].key IN
  \/ /\ pool[k] # NoSession
     /\ UNCHANGED pool
     /\ Touch(k)
     /\ \/ tableLock' = Release(Held(t)) /\ Admit(t, pool[k])
        \/ Leave(t) /\ UNCHANGED lock
  \/ /\ pool[k] = NoSession
     /\ Supersede(t)

Resume(t, then) ==
  \/ then = "lookup" /\ Lookup(t)
  \/ then = "limit" /\ Limit(t)
  \/ then = "done" /\ Leave(t) /\ UNCHANGED <<pool, recency, idle, lock>>

\* _cleanup_idle_sessions_locked
Clean(t) ==
  LET expired == {s \in Pooled : s \in idle /\ ~InUse(s)}
      then == IF t = Janitor THEN "done" ELSE "lookup"
  IN  CloseAll(t, expired, then) \/ (expired = {} /\ Resume(t, then))

\* Mutant of Victim: whatever is under the key by now.
VictimByKey(t, s) == {pool[task[t].key]} \ {NoSession}

\* expected=session: only the session of the failed call.
Victim(t, s) == {pool[task[t].key]} \cap {s}

\* _evict_session, whoever uses or waits for the session.
EvictSession(t) ==
  LET victim == Victim(t, task[t].session) IN
  CloseAll(t, victim, "done") \/ (victim = {} /\ Resume(t, "done"))

----------------------------------------------------------------------------
\* call_tool or warmup of a tool, from its thread: the coroutine asks for
\* the table.
Submit(t, k) ==
  /\ t \in Requests /\ At(t, "idle")
  /\ task' = [task EXCEPT ![t] = [Resting EXCEPT !.pc = "table", !.key = k]]
  /\ tableLock' = Enqueue(tableLock, t)
  /\ UNCHANGED <<pool, recency, idle, opened, open, lock, waited, spoiled>>

\* The janitor's sleep is over.
Wake ==
  /\ At(Janitor, "idle")
  /\ task' = [task EXCEPT ![Janitor].pc = "table"]
  /\ tableLock' = Enqueue(tableLock, Janitor)
  /\ UNCHANGED <<pool, recency, idle, opened, open, lock, waited, spoiled>>

TakeTable(t) ==
  /\ At(t, "table")
  /\ Granted(tableLock, t)
  /\ Clean(t)
  /\ UNCHANGED <<opened, open, spoiled>>

\* The exit of a client is through: the next one, or whatever comes then.
Closed(t) ==
  /\ At(t, "closing")
  /\ open' = open \ {task[t].closing}
  /\ LET left == task[t].todo \cap Pooled IN
     CloseAll(t, left, task[t].then) \/ (left = {} /\ Resume(t, task[t].then))
  /\ UNCHANGED <<opened, spoiled>>

\* client.__aenter__ under the table's lock; the session is used at once.
Connect(t) ==
  /\ At(t, "connect")
  /\ opened < MaxOpened
  /\ LET s == opened + 1 IN
     /\ opened' = s
     /\ open' = open \cup {s}
     /\ pool' = [pool EXCEPT ![task[t].key] = s]
     /\ Touch(task[t].key)
     /\ Admit(t, s)
  /\ tableLock' = Release(tableLock)
  /\ UNCHANGED spoiled

Refused(t) ==
  /\ At(t, "connect")
  /\ Leave(t)
  /\ UNCHANGED <<pool, recency, idle, opened, open, lock, spoiled>>

\* The lock of the session is free and it is this waiter's turn.
Turn(t) ==
  /\ At(t, "wait")
  /\ Granted(lock[task[t].session], t)
  /\ lock' = [lock EXCEPT ![task[t].session] = Grant(@, t)]
  /\ task' = [task EXCEPT ![t].pc = "call"]
  /\ UNCHANGED <<pool, recency, idle, opened, open, tableLock, waited, spoiled>>

\* The answer of the server.  session.last_used_at is written whether or not
\* the session is still in the table.
Return(t) ==
  /\ At(t, "call")
  /\ LET s == task[t].session IN
     /\ s \in open
     /\ lock' = [lock EXCEPT ![s] = Release(@)]
     /\ UNCHANGED pool
     /\ IF pool[task[t].key] = s
        THEN Touch(task[t].key)
        ELSE UNCHANGED <<recency, idle>>
  /\ Finish(t)
  /\ UNCHANGED <<opened, open, tableLock, spoiled>>

\* An exception of the call: the session's lock is released, and then the
\* table is asked for, to evict the session.
Raise(t) ==
  /\ At(t, "call")
  /\ LET s == task[t].session IN
     /\ lock' = [lock EXCEPT ![s] = Release(@)]
     /\ spoiled' = spoiled \cup {s}
  /\ task' = [task EXCEPT ![t].pc = "evict"]
  /\ tableLock' = Enqueue(tableLock, t)
  /\ UNCHANGED <<pool, recency, idle, opened, open, waited>>

Evict(t) ==
  /\ At(t, "evict")
  /\ Granted(tableLock, t)
  /\ EvictSession(t)
  /\ UNCHANGED <<opened, open, spoiled>>

\* Mutant of LetGo: a waiter keeps its place in the queue.
LetGoHolderOnly(l, t) ==
  [l EXCEPT !.holder = IF l.holder = t THEN NoTask ELSE l.holder]

\* Mutant of LetGo: the holder of a lock does not give it back.
LetGoQueueOnly(l, t) == [l EXCEPT !.queue = Without(@, t)]

\* A cancelled coroutine gives up a lock, or its place in the queue.
LetGo(l, t) ==
  [holder |-> IF l.holder = t THEN NoTask ELSE l.holder,
   queue |-> Without(l.queue, t)]

\* The caller's timeout cancels the coroutine wherever it waits: no eviction
\* then, and a client whose exit is under way may stay connected.
Cancel(t) ==
  /\ t \in Requests /\ ~At(t, "idle")
  /\ tableLock' = LetGo(tableLock, t)
  /\ lock' = [s \in Sessions |-> LetGo(lock[s], t)]
  /\ open' \in {open, open \ {task[t].closing}}
  /\ Finish(t)
  /\ UNCHANGED <<pool, recency, idle, opened, spoiled>>

\* The idle TTL passes: nothing has renewed last_used_at.
Age(s) ==
  /\ s \in Pooled \ idle
  /\ idle' = idle \cup {s}
  /\ UNCHANGED <<pool, recency, opened, open, tableLock, lock, task, waited, spoiled>>

Step(t) ==
  \/ TakeTable(t) \/ Closed(t) \/ Connect(t) \/ Refused(t) \/ Turn(t)
  \/ Return(t) \/ Raise(t) \/ Evict(t)

Next ==
  \/ \E t \in Requests, k \in Keys : Submit(t, k)
  \/ Wake
  \/ \E t \in Tasks : Step(t)
  \/ \E t \in Requests : Cancel(t)
  \/ \E s \in Sessions : Age(s)

\* The event loop runs every coroutine that can run, and a connect, a call
\* and an exit of a client come to an end.
Fairness == \A t \in Tasks : WF_vars(Step(t))

Spec == Init /\ [][Next]_vars /\ Fairness

----------------------------------------------------------------------------
\* The table never outgrows MCP_SESSION_MAX_SIZE, though connecting takes
\* its time between the check and the insertion.
PoolBound == Cardinality(Pooled) <= MaxSessions

\* A client serves one call at a time, waiters of evicted sessions included.
OneCallPerClient ==
  \A t, u \in Tasks :
    At(t, "call") /\ At(u, "call") /\ task[t].session = task[u].session => t = u

\* A failed call evicts its own session, never one that was opened under the
\* same key since.
EvictsOnlyItsOwn ==
  [][\A t \in Tasks :
       At(t, "evict") /\ task'[t].pc = "closing" =>
         task'[t].closing = task[t].session]_vars

\* A call in flight keeps its client in the table, unless it had queued for
\* it, or an earlier call on the same client failed.
NoSurpriseEviction ==
  [][\A t \in Requests :
       (At(t, "call") /\ task[t].session \in Pooled \ Pooled') =>
         t \in waited \/ task[t].session \in spoiled]_vars

\* No coroutine hangs: there is no circle of locks, and none is lost.
RequestsEnd == \A t \in Tasks : ~At(t, "idle") ~> At(t, "idle")

\* Sessions of two versions of a connection's configuration are in the table
\* together only as long as one of them is in use.
OldVersionOnlyInUse ==
  \A k, l \in Keys :
    k[1] = l[1] /\ k # l /\ pool[k] # NoSession /\ pool[l] # NoSession =>
      lock[pool[k]] # FreeLock \/ lock[pool[l]] # FreeLock
=============================================================================
