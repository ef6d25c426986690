# TLA+ models of the Aegora runtime

Aegora runs *agents*: a control plane keeps their drafts, releases, tools,
roles and MCP connections in PostgreSQL, and a runtime service answers requests
for a released agent, planning with a language model and calling tools through
MCP servers. This directory models the parts of it in which the order of steps
decides whether the system is right, checks the models with TLC on small
instances, and proves their main properties with TLAPS for all instances.

`PROJECT.json` lists the components, the runs, the lines of the source each
definition stands for, the hazards, the findings and the theorems.

## 1. The system

Paths are relative to `src/`; `rt/` stands for
`services/runtime/src/aegora_runtime/`, `cp/` for
`apps/control-plane/backend/app/`.

| Component | State it keeps | Operations | What is hard about it | Status |
| --- | --- | --- | --- | --- |
| Approval store and decision handling (`rt/runtime_approvals.py`, `rt/configured_runner.py`) | rows of `runner_approval_requests` | create, decide, retry, cached response, expire, mark executed | two reviewers at once, statements in separate transactions, retry after a failure, expiry, process death | `Approvals`, `ApprovalContract` |
| LangGraph engine (`rt/langgraph_engine.py`) | checkpoints of a thread, in memory or in PostgreSQL | invoke, interrupt, resume | a thread has one position and several approvals | `Approvals`, `AgentTurn` |
| Agent turn (`rt/agent_loop.py`, `rt/configured_runner.py`, `rt/tools.py`) | the store of one turn | nodes of the flow, gate, batch execution, continuation | loop budget, stop rule and gate across approvals, in two engines | `AgentTurn` |
| MCP session pool (`rt/tool_adapters.py`) | table of client sessions, two kinds of locks | warm-up, call, janitor, eviction, cancellation | coroutines interleave at every await; locks, timeouts, limit | `McpPool` |
| Runtime context and its caches (`rt/runtime_context.py`, `rt/runtime_cache.py`, `rt/runtime_invalidation.py`, `cp/cache_events.py`) | L1 and L2 caches of release configurations | resolve, cache, invalidate | a resolution is five to seven queries, no transaction around them | `Access` |
| Control plane: tools, workflows, MCP discovery (`cp/api.py`, `cp/db.py`, `cp/mcp_discovery.py`) | PostgreSQL tables | publish, retire, discover, enable, register | concurrent publications, discoveries that end out of order | `Catalog` |
| Control plane: agents, releases, roles, users (`cp/api.py`, `cp/db.py`, `cp/authz.py`, `cp/identity.py`) | PostgreSQL tables | draft, publish, revoke, disable, grant | checks and writes in different transactions, changes between the queries of a request | `Access` |
| Memory: provider, explicit saves, extraction (`rt/memory/native_pg.py`, `rt/memory/lifecycle.py`, `rt/data_ops/memory_extraction.py`) | versioned rows, the old aggregate table, candidates, messages done | remember, forget, expire, extract, decide, apply, migrate | row locks that have to wait, read and write apart, rerun jobs | `Memory`, `FactStore` |
| Memory: governance and OpenViking (`rt/memory/policy.py`, `rt/memory/openviking.py`, `rt/runtime_context.py`) | policy, preference, one document per fact | set policy, opt in, recall, save, forget | two reads of governance, read-then-write of documents, failing requests | `Sharing` |
| Data operations: FAQ copy and vectors (`rt/data_ops/sync_content.py`, `embedding_jobs.py`, `locks.py`, `scheduler.py`, `scripts/embed_faqs.py`) | `faqs`, `faq_embeddings` | synchronise, claim, encode, save | jobs under a lock, scripts without it, editing meanwhile | `Content` |
| Data operations: reflection and skills (`rt/data_ops/reflection_flow.py`, `procedural_learning.py`, `skill_drafts.py`, `scripts/sync_strapi_content.py`, `rt/skills.py`) | procedural memories, skills in Strapi and in PostgreSQL | learn, draft, review, publish, archive | a gate between a listing and a commit, a crash between two systems | `Learning` |
| Chat sessions, event stream, web page (`rt/sessions.py`, `rt/service.py`, `apps/api_app.py`, `apps/chat_app.py`, WeCom) | messages in Strapi, session locks, event queues | turn, save, stream, show, rate | three requests to save a turn, a lock on a connection that may break | `Conversations` |
| Gateway runs (`cp/runner.py`, `cp/api.py`, `cp/db.py`) | `agent_runs` | create, call the runner, write the result, pass on decisions | a call that times out goes on in the other service | `Runs` (extends `Conversations`) |
| Matching of skills, retrieval, language model and Strapi clients, front end, settings, seeds, scripts | - | - | I/O and scores | not modelled |

### How the parts interact

A request to `POST /v1/gateway/runs` resolves a runtime context, builds a turn
and runs it with one of two engines, `pocoflow` (a loop in the request's
thread) or `langgraph` (a graph with checkpoints). A node of the turn asks the
planner for a decision; a decision with tool calls goes through the
`ApprovalGate` in front of the tool executor. If one call of the batch needs an
approval, nothing of the batch runs: a row is created in
`runner_approval_requests` with a snapshot of the turn, and the turn ends with a
prompt. `POST /v1/gateway/approvals/{id}/decide` records the decision, resolves
a *fresh* runtime context, executes the saved call and continues the turn, with
PocoFlow in a new flow built from the snapshot, with LangGraph by
`Command(resume=...)` on the thread. Tool calls go to MCP servers through the
pool, a single event loop in a thread of its own to which callers submit
coroutines and wait for them with a timeout.

A turn reads and writes the user's memory under the governance in its context;
what was said is saved in Strapi after the answer. The scheduler's jobs work on
what turns leave behind: one extracts memory candidates from the messages, one
learns procedures from rated conversations and drafts skills in Strapi, one
copies Strapi's FAQs and skills into PostgreSQL, one computes vectors. They share
one advisory lock; scripts that do the same work by hand take none.

### What makes each modelled part correct

* Approvals: a call runs only under a timely approval, under rights that are
  still there, once per approval unless an attempt failed or two requests were at
  it; what is reported as executed has run; and a rejection that was told stands,
  unless another reviewer was deciding at the very same time.
* Turn: the planner is consulted at most `max_iterations` times whatever
  approvals happen; only granted, ungated calls run without an approval; a
  batch is run whole or not at all; the turn ends, and ends with an answer.
* Pool: the table keeps its limit, calls of a client are serial, a failed call
  closes its own session only, no session is closed under a call that did not
  wait for it, and every coroutine ends.
* Catalog: one active version of a workflow, the row agents use is that
  version's, a retired version and a tool switched off by hand stay off,
  published versions never change, whatever transactions race each other.
* Access: a turn starts only with a release, tools, grants and gates that were
  in force at some moment since its request came in; no cache and no lost event
  changes that, and the control plane asks the agent itself.
* Memory: per fact one chain of versions with one active row; what a reader is
  given changes only by calls that take effect once, by time, or by the migration.
* Sharing: what an agent was told under `agent_private`, by a turn that could read
  the policy, stays with it; sharing needs the user's consent; a fact is replaced or
  forgotten only on behalf of its owner.
* Content: a vector carries the hash of its text, a stale one is claimed again,
  an undisturbed synchronisation mirrors Strapi.
* Learning: agents use learned skills only with evidence for their very text,
  and PostgreSQL settles on what Strapi shows, unless Strapi's list is refused.
* Conversations and runs: turns under the lock are serial, answers keep their
  question, streams and pages tell what was saved, a run that its row calls completed
  or pending is so in the runner (a row that says failed promises nothing: the call
  may only have timed out).

## 2. Modules

| Module | Models | Notes |
| --- | --- | --- |
| `Approvals` | one gateway run and the approvals its turns open | each database statement of a handler is a step |
| `ApprovalContract` | what a reviewer is promised: one outcome for each approval | abstract; `Approvals` instantiates it with a refinement mapping |
| `ApprovalsProofs` | proofs about `Approvals` | |
| `AgentTurn` | one turn, segment by segment, node by node | both engines |
| `McpPool` | `MCPClientManager` | a step lasts from one await that suspends to the next |
| `TurnProofs` | proofs about `AgentTurn` and about `McpPool` | |
| `Catalog` | tools, workflow versions and the MCP connection, as administrators' transactions write them | a step ends where a transaction may wait, or at its commit |
| `Access` | releases of an agent, roles, and the resolution of runtime contexts | extends `Catalog`, whose actions interleave with it |
| `AccessProofs` | proofs about `Catalog`, then about `Access` | the second use the first |
| `FactStore` | what a memory provider promises: per key one fact or none | abstract; `Memory` instantiates it |
| `Memory` | the native provider, saves of the user, the extraction job | a provider call is its row lock and its commit |
| `MemoryProofs` | proofs about `Memory` | |
| `Sharing` | policy, preference, agents' turns and OpenViking's documents | each request to another service is a step |
| `SharingProofs` | proofs about `Sharing` | |
| `Content` | the copy of the FAQs and their vectors | a step is a page, a transaction or a call of the encoder |
| `ContentProofs` | proofs about `Content` | |
| `Learning` | procedural memories, drafts, the gate, the copy of the skills | a step is a request to Strapi or a transaction |
| `LearningProofs` | proofs about `Learning` | |
| `Conversations` | turns of chat sessions, streams and web page | a step is a request to Strapi, an event or a lock |
| `Runs` | the console's runs in the control plane | extends `Conversations`, whose gateway turns are the runner's side |
| `RunsProofs` | proofs about `Conversations`, then about `Runs` | `Runs` is shown to implement `Conversations` |
| `MC...` | instances for TLC: symmetry sets, sequences and functions that a `.cfg` cannot write | |

### Approvals

`job[r]` is the position of a request handler. `Check` and then `Record` or
`MarkExpired` are the transactions of `PostgresApprovalStore.decide`, the store that
the gateway builds. The in-memory store (`rt/runtime_approvals.py:45`) is not
modelled: only tests build it, and it promises no more, having a check and a write
apart and no lock.
`Lookup` is `decide_approval` after `already_handled`, `Resolve` the fresh
context, `RunTool` the saved call, `Consume` the resume of a thread, `Plan`
the rest of the turn, which may open the next approval, and `Mark`
`mark_executed`. `Fail` is an exception at any of them, `Crash` the death of
the process, `Expire` the passing of `expires_at`, `ChangeAccess` any change in
the control plane. `runs`, `timely`, `aborted`, `contested`, `shared`, `saw` and
`told` are history that no guard of the code reads (`runs` is bounded by
`MaxRuns`). An approval is `contested` once two requests are between the SELECT that
found it pending and the UPDATE that follows (`Deciding`, `Meets`); of any other
approval the model promises one final outcome. Not in the model: the wording of responses, and
what a turn does (that is `AgentTurn`).

### AgentTurn

The turn is a sequence of segments; each approval starts a new one under a
context that may grant and gate other tools than before. `Prepare` is
load_context, load_skills and pre_guard; `Think`, `Execute` and `Check` are the
other nodes; `Approve` and `Reject` are the continuation after a decision,
where PocoFlow restores `loop_count` from the snapshot and LangGraph keeps its
own. The planner is a nondeterministic choice over what
`parse_configured_decision` accepts, a tool result over usable and not usable;
of the observations the model keeps the number at the end of the list that are
not usable, up to 2, which is all the stop rule reads. A segment that fails
ends the turn here: the retry of its approval, which starts again from the snapshot,
is in `Approvals` and not in `AgentTurn`. LangGraph's own recursion limit is
external.

### McpPool

A task's `pc` is the await it is suspended at. `Leave`, `LetGo` and `Admit`
follow `asyncio.Lock`: a released lock with a waiter belongs to nobody until
the waiter runs, and `locked()` then reads FALSE, which is what the code uses to
find sessions not in use. One over-approximation: after a failed call (`Raise`)
the coroutine always queues for the table's lock and evicts in a later step, where
the code takes a free lock at once; the model has every order of the code and
some more. `close()` at exit and the restart of a dead loop thread are left out.

### Catalog

A publication of a workflow version is `Publish` (the request, with the manifest
its hash covers), `Lock` (advisory lock, the version's row, the check of the
hash), `RetireOthers` and `Write` (which ends with the commit); a retirement is
`Retire` and `Drop`; a discovery is `Discover` and `Discovered`, with the remote
server's time in between. `Holds` are the rows of `workflow_versions` a
transaction has locked. The hash covers the manifest's status and the
connection as well, so publishing a version again after its connection changed is
refused as a change of content; the model has that (`Manifests`). All tools are
on one connection. `SetTool` may register anything over the workflow's row,
also one of its version names; `foreign` and `hand` record that for the
properties and no guard reads them.

### Access

Extends `Catalog`, so every change of a tool can fall between any two queries. A
publication of the agent is `LoadDraft`, `Number`, `ReadManifests`,
`ReadPermissions`, `Insert`; a change of the draft is `ChangeDraft`, `AskOwner`,
`SaveDraft`. A request is `Arrive`, the control plane's `AdmitRelease`,
`AdmitAgent`, `AdmitUser`, `AdmitTools` (skipped by a request that comes straight to
the runtime's gateway), then `ReadRelease` to `ReadGrants`, one step for each query
of `resolve_runtime_context`, and `Validate`; a request for the draft
(`LoadAgent` to `DraftManifests`) is the control plane's alone. An administrator
changes a role or a user's roles in two transactions, the second of which
(`WriteEdit`) may never come (`LoseEdit`). `cache` is the set of releases that L1
or Redis holds; `Evict` is every way out of it. `seen` is history: what held at some
moment since the request came in. The properties compare a turn with `seen`
because no resolution without a transaction can promise more; `GateIsLive` has the
one exception the code makes, a tool disabled after the query for active tools
keeps the policy of its release. One user is owner, publisher and runner, with
one custom role; scopes inside a tool, visibility, members and channels are left
out. The short queries inside `load_agent` and `fetch_tools_by_ids` are one step each.

### Memory and FactStore

`op[c]` is the provider call of a client: `Look` is the lock of its `SELECT ... FOR
UPDATE` or `UPDATE`, `Woken` the end of a wait for it (the row is read anew, as
PostgreSQL does at READ COMMITTED), `Remember`, `RememberSame` and `Forget` the
commits, `ProviderError` a failure. `SaveUserMemory` is the user's own save,
`StartRun` to `EndRun` the extraction job: messages without a finished extraction,
a candidate for each (`Extract`), the decision by thresholds, duplicates and
conflicts (`Resolve`), the provider's call, `MarkDecision`, `ExtractionCompleted`. The job
holds an advisory lock on its session and may lose it (`LoseLock`), crash
(`Crash`) or fail (`ExtractionFailed`), and works on the message again in
its next run. `Elapse` is the passing of `valid_until`, `Swept` the marking of
expired rows, `Migrate` the backfill of `memory_items` from the old table.
`FactStore` knows only facts and open calls: a call takes effect once, in one
step, or not at all, and "changed" is answered only if it did.

### Sharing

A turn or an extraction reads the tenant's policies (`FetchPolicies`), then the
user's preferences (`FetchPreferences`); either query may fail (`FetchFails`),
which leaves the defaults. A recall is a search in the index and a read of each hit
(`Search`, `ReadHit`), a write is `ReadCurrent` and `Write`. A document lives under
one identity: scope, agent and key. `CanRecall` reads the document's scope, its agent
and its source agent, and the governance of the reader; the mode under which it was
written is in no document. A turn that cannot read the policy takes the namespace for
`user_controlled` (`Idle`, as `fetch_memory_governance` starts), whatever is in force.
`shares`, `private`, `opened` and `known` are history of an actor: the preferences in
force since it began, whether `agent_private` was in force all that time, whether the
namespace was open to public agents at some moment, and whether the policy was read;
`told` hands the second and the last on to the document.

### Content and Learning

Both have an external Strapi that people edit at any time. `Content`: `StartSync`,
`ListPage` for each page (what was deleted meanwhile moves the rest forward,
as paging by number does), `CommitSync`; `StartEmbed`, `ResetFailed`, `Claim`,
`SaveVectors` or `MarkFailed`. `Learning`: a reflection adds evidence and moves a
memory's status (`Upsert`; `skill_drafted` gives way to `conflicted` only), creates
a draft in Strapi (`WriteSkillDraft`) and only then marks the row
(`MarkSkillDrafted`); a synchronisation lists Strapi, is refused or
accepted, commits, and archives what is gone. It is refused if *any* row is malformed
(`WellFormed`: `validate_skill` and the normalization see drafts too) or an active
skill fails the gate (`MeetsGate`). In both, `holder` is the advisory lock that jobs
take and scripts do not, and `Crash` may come anywhere. The lock is a session lock
on a connection that idles while the job works on others (`rt/data_ops/locks.py:11`), and
it may break (`LoseLock`): the job goes on, and the next one is let in. No property of
`Content` needs the lock. In `Learning`, `lost` remembers the jobs without a lock, and
those that began beside one, so that `JobPromotesBacked` can say what the lock is good for.

### Conversations and Runs

A turn goes from `Arrive` over `Lock`, `Load`, `Emit`, `Answer` and the three
requests of a save (`FindSession`/`SaveSession`, `SaveMessage` twice) to `Finish`
and `Leave`; the four kinds of turn differ in the lock and in what follows a
failed save. A failed request of a save may have been carried out all the same
(`CarriedOut`): the client times out, Strapi has written. It is assumed to be over
when the client gives up; one that lands later still, after the lock was given back,
is not in the model. `LoseLock` breaks the lock's connection. `Runs` adds the console's
request: `CreateRun`, `CallRunner`, `CallFails` (after which the turn goes on
unobserved), `TakeResult`, `Decide` and `WriteDecision`. `PlatformId` and
`GatewayId` are different names of one run, as they are in the code.

## 3. Runs

| Run | Instance | What it shows |
| --- | --- | --- |
| `approvals_postgres` | 2 approvals, 2 requests, both engines, checkpoints in memory | with the two-step decide: timely approval, live rights, no causeless second execution, truthful answers |
| `approvals_contract` | the same with durable checkpoints | the mechanism implements `ApprovalContract`; a reported rejection is final unless the approval was contested |
| `approvals_reject_race` | 1 approval, 2 requests | **finding**: two reviewers pass the check, the rejected call runs |
| `agent_turn` | 2 tools, 4 iterations, batches of 2, both engines | budget, gate, answers; the turn comes to rest |
| `mcp_pool` | 2 requests, the janitor, 2 connections in 2 versions, room for 1 session | limit, serial calls, evictions; every coroutine ends |
| `catalog` | 2 administrators, 3 requests, a workflow with 2 versions, one MCP tool | locks and commits of publications, retirements, discoveries |
| `access` | 1 request, 2 publish requests, 1 release, 1 administrator, 2 changes, 2 tools | what a turn may run was in force since its request came in |
| `memory` | 1 key, 2 values, 2 rows, 1 user, 1 job, 1 message | chains of versions; the provider implements `FactStore` |
| `sharing` | a private and a public agent, 1 turn, 1 job, 1 key, 2 values, 1 change, 2 writes; sharing unset or on at first | privacy, consent and ownership of facts |
| `content` | 2 FAQs on 2 pages, 1 job, 1 script, 2 retries | vectors against texts; the copy against Strapi, while nobody edits or crashes |
| `learning` | 1 memory, 1 name, 2 texts of which 1 is malformed, reflection, job and script, 2 edits or broken connections | the gates; PostgreSQL settles on Strapi |
| `runs` | a web page, a stream and a console run in one session, 1 fault | serial turns, saved pairs, events, ratings, records of runs |

The two large runs of `Approvals` state a `VIEW`: histories that no guard and no property
of that run reads are left out of the states TLC tells apart.

**Bounds.** Two requests are the fewest that interleave in `decide`, two
approvals the fewest for a thread to wait at the wrong one; `MaxRuns = 2` lets a
second execution happen. Four iterations leave room for two approvals with an
iteration before, between and after; a batch of two has a gated and a free
call. Two requests and the janitor with room for one session give a holder, a
waiter and a third that evicts; `MaxOpened` bounds the sessions ever
opened, two being enough for a session and its successor. With one session the janitor's
list of expired sessions has one entry; longer ones are covered by the proof
(`CallsAreUndisturbed`), and `TypeOK`, `PoolBound`, `OneCallPerClient` and
`NoSurpriseEviction` also hold with `MaxSessions = 2` (981,276 states), where liveness
takes TLC too long for a regular run. Three administrative
requests are what it takes to publish, retire and publish again around one
another; in `access` the two changes fall between the queries of one
request, which has no effect on another one (a publication counts as a change
too), and two publish requests compete for the one release number that is left.
Two rows of a key (`MaxRows`) are a version and its successor, made by a user and
a job that wait for each other's lock; the one message is extracted again after
each crash. One policy change in the middle of a turn of `sharing` gives a
mixture of old and new governance; two writes are a fact and what replaces it; a
preference against sharing is set in the run, since one that was there before makes
states alike and many.
Pages of one FAQ (`PageSize`) make a deletion move the next page. `MaxEdits` is
an evaluation and a change after it, or one of them and a lost lock. `MaxFaults = 1` is one failed request or one
broken lock; more of them are failures of different turns. `Limit = 3` messages
let one and a half turns into a history. The page has one turn; that ratings stay in place
over longer sequences is the theorem `ClicksRateTheirAnswer`. The theorems do not depend on any of
these; what rests on the bounds alone is liveness.

**Fairness.** `Approvals`, `Catalog`, `Access`, `Memory`, `Sharing`, `Content`,
`Conversations` and `Runs` state none: all their properties are safety.
`AgentTurn` assumes weak fairness of the nodes, since the engine runs node
after node in the request's thread and calls to models and tools have timeouts;
no fairness of reviewers, so a turn may rest paused. `McpPool` assumes weak
fairness of each coroutine's own steps: the event loop runs every ready
coroutine, and connects, calls and exits end, if need be by the caller's
timeout. No fairness of new requests, of failures or of the clock. `Learning`
assumes that the scheduler starts the synchronisation again and again (strong
fairness, since other jobs take the lock in between). The loop itself does not give
that: a job that raises, as one whose list is refused does, ends `run_forever`
(`rt/data_ops/scheduler.py:27`). What gives it is the documented way to run the service,
`docker run --restart unless-stopped` (`services/runtime/docs/operations.md:257`); after a start
every job is due at once and the synchronisation is the first of them. Learning also assumes that a reflection goes on
and ends, and that a job is not cut short for ever at the same place (strong fairness
of the steps after which a crash may come); none of people and of scripts. Where
`CHECK_DEADLOCK FALSE` appears the system may stop: all approvals decided and
no run left, a turn ended, or the bound on changes used up.

## 4. Proofs

Every invariant and every action property of a passing run is a theorem; so are both
refinements. Each proof has the form *initial states satisfy the invariant, every
action keeps it, it implies the property*.

* `ApprovalsProofs`: `TypeCorrect`; `SafetyInv` strengthens the properties with
  what each position of a handler knows (a request past the check holds a timely
  approval, one at `mark` has run the call, a set status implies the steps before
  it); from it `TimelyApproval`, `ExecutedIsTrue`, `LiveAccess`. `OutcomeInv` is
  about approvals that are not contested: whoever is deciding one is alone (`Apart`) and
  the row is still pending, whoever is past it agrees with the row (`InStep`), and so do
  the calls that ran and the rejections that were told (`Settled`); from it
  `RejectionIsFinal` and the refinement `KeepsContract`, step by step: every action of
  `Next` is a step of the contract or a stutter, a meeting of two requests being the
  outcome "contested". Neither assumes anything of the store.
  `RerunInv` is what `RerunsHaveACause` needs: a call that ran is
  recorded, about to be, or was given up (`Accounted`); an undecided row has no
  request behind a decision (`Open`); two requests at work on one approval know of
  each other (`Together`); so a request that is alone on its way to the call is the
  first to run it or the retry of a failed attempt (`First`). The retry is the
  subtle case: `Retryable` reads "approved, no result", and it takes `Accounted` and
  `Together` to conclude from it that nobody has just run the call.
* `TurnProofs`, the turn: `SegmentInv` adds to the type invariant what is handed from
  node to node, the relation between `asked` and `loops` (`Budget`) and between
  `steps` and the node that runs next (`Pace`); the six theorems follow from it.
  `StepsSuffice` needs `Pace`, since the bound of a segment follows from the
  number of iterations, not from the step before.
* `TurnProofs`, the pool: `PoolInv` has ten parts, among them: who is at `connect`
  holds the table's lock and has room (`RoomKept`, which is why the limit
  survives the awaits of closing and connecting), every call holds its session's
  lock (`CallHolds`), a request about to evict has failed on the session it
  names (`Blamed`), a session closed under a request was waited for (`Waited`).
  The theorems are the pool's four safety and action properties. `PoolIsTyped` needs
  more than types: that no coroutine is queued twice for a lock, which bounds the
  queues.
* `AccessProofs`, the catalog: `CatalogInv` says what an open transaction may rely on:
  one publication past the advisory lock (`OnePublisher`), no row held twice
  (`HeldApart`), what was read of a held row is still so (`ManifestStands`,
  `StageStands`). `InsideATransaction` covers the steps that nobody else sees,
  `Released` the ends of transactions, `OfOneStatement` the simple requests. The
  six theorems are the properties of the run `catalog`.
* `AccessProofs`, access: `AccessInv` says for each place of a request what of its
  context so far is covered by `seen` (`ReleaseCovered`, `DraftCovered`). The properties
  speak of started turns only, so they are far from inductive: that the tools
  at the end were live is known since the query that filtered them, and `seen`
  only grows (`Sees`). Catalog's invariant is kept along the way (`CatalogStands`).
* `MemoryProofs`: `MemoryInv` has the rows (`Chain`, which says who supersedes
  whom in both directions, and the old table as a mirror of the active row), the calls
  (a row is locked by one call at most and is active as long as it is) and the
  job. Without the second part a woken call could supersede a row twice.
  `KeepsFacts` is the refinement: every action of `Next` is a step of `FactStore`
  or a stutter, `Remember` and `Forget` take effect, a sweep only fades.
* `SharingProofs`: `SharingInv` ties a document's owner to its identity
  (`DocsOwned`), what an actor has read to what was in force since it began
  (`Informed`: who has read the policy while `agent_private` was in force throughout acts
  under it), and what it was given to the filter under just that governance (`Filtered`).
* `LearningProofs`: `LearningInv` adds that a job at work holds the lock and is the only
  one, unless it is in `lost` (`LockHeld`), that what is past the gate has passed it
  (`Gated`), and that the list of a job outside `lost` is still backed when it commits
  (`StillBacked`). `GoesOn`, `Begins`, `Ends` and `LoseLockInv` are the lock's part of it,
  once for each kind of step.
* `ContentProofs`: `ContentInv` adds to the shape of the tables that the columns of a
  row hang together (`Sound`: vector and hash, and a finished row has all its
  attempts before it, without which a stale vector could be final) and what a job
  holds of Strapi while nobody edits (`Listing`): exactly the pages it asked for.
  That these are in the end all of Strapi is a fact about paging (`Paged`): the place
  of a FAQ counts what is listed up to it, so no page before the last is empty
  (`NextPlace`) and `pageCount` pages hold everything (`RoundedUp`).
* `RunsProofs`: `TurnsInv` says what Strapi holds of a turn at each place (`Stored`), who
  holds a session's lock or that it was lost (`LocksOK`), what a stream's queue may
  contain by then (`Told`), and that a page has no more keys than answers
  (`PageGood`). `LockedTurnsSerial` and `ClicksRateTheirAnswer` rest on lemmas about
  filters: the history a turn is given is the last messages of its session, in
  order, and the n-th answer of a page has the n-th key. `ConsoleImplementsTurns`
  shows that every step of `Runs` is a step of `Conversations` or a stutter, which
  carries all of this over; `ConsoleOK` adds that a run is on record before the
  runner hears of it.

The proofs assume the named `ASSUME`s of the modules, nothing else. Where a fact about
filters, pages or finite sets needs induction, it is stated of a set of numbers that has
a least element (`Least`, from the library's theorem on well-founded relations), since the
library's induction schemes cannot be instantiated by the provers installed.

Left to TLC: liveness under fairness (`ComesToRest`, `RequestsEnd`, `SettlesOnStrapi`),
which is out of the prover's reach, and the finding, which is a counterexample.

Proved, but not among the properties of a run: the type invariants of
`Approvals`, `AgentTurn`, `Catalog`, `Access`, `Sharing`, `Content`, `Conversations` and
`Learning`, `PausesWhole` (by itself; it is a part of `GateHolds`), `StepLimitUnreached`, `EvictsOnlyItsOwn`, `OffStaysOff`,
`VersionsAreImmutable`, `WithinRelease`, `ReleasesAreImmutable`, and that `Runs`
implements `Conversations`.

## 5. Finding

`approvals_reject_race` ends with a counterexample; `PROJECT.json` quotes the lines.
The PostgreSQL `decide` reads the status in one transaction and writes the decision
in another, without a condition on the status, so an approve and a reject may
both succeed: the reviewer who rejected is told that the call will not run, and
it runs. It takes two requests that have both read the row as pending: `RejectionStands`
(`approvals_contract`, proved as `RejectionIsFinal`) says that nothing else undoes a rejection,
no late approve, retry, resumed thread, failure or crash.

## 6. Statements the code does not keep

Each of these is a property of a module that states what a document, a comment or a
test says, and that TLC finds violated when it is put into the run's `.cfg`
(in place of the properties there) with the change of constants given. They are
no runs of their own; the hazards in `PROJECT.json` refer to them.

| Property | `.cfg` | What is said, and what the code does |
| --- | --- | --- |
| `ResumeContinuesOwnCall` (action) | `ApprovalsPostgres` | an interrupted thread goes on when its own approval is decided; a retry of an approved call on LangGraph resumes the interrupt of the *next* approval of the thread (`rt/configured_runner.py:750`) |
| `StopsAfterTwoFailures` | `AgentTurn` | "two unusable tool results in a row" end a turn; the count (`rt/configured_runner.py:589`) includes the observation that the approval itself adds |
| `OldVersionOnlyInUse` | `McpPool`, `Connections = {c1}`, `MaxSessions = 2` | a changed configuration closes the old client (`services/runtime/docs/runner-fixed-config-plan.md:159`); one in use at that moment (`rt/tool_adapters.py:469`) stays after its call until it idles |
| `DisabledAgentStops` | `Access` | the gateway refuses to run a disabled agent (`apps/control-plane/docs/technical-design.md:295`); the runtime reads `enabled` of the release's snapshot only. The control plane does ask (`PlatformAsksAgent`, proved) |
| `ExplicitNotOverwritten` (action) | `Memory` | an explicit fact is not overwritten by a candidate without update intent (`services/runtime/docs/architecture.md:187`); the decision is made on a read of its own (`rt/memory/lifecycle.py:402`), before the write, and a read that fails counts as "no such fact" |
| `OneDraftPerMemory` | `Learning`, `Names = {n1, n2}` | a fingerprint with a draft is not drafted again (`docs/architecture.md:296`); a crash between the draft in Strapi and the mark in the database drafts it twice |
| `PromotesBacked` (action) | `Learning` | a synchronisation refuses skills whose memory is conflicted (`docs/architecture.md:297`); the script reads the memories before its commit and takes no lock, so a reflection may come in between; neither has a job whose lock broke with its connection. It holds as long as the lock does (`JobPromotesBacked`, proved) |
| `DecisionReachesRun` | `Runs` | deciding an approval updates its run (`test_agent_routes.py:178`, `technical-design.md:174`); the runner's answer names no run after an approval (`rt/configured_runner.py:741`) and the gateway's own identifier after a rejection (`api_app.py:759`), so the row stays at `pending_approval` |
| `PrivateNeverShared` | `Sharing` | `agent_private` forbids sharing across agents, and policy reads fail closed (`services/runtime/docs/architecture.md:135`, `:152`); a turn that cannot read the policy goes on as under `user_controlled` (`rt/runtime_context.py:420`), saves the fact for all agents and leaves it to the preference who recalls it. With the policy read it holds (`PrivateStaysPrivate`, proved) |
| `FailsClosed` | `Sharing` | policy reads fail closed and do not widen sharing across agents (`services/runtime/docs/architecture.md:152`); when a query for them fails, `rt/runtime_context.py:421` returns with the preference unset, and unset lets through facts of the time before agents, whose source is unknown, though the user has switched sharing off |

`ChatTurnsSerial` is about turns that take the session's lock. `operations.md:108` says that a
session is serial; turns of the gateway and of webhooks take no lock, and two of them at a
time do not see one another.

Three properties say less than one may read into them. `QuietSyncMirrors` speaks of
synchronisations that nobody disturbs, so of right paging: what people change
while a list is read is put right by a later one at best. `FactSpec` has each provider
call take effect once; a second extraction of the same message makes new calls, and
what keeps these from mattering is that the same fact is left as it is.
`RecordTellsTruth` binds the rows that say completed or pending only.

Observations without a property: running a draft checks which tools the user has and not the
scopes inside them; two administrators changing one role may mix the status of one with the
permissions of the other; giving roles to a disabled account (`set_user_roles`)
makes it active again; the runtime's `validate_runtime_context` knows no members of an
agent, whom `can_run_agent` of the control plane admits.

## 7. Not modelled, and assumptions

* Pure I/O or arithmetic: matching and ranking of skills and documents,
  embeddings as numbers, the language model (a nondeterministic choice over what its
  parsers accept), the Strapi and HTTP clients beyond "answers or fails", the demo
  and FAQ agents, rendering, settings, seeds, migrations other than the backfill of
  memories, evaluation scripts.
* Approvals and turns: the wording of responses; LangGraph's recursion limit; the retries and
  the parallelism inside one tool batch, whose results come back in order.
* Pool: `close()` at exit and the restart of a dead loop thread.
* Control plane: the debug backend, logins, visibility, members, channels, scopes inside a
  tool, creating and seeding agents and roles (they are the initial state), all tools on one
  connection.
* Memory: a message gives at most one candidate; keys are those that `user_memories`
  mirrors. Versions and expiry are in `Memory`, sharing in `Sharing`; OpenViking
  is modelled without versions and time limits, its namespaces by `preferences`
  alone, for one user of one tenant. `context_update` and the category of entities
  are left out.
* Learning: the clustering of feedback and the texts of drafts are any value; people change
  everything about a skill but the memory it came from.
* Conversations: storing a rating, WeCom's chunks and progress texts. A response hands the
  events of its queue on in order. `runs` has no turn of kind `chat`: it takes the same steps
  as a stream without its events.
* Content: `faqs.version` moves with the hash only and is left out.

## 8. What could come next

1. Versions and time limits of OpenViking documents in `Sharing`, and `FactStore` as
   the abstract store of that provider too.
2. Visibility, members and channels in `Access`; a second user, so that publisher and runner
   may differ.
