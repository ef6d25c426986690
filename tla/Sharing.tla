------------------------------ MODULE Sharing ------------------------------
(***************************************************************************)
(* Who is given which memory: the namespace policy of the tenant and the   *)
(* sharing preference of one user in the control plane, the turns of the   *)
(* user's agents and the extraction job that read them, and the facts that *)
(* OpenViking keeps for the user, one document per identity.               *)
(*                                                                         *)
(* Nothing is locked: governance is read by two queries, either of which   *)
(* may fail, a fact is written by a read and a write, a recall is a search *)
(* in an index and a read of each hit.  Each of these requests is a step.  *)
(*                                                                         *)
(* All facts are of the namespace preferences, the only one that turns     *)
(* recall and save.  An agent that the context does not name is NoAgent,   *)
(* as is the unknown source of a fact of the time before agents.           *)
(***************************************************************************)
EXTENDS Integers, FiniteSets

CONSTANTS
  Agents, NoAgent,
  PublicAgents,      \* agents whose release is public
  Turns, Jobs,       \* what runs concurrently for the user
  Keys, Values, NoValue,
  MaxChanges,        \* bound on changes of policy and preference
  MaxWrites          \* bound on documents written or deleted

ASSUME SharingAssumption ==
  /\ NoAgent \notin Agents
  /\ PublicAgents \subseteq Agents
  /\ Turns \cap Jobs = {}
  /\ NoValue \notin Values
  /\ MaxChanges \in Nat
  /\ MaxWrites \in Nat

Actors == Turns \cup Jobs
Sources == Agents \cup {NoAgent}
Modes == {"tenant_required", "user_controlled", "agent_private"}
Shares == {"unset", "on", "off"}

\* MemoryNamespacePolicy; the set is empty when no administrator has set one.
Policy == [mode : Modes, public : BOOLEAN]
Policies == {{}} \cup {{p} : p \in Policy}

Scopes == {"user_global", "user_agent", "tenant_user"}
Identity == [scope : Scopes, agent : Sources, key : Keys]

\* told is history: "private" when agent_private was in force all the time of
\* the turn that the fact was told in and this turn had read the policy,
\* "unaware" when it was in force and the turn had not read it.
Document == [value : Values, scope : Scopes, agent : Sources, source : Sources,
             told : {"private", "unaware", "openly"}]

VARIABLES
  policy,   \* memory_namespace_policies: the row of the namespace, if any
  share,    \* user_memory_preferences
  docs,     \* OpenViking: per identity a set of at most one document
  actor,    \* what each turn or job is doing
  changes, writes

vars == <<policy, share, docs, actor, changes, writes>>

Stages == {"idle", "preferences", "ready", "recalling", "writing"}

\* shares, private, opened and known are history: the preferences in force since
\* the actor began, whether the policy was agent_private all the time and open
\* to public agents at some moment, and whether the actor has read the policy.
Acting == [at : Stages, agent : Sources, mode : Modes, public : BOOLEAN,
           share : Shares, hits : SUBSET Identity,
           got : SUBSET Document, on : SUBSET Identity,
           value : Values \cup {NoValue},
           shares : SUBSET Shares, private : BOOLEAN,
           opened : BOOLEAN, known : BOOLEAN]

\* policy_for: the mode where p is the row of the namespace, if any.
ModeOf(p) == IF p = {} THEN "user_controlled" ELSE (CHOOSE q \in p : TRUE).mode

\* fetch_memory_governance starts from no policy and no preference, which
\* policy_for makes user_controlled, closed to public agents.
Idle == [at |-> "idle", agent |-> NoAgent, mode |-> "user_controlled",
         public |-> FALSE, share |-> "unset", hits |-> {},
         got |-> {}, on |-> {}, value |-> NoValue,
         shares |-> {}, private |-> FALSE, opened |-> FALSE, known |-> FALSE]

TypeOK ==
  /\ policy \in Policies
  /\ share \in Shares
  /\ docs \in [Identity -> SUBSET Document]
  /\ actor \in [Actors -> Acting]
  /\ changes \in 0..MaxChanges
  /\ writes \in 0..MaxWrites

-----------------------------------------------------------------------------
\* The policy of Aegora: pure functions of a governance g read by an actor.

\* Mutant of WriteScopeFor: no overlay of an agent.
WriteScopeAlwaysGlobal(g) ==
  IF g.mode = "tenant_required" THEN "tenant_user" ELSE "user_global"
WriteScopeFor(g) ==
  CASE g.mode = "tenant_required" -> "tenant_user"
    [] g.mode = "agent_private"   -> "user_agent"
    [] OTHER                      -> "user_global"

\* A preference decides; without one only facts of an unknown source are shared.
Shared(d, g) ==
  \/ d.source # NoAgent /\ d.source = g.agent
  \/ g.share = "on"
  \/ g.share = "unset" /\ d.source = NoAgent

PublicAllowed(d, g) ==
  g.agent \in PublicAgents /\ ~g.public => d.source = g.agent

CanRecall(d, g) ==
  /\ PublicAllowed(d, g)
  /\ CASE g.mode = "tenant_required" -> d.scope = "tenant_user"
       [] g.mode = "agent_private"   -> /\ d.scope = "user_agent"
                                        /\ g.agent # NoAgent
                                        /\ d.agent = g.agent
       [] OTHER -> d.scope = "user_global" /\ Shared(d, g)

-----------------------------------------------------------------------------
\* The control plane

Counted == changes < MaxChanges /\ changes' = changes + 1

See(p, s) ==
  actor' = [x \in Actors |->
    IF actor[x].at = "idle" THEN actor[x]
    ELSE [actor[x] EXCEPT !.shares = @ \cup {s},
                          !.private = @ /\ ModeOf(p) = "agent_private",
                          !.opened = @ \/ \E q \in p : q.public]]

\* upsert_memory_namespace_policy, upsert_user_memory_preference
UpsertPolicy(p) == policy' = {p} /\ See({p}, share)
UpsertPreference(s) == share' = s /\ See(policy, s)

SetPolicy(p) ==
  /\ Counted
  /\ UpsertPolicy(p)
  /\ UNCHANGED <<share, docs, writes>>

SetPreference(s) ==
  /\ Counted
  /\ UpsertPreference(s)
  /\ UNCHANGED <<policy, docs, writes>>

-----------------------------------------------------------------------------
\* Governance of a turn or of a message of the job

Began(a) == [Idle EXCEPT !.agent = a, !.shares = {share},
                         !.private = ModeOf(policy) = "agent_private",
                         !.opened = \E p \in policy : p.public]

\* The first query.
FetchPolicies(x, a) ==
  /\ actor[x].at = "idle"
  /\ actor' = [actor EXCEPT ![x] =
       [Began(a) EXCEPT !.at = "preferences", !.known = TRUE,
                        !.mode = ModeOf(policy),
                        !.public = \E p \in policy : p.public]]
  /\ UNCHANGED <<policy, share, docs, changes, writes>>

\* The second.
FetchPreferences(x) ==
  /\ actor[x].at = "preferences"
  /\ actor' = [actor EXCEPT ![x] = [@ EXCEPT !.at = "ready", !.share = share]]
  /\ UNCHANGED <<policy, share, docs, changes, writes>>

\* Mutant of WhatWasRead: fail open.
OpenWhenUnknown(g) == [g EXCEPT !.at = "ready", !.share = "on"]
\* An exception leaves what has been read and the defaults for the rest.
WhatWasRead(g) == [g EXCEPT !.at = "ready"]

\* The job skips a message whose governance it cannot read.
FetchFails(x) ==
  /\ x \in Turns
  /\ \/ /\ actor[x].at = "idle"
        /\ \E a \in Sources : actor' = [actor EXCEPT ![x] = WhatWasRead(Began(a))]
     \/ /\ actor[x].at = "preferences"
        /\ actor' = [actor EXCEPT ![x] = WhatWasRead(@)]
  /\ UNCHANGED <<policy, share, docs, changes, writes>>

-----------------------------------------------------------------------------
\* Recall

\* The search of the category finds documents of every scope.
Found == {i \in Identity : docs[i] # {}}

Search(x) ==
  /\ x \in Turns
  /\ actor[x].at = "ready"
  /\ actor' = [actor EXCEPT ![x] = [@ EXCEPT !.at = "recalling",
                                             !.hits = Found]]
  /\ UNCHANGED <<policy, share, docs, changes, writes>>

Visible(d, agent) ==
  d.scope = "user_agent" => agent # NoAgent /\ d.agent = agent

\* A document that the index does not have yet, that is gone by now or that
\* cannot be read is skipped.
ReadItem(i) == {docs[i], {}}

ReadHit(x, i) ==
  /\ i \in actor[x].hits
  /\ \E found \in ReadItem(i) :
       actor' = [actor EXCEPT ![x] =
         [actor[x] EXCEPT !.hits = @ \ {i},
                          !.got = @ \cup {d \in found : /\ Visible(d, actor[x].agent)
                                                        /\ CanRecall(d, actor[x])}]]
  /\ UNCHANGED <<policy, share, docs, changes, writes>>

\* MemoryService gives no memory at all when the provider fails or recall is
\* switched off.
RecallFails(x) ==
  /\ x \in Turns
  /\ \/ actor[x].at = "ready"
     \/ actor[x].hits # {}
  /\ actor' = [actor EXCEPT ![x] = [@ EXCEPT !.at = "recalling", !.hits = {}, !.got = {}]]
  /\ UNCHANGED <<policy, share, docs, changes, writes>>

-----------------------------------------------------------------------------
\* Writing: what a turn saves in the middle of its answer, what the job
\* remembers or forgets for a message.

Answering(x) ==
  IF x \in Turns THEN actor[x].at = "recalling" /\ actor[x].hits = {}
  ELSE actor[x].at = "ready"

\* Mutant of MemoryUri: no segment for the agent.
SharedOverlay(g, k) == [scope |-> WriteScopeFor(g), agent |-> NoAgent, key |-> k]
MemoryUri(g, k) ==
  [scope |-> WriteScopeFor(g),
   agent |-> IF WriteScopeFor(g) = "user_agent" THEN g.agent ELSE NoAgent,
   key |-> k]

NotPrivateWithoutAgent(g) == ~(WriteScopeFor(g) = "user_agent" /\ g.agent = NoAgent)
\* Neither a turn nor the job writes where the tenant governs; a scope
\* user_agent without an agent raises.
MayWrite(g) == g.mode # "tenant_required" /\ NotPrivateWithoutAgent(g)

\* remember leaves the same fact as it is, forget has nothing to do where
\* there is no document.
NothingToDo(current, v) ==
  IF v = NoValue THEN current = {} ELSE \E d \in current : d.value = v

\* The request that reads the current document.  v = NoValue asks to forget,
\* which only the job does.
ReadCurrent(x, k, v) ==
  /\ Answering(x)
  /\ MayWrite(actor[x])
  /\ x \in Turns => v # NoValue
  /\ LET i == MemoryUri(actor[x], k) IN
     /\ ~NothingToDo(docs[i], v)
     /\ actor' = [actor EXCEPT ![x] = [@ EXCEPT !.at = "writing", !.on = {i}, !.value = v]]
  /\ UNCHANGED <<policy, share, docs, changes, writes>>

Target(x) == CHOOSE i \in actor[x].on : TRUE

\* A turn goes on with its answer; the job is done with the message.
Written(x) ==
  actor' = [actor EXCEPT ![x] =
    IF x \in Turns THEN [@ EXCEPT !.at = "recalling", !.on = {}, !.value = NoValue]
    ELSE Idle]

Told(g) ==
  IF ~g.private THEN "openly" ELSE IF g.known THEN "private" ELSE "unaware"

NewDocument(x) ==
  [value |-> actor[x].value, scope |-> Target(x).scope, agent |-> Target(x).agent,
   source |-> actor[x].agent,
   told |-> Told(actor[x])]

Stored(x) == IF actor[x].value = NoValue THEN {} ELSE {NewDocument(x)}

\* content/write replaces whatever is there by now, DELETE needs a document.
Write(x) ==
  /\ actor[x].at = "writing"
  /\ actor[x].value = NoValue => docs[Target(x)] # {}
  /\ writes < MaxWrites
  /\ writes' = writes + 1
  /\ docs' = [docs EXCEPT ![Target(x)] = Stored(x)]
  /\ Written(x)
  /\ UNCHANGED <<policy, share, changes>>

\* MemoryService makes a failed request a result.
WriteFails(x) ==
  /\ actor[x].at = "writing"
  /\ Written(x)
  /\ UNCHANGED <<policy, share, docs, changes, writes>>

\* The end of the turn, or of the job's message: done, or skipped.
End(x) ==
  /\ Answering(x) \/ (x \in Jobs /\ actor[x].at = "preferences")
  /\ actor' = [actor EXCEPT ![x] = Idle]
  /\ UNCHANGED <<policy, share, docs, changes, writes>>

-----------------------------------------------------------------------------
\* Facts of the time before agents, and facts that the tenant has put there.
Imported(scope, k, v) ==
  [value |-> v, scope |-> scope, agent |-> NoAgent, source |-> NoAgent,
   told |-> "openly"]

Init ==
  /\ policy \in Policies
  /\ share \in Shares
  /\ \E v \in Values, K \in SUBSET Keys, T \in SUBSET Keys :
       docs = [i \in Identity |->
         IF i.agent = NoAgent /\ (\/ i.scope = "user_global" /\ i.key \in K
                                  \/ i.scope = "tenant_user" /\ i.key \in T)
         THEN {Imported(i.scope, i.key, v)} ELSE {}]
  /\ actor = [x \in Actors |-> Idle]
  /\ changes = 0
  /\ writes = 0

Step(x) ==
  \/ \E a \in Sources : FetchPolicies(x, a)
  \/ FetchPreferences(x) \/ FetchFails(x)
  \/ Search(x)
  \/ \E i \in Identity : ReadHit(x, i)
  \/ RecallFails(x)
  \/ \E k \in Keys, v \in Values \cup {NoValue} : ReadCurrent(x, k, v)
  \/ Write(x) \/ WriteFails(x) \/ End(x)

Next ==
  \/ \E p \in Policy : SetPolicy(p)
  \/ \E s \in Shares \ {"unset"} : SetPreference(s)
  \/ \E x \in Actors : Step(x)

Spec == Init /\ [][Next]_vars

-----------------------------------------------------------------------------
\* What the user told one agent while agent_private was in force, in a turn that
\* had read the policy, reaches no other agent, however the policy and the
\* preference change afterwards (write_scope_for, can_recall; architecture.md:
\* agent_private "forbids sharing across agents").
PrivateStaysPrivate ==
  \A x \in Turns : \A d \in actor[x].got :
    d.told = "private" => d.source = actor[x].agent

\* A turn is given what another agent was told only if the user had sharing
\* switched on at some moment of the turn, and a public agent only if the
\* administrator had opened the namespace to it, though policy and preference
\* are read one after the other and each read may fail
\* (fetch_memory_governance, can_recall).
SharedByConsent ==
  \A x \in Turns : \A d \in actor[x].got :
    /\ d.scope = "user_global" /\ d.source \notin {actor[x].agent, NoAgent}
         => "on" \in actor[x].shares
    /\ actor[x].agent \in PublicAgents /\ d.source # actor[x].agent => actor[x].opened

\* What an agent keeps for itself is replaced or forgotten only by requests of
\* that agent, and what the tenant governs by none: it cannot be forged with
\* save_user_memory (architecture.md, tenant_required; _memory_uri, the guards
\* of save_user_memory and resolve_memory_candidate).
FactsKeepTheirOwner ==
  [][\A i \in Identity : \A d \in docs[i] :
       (\A e \in docs'[i] : e.source # d.source \/ e.value # d.value) =>
         /\ d.scope # "tenant_user"
         /\ d.scope = "user_agent" =>
              \E x \in Actors : actor[x].at = "writing" /\ actor[x].agent = d.source]_vars

\* "agent_private: forbids sharing across agents" (architecture.md) also for a
\* turn that could not read the policy, which takes it for user_controlled and
\* writes the fact where the user's preference decides who is given it.
PrivateNeverShared ==
  \A x \in Turns : \A d \in actor[x].got :
    d.told # "openly" => d.source = actor[x].agent

\* "Control Plane policy reads fail closed and do not widen sharing across
\* agents" (architecture.md): with sharing switched off all the time a turn is
\* given only what its own agent was told.
FailsClosed ==
  \A x \in Turns : \A d \in actor[x].got :
    d.scope = "user_global" /\ actor[x].shares = {"off"} => d.source = actor[x].agent
=============================================================================
