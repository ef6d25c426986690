------------------------------- MODULE Access -------------------------------
(***************************************************************************)
(* Who may run what: the releases of one agent in the control plane, and   *)
(* the runtime context that a request for a released agent gets.           *)
(*                                                                         *)
(* resolve_runtime_context reads the release, the tools, their policies,   *)
(* their connection, the roles and the user with queries of their own and  *)
(* no transaction around them, so each read is a step and the control      *)
(* plane may change anything in between.  The configuration of a release   *)
(* may come from a cache; nothing else may.                                *)
(*                                                                         *)
(* A request comes through the control plane, which checks access before   *)
(* it calls the runtime, or straight through the runtime's gateway; a      *)
(* request for the draft is answered by the control plane alone.           *)
(*                                                                         *)
(* The user owns the agent, publishes and runs it, and may have one custom *)
(* role.  An administrator changes the role in two transactions, and so    *)
(* the user's account and roles; the owner changes the draft with a check  *)
(* of tools and roles before the transaction that writes it.               *)
(***************************************************************************)
EXTENDS Catalog

CONSTANTS
  Requests,    \* concurrent requests to run the agent, all of one user
  Managers,    \* concurrent requests of its owner to publish or change it
  MaxReleases  \* bound on the releases ever published

ASSUME AccessAssumption == MaxReleases \in Nat

Numbers == 1..MaxReleases
NoRelease == 0

VARIABLES
  draft,        \* agent_tools of the draft
  snapshot,     \* the last of agent_permission_snapshots
  enabled,      \* agents.enabled
  role,         \* roles and role_tool_permissions of the custom role
  user,         \* users.status, and whether the user has the role
  edit,         \* what an administrator still has to write
  releases,     \* rows of agent_releases
  publication,  \* publication[p]: what a publish request is doing
  cache,        \* releases whose config_json is in L1 or in Redis
  run,          \* run[r]: what a request to run is doing
  seen          \* history: what was so at some moment of each request

accountVars == <<enabled, role, user, edit>>
releaseVars == <<draft, snapshot, accountVars, releases, publication, cache>>
vars == <<catalogVars, releaseVars, run, seen>>

Configs == [enabled : BOOLEAN, tools : SUBSET Tools, gated : SUBSET Tools,
            granted : SUBSET Tools]
NoConfig == [enabled |-> FALSE, tools |-> {}, gated |-> {}, granted |-> {}]
Releases == [status : {"absent", "published", "revoked"}, config : Configs]
Publications == [pc : {"idle", "number", "manifests", "grants", "insert", "owner", "save"},
                 config : Configs, number : Numbers \cup {NoRelease}]
NoPublication == [pc |-> "idle", config |-> NoConfig, number |-> NoRelease]

Role == [active : BOOLEAN, tools : SUBSET Tools]
User == [active : BOOLEAN, assigned : BOOLEAN]

\* get_user_role_tool_scopes: what the user's active roles grant, at the scope
\* of the draft.
grants == IF user.assigned /\ role.active THEN role.tools ELSE {}

\* What is written by the second transaction of update_custom_role and of
\* set_user_roles.
NoEdit == {}
Edits == {NoEdit} \cup {{[of |-> "role", tools |-> g]} : g \in SUBSET Tools}
                 \cup {{[of |-> "user", assigned |-> b]} : b \in BOOLEAN}

Paths == {"platform", "gateway", "draft"}
Pcs == {"idle", "admitRelease", "admitAgent", "admitUser", "admitTools",
        "release", "active", "policies", "connections", "grants", "user", "running",
        "draftSnapshot", "draftUser", "draftRoles", "draftActive", "draftManifests"}
Runs == [pc : Pcs, path : Paths, release : Numbers \cup {NoRelease},
         published : BOOLEAN, tools : SUBSET Tools, gated : SUBSET Tools]
NoRun == [pc |-> "idle", path |-> "gateway", release |-> NoRelease,
          published |-> FALSE, tools |-> {}, gated |-> {}]

Sights == [published : BOOLEAN, enabled : BOOLEAN, active : BOOLEAN,
           live : SUBSET Tools, granted : SUBSET Tools, lenient : SUBSET Tools]
Blind == [published |-> FALSE, enabled |-> FALSE, active |-> FALSE,
          live |-> {}, granted |-> {}, lenient |-> {}]

TypeOK ==
  /\ CatalogTypeOK
  /\ draft \subseteq Tools
  /\ enabled \in BOOLEAN
  /\ snapshot \subseteq Tools
  /\ role \in Role
  /\ user \in User
  /\ edit \in Edits
  /\ releases \in [Numbers -> Releases]
  /\ publication \in [Managers -> Publications]
  /\ cache \subseteq Numbers
  /\ run \in [Requests -> Runs]
  /\ seen \in [Requests -> Sights]

Published == {n \in Numbers : releases[n].status # "absent"}

\* save_agent: what is active and granted to the owner, who is active.
Created ==
  /\ draft = {t \in Tools : rows[t].status = "active"}
  /\ role = [active |-> TRUE, tools |-> draft]
  /\ user = [active |-> TRUE, assigned |-> TRUE]
  /\ snapshot = grants
  /\ enabled = TRUE

\* The agent has been created, and published once or not yet.
Init ==
  /\ CatalogInit
  /\ Created
  /\ edit = NoEdit
  /\ \E first \in SUBSET (Numbers \cap {1}) :
       releases = [n \in Numbers |->
         IF n \in first
         THEN [status |-> "published",
               config |-> [enabled |-> TRUE, tools |-> draft, gated |-> {},
                           granted |-> grants]]
         ELSE [status |-> "absent", config |-> NoConfig]]
  /\ publication = [p \in Managers |-> NoPublication]
  /\ cache = {}
  /\ run = [r \in Requests |-> NoRun]
  /\ seen = [r \in Requests |-> Blind]

----------------------------------------------------------------------------
\* publish_agent, query by query.

LoadDraft(p) ==
  /\ publication[p] = NoPublication
  /\ Counted
  /\ publication' = [publication EXCEPT ![p] =
       [NoPublication EXCEPT !.pc = "number", !.config.enabled = enabled,
                             !.config.tools = draft]]
  /\ UNCHANGED <<draft, snapshot, accountVars, releases, cache>>
  /\ UNCHANGED <<rows, connected, versions, txn, hand, foreign>>

\* next_release_version
Number(p) ==
  /\ publication[p].pc = "number"
  /\ \E n \in Numbers :
       /\ n \notin Published
       /\ \A m \in Numbers : m \in Published <=> m < n
       /\ publication' = [publication EXCEPT ![p].pc = "manifests", ![p].number = n]

Refuse(p) == publication' = [publication EXCEPT ![p] = NoPublication]

\* fetch_tools_by_ids, which finds live tools only.
Found(tools) == {t \in tools : Live(t)}

\* release_config_snapshot
ReadManifests(p) ==
  LET tools == publication[p].config.tools IN
  /\ publication[p].pc = "manifests"
  /\ \/ /\ Found(tools) = tools
        /\ publication' = [publication EXCEPT
             ![p].pc = "grants", ![p].config.gated = {t \in tools : rows[t].gated}]
     \/ /\ Found(tools) # tools
        /\ Refuse(p)

\* release_config_snapshot: permission_snapshot
ReadPermissions(p) ==
  /\ publication[p].pc = "grants"
  /\ publication' = [publication EXCEPT ![p].pc = "insert", ![p].config.granted = grants]

\* Mutant of Taken: no UNIQUE(agent_id, version), the later row wins.
NeverTaken(n) == FALSE
Taken(n) == n \in Published

\* save_agent_release; UNIQUE(agent_id, version) refuses a number that is taken.
Insert(p) ==
  LET n == publication[p].number IN
  /\ publication[p].pc = "insert"
  /\ Refuse(p)
  /\ releases' = IF Taken(n) THEN releases
                 ELSE [releases EXCEPT ![n] = [status |-> "published",
                                               config |-> publication[p].config]]

\* An exception in a publish request.
AbortPublication(p) ==
  /\ publication[p].pc # "idle"
  /\ Refuse(p)

Publication(p) ==
  /\ \/ (ReadManifests(p) \/ ReadPermissions(p) \/ Number(p)) /\ UNCHANGED releases
     \/ Insert(p)
     \/ AbortPublication(p) /\ UNCHANGED releases
  /\ UNCHANGED <<catalogVars, draft, snapshot, accountVars, cache>>

\* The row, only if it is published.
RevokeRow(n) ==
  /\ releases[n].status = "published"
  /\ releases' = [releases EXCEPT ![n].status = "revoked"]

\* revoke_agent_release
Revoke(n) ==
  /\ RevokeRow(n)
  /\ Counted
  /\ UNCHANGED <<draft, snapshot, accountVars, publication, cache>>
  /\ UNCHANGED <<rows, connected, versions, txn, hand, foreign>>

----------------------------------------------------------------------------
\* update_agent: the tools, then the owner's roles are read, then one
\* transaction writes the draft and what the owner was granted.

ChangeDraft(p, d) ==
  /\ publication[p] = NoPublication
  /\ d # draft
  /\ \A t \in d : Live(t)
  /\ Counted
  /\ publication' = [publication EXCEPT ![p].pc = "owner", ![p].config.tools = d]
  /\ UNCHANGED <<draft, snapshot, accountVars, releases, cache>>
  /\ UNCHANGED <<rows, connected, versions, txn, hand, foreign>>

\* validate_configured_tools
AskOwner(p) ==
  /\ publication[p].pc = "owner"
  /\ IF publication[p].config.tools \subseteq grants
     THEN publication' = [publication EXCEPT ![p].pc = "save", ![p].config.granted = grants]
     ELSE Refuse(p)
  /\ UNCHANGED <<draft, snapshot>>

SaveDraft(p) ==
  /\ publication[p].pc = "save"
  /\ draft' = publication[p].config.tools
  /\ snapshot' = publication[p].config.granted
  /\ Refuse(p)

Change(p) ==
  /\ AskOwner(p) \/ SaveDraft(p)
  /\ UNCHANGED <<catalogVars, accountVars, releases, cache>>

----------------------------------------------------------------------------
\* Administrators

Administer ==
  /\ UNCHANGED <<draft, snapshot, releases, publication, cache>>
  /\ UNCHANGED <<rows, connected, versions, txn, hand, foreign>>

\* PUT /admin/agents/{id}/status
SetAgentStatus(e) ==
  /\ e # enabled
  /\ Counted
  /\ enabled' = e
  /\ Administer
  /\ UNCHANGED <<role, user, edit>>

\* PUT /users/{id}
SetUser(a) ==
  /\ a # user.active
  /\ Counted
  /\ user' = [user EXCEPT !.active = a]
  /\ Administer
  /\ UNCHANGED <<enabled, role, edit>>

\* PUT /admin/roles/{id}: the row of the role, then its permissions.
UpdateRole(a, g) ==
  /\ edit = NoEdit
  /\ Counted
  /\ role' = [role EXCEPT !.active = a]
  /\ edit' = {[of |-> "role", tools |-> g]}
  /\ Administer
  /\ UNCHANGED <<enabled, user>>

\* PUT /admin/users/{id}/roles: an inactive account is active again, then the
\* roles are replaced.
SetUserRoles(b) ==
  /\ edit = NoEdit
  /\ Counted
  /\ user' = [user EXCEPT !.active = TRUE]
  /\ edit' = {[of |-> "user", assigned |-> b]}
  /\ Administer
  /\ UNCHANGED <<enabled, role>>

\* replace_role_tool_permissions, replace_user_roles
WriteEdit(x) ==
  /\ x \in edit
  /\ edit' = NoEdit
  /\ IF x.of = "role" THEN role' = [role EXCEPT !.tools = x.tools] /\ UNCHANGED user
     ELSE user' = [user EXCEPT !.assigned = x.assigned] /\ UNCHANGED role
  /\ UNCHANGED <<enabled, changes>>
  /\ Administer

\* The database fails between the two.
LoseEdit ==
  /\ edit # NoEdit
  /\ edit' = NoEdit
  /\ UNCHANGED <<enabled, role, user, changes>>
  /\ Administer

\* A configuration leaves the cache: an invalidation event, the TTL, the LRU
\* limit, a restart.  The events are best effort, so none has to.
Evict(n) ==
  /\ n \in cache
  /\ cache' = cache \ {n}
  /\ UNCHANGED <<catalogVars, draft, snapshot, accountVars, releases, publication>>

ControlNext ==
  \/ CatalogNext /\ UNCHANGED releaseVars
  \/ \E p \in Managers : LoadDraft(p) \/ Publication(p) \/ Change(p)
  \/ \E p \in Managers, d \in SUBSET Tools : ChangeDraft(p, d)
  \/ \E n \in Numbers : Revoke(n) \/ Evict(n)
  \/ \E b \in BOOLEAN : SetAgentStatus(b) \/ SetUser(b) \/ SetUserRoles(b)
  \/ \E a \in BOOLEAN, g \in SUBSET Tools : UpdateRole(a, g)
  \/ \E x \in edit : WriteEdit(x)
  \/ LoseEdit

----------------------------------------------------------------------------
\* A request to run.

Goto(r, pc) == run' = [run EXCEPT ![r].pc = pc]
End(r) == run' = [run EXCEPT ![r] = NoRun]
Proceed(r, ok, pc) == IF ok THEN Goto(r, pc) ELSE End(r)

Arrive(r, n, path) ==
  /\ run[r] = NoRun
  /\ n \in Published
  /\ path # "draft"
  /\ run' = [run EXCEPT ![r] =
       [NoRun EXCEPT !.pc = IF path = "platform" THEN "admitRelease" ELSE "release",
                     !.path = path, !.release = n]]

\* run_agent_release and resolve_release_access in the control plane.
AdmitRelease(r) ==
  /\ run[r].pc = "admitRelease"
  /\ Proceed(r, releases[run[r].release].status = "published", "admitAgent")
\* Mutant of AgentAdmits: the snapshot is asked, not the agent.
SnapshotAdmits(n) == releases[n].config.enabled
\* agent_is_enabled
AgentAdmits(n) == enabled
AdmitAgent(r) ==
  /\ run[r].pc = "admitAgent"
  /\ Proceed(r, AgentAdmits(run[r].release) /\ releases[run[r].release].config.enabled,
           "admitUser")
AdmitUser(r) ==
  /\ run[r].pc = "admitUser"
  /\ Proceed(r, user.active, "admitTools")

\* The tools that the request names are among those that the control plane
\* would allow; it is not they that the runtime gets.
Allowed(r) == {t \in releases[run[r].release].config.tools : Live(t)} \cap grants
AdmitTools(r) ==
  /\ run[r].pc = "admitTools"
  /\ \E requested \in SUBSET Tools : Proceed(r, requested \subseteq Allowed(r), "release")

Config(r) == releases[run[r].release].config

\* Mutant of StatusOf: the status comes from the cache with the configuration.
CachedStatusOf(n) == IF n \in cache THEN "published" ELSE releases[n].status

\* The row's status is always read; config_json only if it is not cached.  What
\* is cached is what the row holds, which never changes (ReleasesAreImmutable).
StatusOf(n) == releases[n].status

\* fetch_agent_release
ReadRelease(r) ==
  LET n == run[r].release IN
  /\ run[r].pc = "release"
  /\ run' = [run EXCEPT ![r].pc = "active", ![r].published = (StatusOf(n) = "published"),
                        ![r].tools = Config(r).tools]
  /\ cache' \in {cache, cache \cup {n}}  \* Redis may be down or disabled

\* active_tool_ids
ReadActive(r) ==
  /\ run[r].pc = "active"
  /\ run' = [run EXCEPT ![r].pc = "policies", ![r].tools = {t \in @ : Live(t)}]

\* Mutant of PolicyOf: the policy of the release.
ReleasedPolicyOf(r, t) == t \in Config(r).gated

\* fetch_active_tool_runtime_policies: active tools only, so a tool disabled
\* since the last query keeps the policy of its release.
PolicyOf(r, t) == IF rows[t].status = "active" THEN rows[t].gated ELSE t \in Config(r).gated
ReadPolicies(r) ==
  /\ run[r].pc = "policies"
  /\ run' = [run EXCEPT ![r].pc = "connections",
                        ![r].gated = {t \in run[r].tools : PolicyOf(r, t)}]

\* refresh_mcp_connection_configs
ReadConnections(r) ==
  /\ run[r].pc = "connections"
  /\ run' = [run EXCEPT ![r].pc = "grants", ![r].tools = IF connected THEN @ ELSE {}]

\* Mutants of Effective: the roles of today, and those of the publication, are
\* not asked.
EffectiveThen(r) ==
  LET created == IF Config(r).granted = {} THEN run[r].tools ELSE Config(r).granted
  IN run[r].tools \cap created
EffectiveNow(r) == run[r].tools \cap grants

\* effective_tools, and the scopes; a release that recorded no roles is not
\* limited by them.
Effective(r) ==
  LET created == IF Config(r).granted = {} THEN run[r].tools ELSE Config(r).granted
  IN run[r].tools \cap created \cap grants

\* apply_runtime_tool_authz
ReadGrants(r) ==
  /\ run[r].pc = "grants"
  /\ run' = [run EXCEPT ![r].pc = "user", ![r].tools = Effective(r),
                        ![r].gated = @ \cap Effective(r)]

\* validate_runtime_context; then the turn runs.
Validate(r) ==
  /\ run[r].pc = "user"
  /\ Proceed(r, run[r].published /\ Config(r).enabled /\ user.active, "running")

----------------------------------------------------------------------------
\* A request for the draft: resolve_agent_access, draft_runtime_context.

\* load_agent: agents and agent_tools, then the snapshot; another request may
\* write both in between.
LoadAgent(r) ==
  /\ run[r] = NoRun
  /\ enabled
  /\ run' = [run EXCEPT ![r] = [NoRun EXCEPT !.pc = "draftSnapshot", !.path = "draft",
                                            !.tools = draft]]
LoadSnapshot(r) ==
  /\ run[r].pc = "draftSnapshot"
  /\ run' = [run EXCEPT ![r].pc = "draftUser", ![r].tools = @ \cap snapshot]

DraftUser(r) ==
  /\ run[r].pc = "draftUser"
  /\ Proceed(r, user.active, "draftRoles")

DraftRoles(r) ==
  /\ run[r].pc = "draftRoles"
  /\ run' = [run EXCEPT ![r].pc = "draftActive", ![r].tools = @ \cap grants]

\* POST /agents/{id}/authorize answers with these.
DraftActive(r) ==
  /\ run[r].pc = "draftActive"
  /\ run' = [run EXCEPT ![r].pc = "draftManifests", ![r].tools = {t \in @ : Live(t)}]

\* fetch_tools_by_ids: the manifests, with today's policies, of live tools.
DraftManifests(r) ==
  LET tools == Found(run[r].tools) IN
  /\ run[r].pc = "draftManifests"
  /\ run' = [run EXCEPT ![r].pc = "running", ![r].tools = tools,
                        ![r].gated = {t \in tools : rows[t].gated}]

DraftNext(r) ==
  \/ LoadAgent(r) \/ LoadSnapshot(r) \/ DraftUser(r) \/ DraftRoles(r) \/ DraftActive(r) \/ DraftManifests(r)

\* The turn is over, or the request fails.
Finish(r) ==
  /\ run[r].pc # "idle"
  /\ End(r)

RunNext(r) ==
  \/ /\ \/ \E n \in Numbers, path \in Paths : Arrive(r, n, path)
        \/ AdmitRelease(r) \/ AdmitAgent(r) \/ AdmitUser(r) \/ AdmitTools(r)
        \/ DraftNext(r)
        \/ ReadActive(r) \/ ReadPolicies(r) \/ ReadConnections(r) \/ ReadGrants(r)
        \/ Validate(r) \/ Finish(r)
     /\ UNCHANGED cache
  \/ ReadRelease(r)

----------------------------------------------------------------------------
\* What is so now, as far as it matters to the request.
Sight(r) == [published |-> run[r].path # "draft" /\ releases[run[r].release].status = "published",
             enabled |-> enabled, active |-> user.active,
             live |-> {t \in Tools : Live(t)}, granted |-> grants,
             lenient |-> {t \in Tools : rows[t].status # "active" \/ ~rows[t].gated}]

Also(s, now) == [published |-> s.published \/ now.published,
                 enabled |-> s.enabled \/ now.enabled,
                 active |-> s.active \/ now.active,
                 live |-> s.live \cup now.live, granted |-> s.granted \cup now.granted,
                 lenient |-> s.lenient \cup now.lenient]

Watch ==
  seen' = [r \in Requests |->
    IF run'[r].pc = "idle" THEN Blind ELSE Also(seen[r], Sight(r)')]

Next ==
  /\ \/ ControlNext /\ UNCHANGED run
     \/ /\ \E r \in Requests : RunNext(r)
        /\ UNCHANGED <<catalogVars, draft, snapshot, accountVars, releases, publication>>
  /\ Watch

Spec == Init /\ [][Next]_vars

----------------------------------------------------------------------------
Running(r) == run[r].pc = "running"

\* A turn starts only for a release that was published at some moment since
\* its request came in: no cache and no lost event keeps a revoked one alive.
RevokedStaysOut ==
  \A r \in Requests : Running(r) /\ run[r].path # "draft" => seen[r].published

\* Every tool of a turn was active, connected and granted to the user since
\* the request came in.
ToolsWereLive ==
  \A r \in Requests :
    Running(r) => run[r].tools \subseteq seen[r].live \cap seen[r].granted

\* A turn may call a tool without an approval only if the tool's current
\* policy allowed it since the request came in, or the tool was disabled
\* meanwhile (then its released policy stands).
GateIsLive ==
  \A r \in Requests :
    Running(r) => run[r].tools \ run[r].gated \subseteq seen[r].lenient

\* No change of roles or tools after the publication gives a turn more than
\* was released and granted to the publisher then.
WithinRelease ==
  \A r \in Requests :
    Running(r) /\ run[r].path # "draft" =>
      /\ run[r].tools \subseteq Config(r).tools
      /\ Config(r).granted # {} => run[r].tools \subseteq Config(r).granted

\* A release never changes, its number is never given twice and a revoked one
\* stays revoked: what a cache holds of it is what its row holds.
ReleasesAreImmutable ==
  [][\A n \in Published :
       /\ releases'[n].config = releases[n].config
       /\ releases[n].status = "revoked" => releases'[n].status = "revoked"]_vars

\* Through the control plane, a turn starts only if the agent was enabled.
PlatformAsksAgent ==
  \A r \in Requests : Running(r) /\ run[r].path = "platform" => seen[r].enabled

\* technical-design.md: a disabled agent's releases do not run.
DisabledAgentStops == \A r \in Requests : Running(r) => seen[r].enabled
=============================================================================
