------------------------------ MODULE Catalog ------------------------------
(***************************************************************************)
(* The control plane's catalog of tools: the rows of tools, the versions   *)
(* of one workflow, the MCP connection all of them are reached through,    *)
(* and the administrators' requests that write them.                       *)
(*                                                                         *)
(* A request is a transaction at READ COMMITTED.  Its writes become        *)
(* visible when it commits; what others notice before is the locks it      *)
(* holds: the workflow's advisory lock and the rows it selected FOR UPDATE *)
(* or updated.  A step here ends where the transaction may have to wait,   *)
(* or at its commit.                                                       *)
(***************************************************************************)
EXTENDS Naturals

CONSTANTS
  McpTools,    \* tools the MCP server may offer
  Workflow,    \* tool id of the workflow
  Versions,    \* its version names
  NoVersion,   \* the version of a row that is none of these
  Admins,      \* concurrent administrators' requests
  MaxChanges   \* bound on administrative requests

ASSUME CatalogAssumption ==
  /\ Workflow \notin McpTools
  /\ NoVersion \notin Versions
  /\ MaxChanges \in Nat

Tools == McpTools \cup {Workflow}

VARIABLES
  rows,       \* rows[t]: the row of tools
  connected,  \* mcp_connections.status = 'active'
  versions,   \* rows of workflow_versions: stage and manifest
  txn,        \* txn[a]: what an administrator's request is doing
  changes,    \* administrative requests so far
  hand,       \* history: hand[t], what somebody last set the status of t to
  foreign     \* history: the workflow's row was last written by PUT /tools

catalogVars == <<rows, connected, versions, txn, changes, hand, foreign>>

Rows == [status : {"absent", "active", "disabled"}, gated : BOOLEAN,
         version : Versions \cup {NoVersion}]

\* What compute_tool_manifest_hash covers: the definition, its status, and the
\* connection as it was when the request came in.
Manifests == [gated : BOOLEAN, status : {"active", "disabled"}, connected : BOOLEAN]
VersionRows == [stage : {"absent", "active", "retired"}, manifest : Manifests]

Txns == [pc : {"idle", "lock", "retire", "write", "drop", "listed"},
         version : Versions \cup {NoVersion}, manifest : Manifests,
         others : SUBSET Versions, wasActive : BOOLEAN,
         listed : SUBSET McpTools, cautious : SUBSET McpTools]
Draft == [gated |-> FALSE, status |-> "active", connected |-> TRUE]
NoTxn == [pc |-> "idle", version |-> NoVersion, manifest |-> Draft, others |-> {},
          wasActive |-> FALSE, listed |-> {}, cautious |-> {}]

CatalogTypeOK ==
  /\ rows \in [Tools -> Rows]
  /\ connected \in BOOLEAN
  /\ versions \in [Versions -> VersionRows]
  /\ txn \in [Admins -> Txns]
  /\ changes \in 0..MaxChanges
  /\ hand \in [Tools -> {"none", "on", "off"}]
  /\ foreign \in BOOLEAN

ActiveVersions == {v \in Versions : versions[v].stage = "active"}
Live(t) == rows[t].status = "active" /\ connected

\* The server's tools have been discovered; the workflow is not registered, or
\* its first version is.
CatalogInit ==
  /\ rows \in [Tools -> Rows]
  /\ \A t \in McpTools :
       rows[t] = [status |-> "active", gated |-> FALSE, version |-> NoVersion]
  /\ \E first \in Versions, registered \in BOOLEAN :
       /\ rows[Workflow] =
            [status |-> IF registered THEN "active" ELSE "absent", gated |-> FALSE,
             version |-> IF registered THEN first ELSE NoVersion]
       /\ versions = [v \in Versions |->
            [stage |-> IF registered /\ v = first THEN "active" ELSE "absent",
             manifest |-> Draft]]
  /\ connected = TRUE
  /\ txn = [a \in Admins |-> NoTxn]
  /\ changes = 0
  /\ hand = [t \in Tools |-> "none"]
  /\ foreign = FALSE

\* One more administrative request.
Counted == changes < MaxChanges /\ changes' = changes + 1

----------------------------------------------------------------------------
\* Locks.

Publishing(a) == txn[a].pc \in {"retire", "write"}

\* Mutant of Alone: no advisory lock.
NotAlone(a) == TRUE

\* pg_advisory_xact_lock(hashtext(workflow_id))
Alone(a) == \A b \in Admins \ {a} : ~Publishing(b)

\* Mutant of Free: retirement and publication select without FOR UPDATE.
NotLocked(v, a) == TRUE

\* Rows of workflow_versions that a transaction has locked.
Holds(b) ==
  CASE txn[b].pc = "retire" -> {txn[b].version}
    [] txn[b].pc = "write"  -> {txn[b].version} \cup txn[b].others
    [] txn[b].pc = "drop"   -> {txn[b].version}
    [] OTHER -> {}
Free(v, a) == \A b \in Admins \ {a} : v \notin Holds(b)

----------------------------------------------------------------------------
\* publish_workflow_version.

Publish(a, v, m) ==
  /\ txn[a] = NoTxn
  /\ m.connected = connected
  /\ Counted
  /\ txn' = [txn EXCEPT ![a] = [NoTxn EXCEPT !.pc = "lock", !.version = v, !.manifest = m]]
  /\ UNCHANGED <<rows, connected, versions, hand, foreign>>

\* Mutant of Changed: whatever comes is written over the version.
NeverChanged(v, m) == FALSE

\* A version that exists is published again only with the manifest it has.
Changed(v, m) == versions[v].stage # "absent" /\ versions[v].manifest # m

\* The advisory lock, and the version's row if there is one.
Lock(a) ==
  /\ txn[a].pc = "lock"
  /\ Alone(a)
  /\ Free(txn[a].version, a)
  /\ txn' = [txn EXCEPT ![a] = IF Changed(txn[a].version, txn[a].manifest)
                               THEN NoTxn ELSE [@ EXCEPT !.pc = "retire"]]
  /\ UNCHANGED <<rows, connected, versions, changes, hand, foreign>>

\* UPDATE of the other active versions; it waits for their rows.
RetireOthers(a) ==
  LET others == ActiveVersions \ {txn[a].version} IN
  /\ txn[a].pc = "retire"
  /\ \A v \in others : Free(v, a)
  /\ txn' = [txn EXCEPT ![a].pc = "write", ![a].others = others]
  /\ UNCHANGED <<rows, connected, versions, changes, hand, foreign>>

\* The active versions the transaction has not retired: with its own it would
\* break the unique index workflow_versions_one_active, and be rolled back.
Clash(a) == ActiveVersions \ ({txn[a].version} \cup txn[a].others)

\* Mutant of Projection: the row is refreshed, its version forgotten.
KeepVersion(v, m) == [status |-> m.status, gated |-> m.gated, version |-> rows[Workflow].version]

\* _upsert_tool
Projection(v, m) == [status |-> m.status, gated |-> m.gated, version |-> v]

\* INSERT or reactivation, _upsert_tool, commit.
Write(a) ==
  LET v == txn[a].version
      m == txn[a].manifest
  IN
  /\ txn[a].pc = "write"
  /\ Clash(a) = {}
  /\ txn' = [txn EXCEPT ![a] = NoTxn]
  /\ versions' = [w \in Versions |->
       IF w = v THEN [stage |-> "active", manifest |-> m]
       ELSE IF w \in txn[a].others THEN [versions[w] EXCEPT !.stage = "retired"]
       ELSE versions[w]]
  /\ rows' = [rows EXCEPT ![Workflow] = Projection(v, m)]
  /\ hand' = [hand EXCEPT ![Workflow] = "none"]
  /\ foreign' = FALSE
  /\ UNCHANGED <<connected, changes>>

----------------------------------------------------------------------------
\* retire_workflow_version: SELECT FOR UPDATE, then the UPDATEs and commit.

Retire(a, v) ==
  /\ txn[a] = NoTxn
  /\ versions[v].stage # "absent"
  /\ Free(v, a)
  /\ Counted
  /\ txn' = [txn EXCEPT ![a] =
       [NoTxn EXCEPT !.pc = "drop", !.version = v,
                     !.wasActive = (versions[v].stage = "active")]]
  /\ UNCHANGED <<rows, connected, versions, hand, foreign>>

Drop(a) ==
  LET v == txn[a].version
      disables == txn[a].wasActive /\ rows[Workflow].version = v
  IN
  /\ txn[a].pc = "drop"
  /\ txn' = [txn EXCEPT ![a] = NoTxn]
  /\ versions' = [versions EXCEPT ![v].stage = "retired"]
  /\ rows' = IF disables THEN [rows EXCEPT ![Workflow].status = "disabled"] ELSE rows
  /\ hand' = IF disables /\ hand[Workflow] = "on"
             THEN [hand EXCEPT ![Workflow] = "none"] ELSE hand
  /\ UNCHANGED <<connected, changes, foreign>>

----------------------------------------------------------------------------
\* discover_mcp_connection_tools: the connection is read, the server lists
\* its tools in its own time, and replace_discovered_mcp_tools writes them.

Discover(a, offered, writing) ==
  /\ txn[a] = NoTxn
  /\ connected
  /\ writing \subseteq offered  \* tools that are not read-only need an approval
  /\ Counted
  /\ txn' = [txn EXCEPT ![a] = [NoTxn EXCEPT !.pc = "listed", !.listed = offered,
                                             !.cautious = writing]]
  /\ UNCHANGED <<rows, connected, versions, hand, foreign>>

\* Mutant of StatusAfterDiscovery: what the server offers is active.
ActiveAfterDiscovery(t) == "active"

\* _upsert_tool with preserve_status
StatusAfterDiscovery(t) ==
  IF rows[t].status = "absent" THEN "active" ELSE rows[t].status

Discovered(a) ==
  /\ txn[a].pc = "listed"
  /\ txn' = [txn EXCEPT ![a] = NoTxn]
  /\ rows' = [t \in Tools |->
       IF t \in txn[a].listed
       THEN [status |-> StatusAfterDiscovery(t), gated |-> t \in txn[a].cautious,
             version |-> NoVersion]
       ELSE IF t \in McpTools /\ rows[t].status = "active"
       THEN [rows[t] EXCEPT !.status = "disabled"]
       ELSE rows[t]]
  /\ hand' = [t \in Tools |->
       IF t \in McpTools \ txn[a].listed /\ rows[t].status = "active"
       THEN "none" ELSE hand[t]]
  /\ UNCHANGED <<connected, versions, changes, foreign>>

----------------------------------------------------------------------------
\* Requests of one statement.

\* update_tool_status
SetToolStatus(t, s) ==
  /\ rows[t].status # "absent"
  /\ Counted
  /\ rows' = [rows EXCEPT ![t].status = s]
  /\ hand' = [hand EXCEPT ![t] = IF s = "active" THEN "on" ELSE "off"]
  /\ UNCHANGED <<connected, versions, txn, foreign>>

\* PUT /tools/{tool_id}: upsert_tool with whatever the request says.  It may
\* name a version of the workflow; NoVersion is any other, or another source.
SetTool(t, s, g, v) ==
  /\ t \in McpTools => v = NoVersion
  /\ Counted
  /\ rows' = [rows EXCEPT ![t] = [status |-> s, gated |-> g, version |-> v]]
  /\ hand' = [hand EXCEPT ![t] = IF s = "active" THEN "on" ELSE "off"]
  /\ foreign' = (foreign \/ t = Workflow)
  /\ UNCHANGED <<connected, versions, txn>>

\* upsert_mcp_connection
SetConnection(c) ==
  /\ connected # c
  /\ Counted
  /\ connected' = c
  /\ UNCHANGED <<rows, versions, txn, hand, foreign>>

\* An exception in a request: its transaction is rolled back.
Abort(a) ==
  /\ txn[a].pc # "idle"
  /\ txn' = [txn EXCEPT ![a] = NoTxn]
  /\ UNCHANGED <<rows, connected, versions, changes, hand, foreign>>

CatalogNext ==
  \/ \E a \in Admins, v \in Versions, m \in Manifests : Publish(a, v, m)
  \/ \E a \in Admins : Lock(a) \/ RetireOthers(a) \/ Write(a)
  \/ \E a \in Admins, v \in Versions : Retire(a, v)
  \/ \E a \in Admins : Drop(a)
  \/ \E a \in Admins, o, w \in SUBSET McpTools : Discover(a, o, w)
  \/ \E a \in Admins : Discovered(a) \/ Abort(a)
  \/ \E t \in Tools, s \in {"active", "disabled"} : SetToolStatus(t, s)
  \/ \E t \in Tools, s \in {"active", "disabled"}, g \in BOOLEAN,
        v \in Versions \cup {NoVersion} : SetTool(t, s, g, v)
  \/ \E c \in BOOLEAN : SetConnection(c)

CatalogSpec == CatalogInit /\ [][CatalogNext]_catalogVars

----------------------------------------------------------------------------
\* A publication never meets another active version at its INSERT: it is
\* refused for a changed manifest only, not by the unique index.
PublishNeverClashes ==
  \A a \in Admins : txn[a].pc = "write" => Clash(a) = {}

\* While a version is active, the row of tools is that version's, unless
\* somebody overwrote it by PUT /tools: agents run what is published as active.
RowFollowsVersion ==
  \A v \in ActiveVersions :
    ~foreign =>
      /\ rows[Workflow].version = v
      /\ rows[Workflow].gated = versions[v].manifest.gated

\* The tool of a retired version is offered only if somebody enabled it by
\* hand after the version was retired.
RetiredNotOffered ==
  \A v \in Versions :
    (/\ versions[v].stage = "retired"
     /\ rows[Workflow].version = v
     /\ rows[Workflow].status = "active") => hand[Workflow] = "on"

\* A tool an administrator disabled stays disabled, whatever is discovered,
\* until somebody enables or publishes it.
OffStaysOff == \A t \in Tools : hand[t] = "off" => rows[t].status = "disabled"

\* A published version never changes and never disappears.
VersionsAreImmutable ==
  [][\A v \in Versions :
       versions[v].stage # "absent" =>
         /\ versions'[v].stage # "absent"
         /\ versions'[v].manifest = versions[v].manifest]_catalogVars
=============================================================================
