---------------------------- MODULE AccessProofs ----------------------------
(***************************************************************************)
(* Proofs about Catalog and about Access, which extends it, for any number *)
(* of administrators, tools, versions, requests, publications and releases.*)
(*                                                                         *)
(* The catalog's inductive invariant says what each open transaction may   *)
(* rely on: a publication is alone, no two transactions hold a row of      *)
(* workflow_versions, and what a transaction has read of the rows it holds *)
(* is still so.  That of Access says, for each place of a request, what of *)
(* the context it has resolved so far is covered by what was so at some    *)
(* moment since it came in; it keeps the catalog's along the way.          *)
(***************************************************************************)
EXTENDS Access, TLAPS

----------------------------------------------------------------------------
(* The catalog                                                             *)

(* A transaction at work knows its version.                                *)
VersionKnown ==
  \A a \in Admins : txn[a].pc \in {"lock", "retire", "write", "drop"} =>
    txn[a].version \in Versions

(* The advisory lock.                                                      *)
OnePublisher ==
  \A a, b \in Admins : Publishing(a) /\ Publishing(b) => a = b

(* The row locks.                                                          *)
HeldApart ==
  \A a, b \in Admins : a # b => Holds(a) \cap Holds(b) = {}

(* A publication past its check still has the manifest of its version.     *)
ManifestStands ==
  \A a \in Admins : Publishing(a) => ~Changed(txn[a].version, txn[a].manifest)

(* A retirement past its SELECT still knows the stage of its version.      *)
StageStands ==
  \A a \in Admins : txn[a].pc = "drop" =>
    /\ versions[txn[a].version].stage # "absent"
    /\ txn[a].wasActive <=> versions[txn[a].version].stage = "active"

CatalogInv ==
  /\ CatalogTypeOK
  /\ VersionKnown
  /\ OnePublisher
  /\ HeldApart
  /\ ManifestStands
  /\ StageStands
  /\ PublishNeverClashes
  /\ RowFollowsVersion
  /\ RetiredNotOffered
  /\ OffStaysOff

(* What VersionsAreImmutable asks of a step.                               *)
VersionsKept ==
  \A v \in Versions :
    versions[v].stage # "absent" =>
      /\ versions'[v].stage # "absent"
      /\ versions'[v].manifest = versions[v].manifest

data == <<rows, connected, versions, hand, foreign>>

(* What a transaction may be told to do next, and go on relying on.        *)
Sound(a, r) ==
  /\ r \in Txns
  /\ r.pc \in {"lock", "retire", "write", "drop"} => r.version \in Versions
  /\ r.pc \in {"retire", "write"} =>
       Alone(a) /\ Free(r.version, a) /\ ~Changed(r.version, r.manifest)
  /\ r.pc = "write" =>
       /\ \A v \in r.others : Free(v, a)
       /\ ActiveVersions \subseteq {r.version} \cup r.others
  /\ r.pc = "drop" =>
       /\ Free(r.version, a)
       /\ versions[r.version].stage # "absent"
       /\ r.wasActive <=> versions[r.version].stage = "active"

----------------------------------------------------------------------------
LEMMA NoTxnIsATxn == NoTxn \in Txns /\ NoTxn.pc = "idle"
BY DEF NoTxn, Txns, Draft, Manifests

LEMMA NoTxnIsSound ==
  ASSUME NEW a \in Admins
  PROVE  Sound(a, NoTxn)
BY NoTxnIsATxn DEF Sound

(* A step of a writes its own record and no other.                         *)
LEMMA Rewritten ==
  ASSUME CatalogTypeOK, NEW a \in Admins, NEW r \in Txns,
         txn' = [txn EXCEPT ![a] = r]
  PROVE  /\ txn' \in [Admins -> Txns]
         /\ txn'[a] = r
         /\ \A b \in Admins : b # a => txn'[b] = txn[b]
BY DEF CatalogTypeOK

LEMMA CountedInRange ==
  ASSUME CatalogTypeOK, Counted \/ UNCHANGED changes
  PROVE  changes' \in 0..MaxChanges
BY CatalogAssumption DEF CatalogTypeOK, Counted

(* A step inside a transaction: nobody sees its writes yet.                *)
LEMMA InsideATransaction ==
  ASSUME CatalogInv, NEW a \in Admins, NEW r, Sound(a, r),
         txn' = [txn EXCEPT ![a] = r],
         UNCHANGED data, Counted \/ UNCHANGED changes
  PROVE  CatalogInv' /\ VersionsKept
<1>. USE DEF CatalogInv, data
<1>1. r \in Txns
  BY DEF Sound
<1>2. /\ txn' \in [Admins -> Txns]
      /\ txn'[a] = r
      /\ \A b \in Admins : b # a => txn'[b] = txn[b]
  BY <1>1, Rewritten
<1>3. CatalogTypeOK'
  BY <1>2, CountedInRange DEF CatalogTypeOK
<1>4. VersionKnown'
  BY <1>2 DEF VersionKnown, Sound
<1>5. OnePublisher'
  BY <1>2 DEF OnePublisher, Publishing, Sound, Alone
<1>6. HeldApart'
  <2>1. \A b \in Admins : b # a => Holds(b)' = Holds(b)
    BY <1>2 DEF Holds
  <2>2. \A v \in Holds(a)' : Free(v, a)
    BY <1>2 DEF Holds, Sound
  <2>3. \A b \in Admins : b # a => Holds(a)' \cap Holds(b)' = {}
    BY <2>1, <2>2 DEF Free
  <2>. QED
    BY <2>1, <2>3 DEF HeldApart
<1>7. ManifestStands'
  BY <1>2 DEF ManifestStands, Publishing, Sound, Changed
<1>8. StageStands'
  BY <1>2 DEF StageStands, Sound
<1>9. PublishNeverClashes'
  BY <1>2 DEF PublishNeverClashes, Clash, Sound, ActiveVersions
<1>10. RowFollowsVersion' /\ RetiredNotOffered' /\ OffStaysOff' /\ VersionsKept
  BY DEF RowFollowsVersion, RetiredNotOffered, OffStaysOff, VersionsKept, ActiveVersions
<1>. QED
  BY <1>3, <1>4, <1>5, <1>6, <1>7, <1>8, <1>9, <1>10

LEMMA PublishInv ==
  ASSUME CatalogInv, NEW a \in Admins, NEW v \in Versions, NEW m \in Manifests,
         Publish(a, v, m)
  PROVE  CatalogInv' /\ VersionsKept
<1>1. PICK r : r = [NoTxn EXCEPT !.pc = "lock", !.version = v, !.manifest = m]
  OBVIOUS
<1>2. r \in Txns /\ r.pc = "lock" /\ r.version = v
  BY <1>1, NoTxnIsATxn DEF Txns, NoTxn
<1>3. Sound(a, r)
  BY <1>2 DEF Sound
<1>. QED
  BY <1>1, <1>3, InsideATransaction DEF Publish, data

LEMMA LockInv ==
  ASSUME CatalogInv, NEW a \in Admins, Lock(a)
  PROVE  CatalogInv' /\ VersionsKept
<1>1. CASE Changed(txn[a].version, txn[a].manifest)
  BY <1>1, NoTxnIsSound, InsideATransaction DEF Lock, data
<1>2. CASE ~Changed(txn[a].version, txn[a].manifest)
  <2>1. PICK r : r = [txn[a] EXCEPT !.pc = "retire"]
    OBVIOUS
  <2>2. /\ r \in Txns /\ r.pc = "retire"
        /\ r.version = txn[a].version /\ r.manifest = txn[a].manifest
    BY <2>1 DEF CatalogInv, CatalogTypeOK, Txns
  <2>3. Sound(a, r)
    BY <1>2, <2>2 DEF Sound, Lock, CatalogInv, VersionKnown
  <2>. QED
    BY <1>2, <2>1, <2>3, InsideATransaction DEF Lock, data
<1>. QED
  BY <1>1, <1>2

LEMMA RetireOthersInv ==
  ASSUME CatalogInv, NEW a \in Admins, RetireOthers(a)
  PROVE  CatalogInv' /\ VersionsKept
<1>1. PICK others : others = ActiveVersions \ {txn[a].version}
  OBVIOUS
<1>2. PICK r : r = [txn[a] EXCEPT !.pc = "write", !.others = others]
  OBVIOUS
<1>3. /\ r \in Txns /\ r.pc = "write" /\ r.others = others
      /\ r.version = txn[a].version /\ r.manifest = txn[a].manifest
  BY <1>1, <1>2 DEF CatalogInv, CatalogTypeOK, Txns, ActiveVersions
<1>4. txn[a].pc = "retire" /\ \A v \in others : Free(v, a)
  BY <1>1 DEF RetireOthers
<1>5. Alone(a) /\ ~Changed(r.version, r.manifest) /\ r.version \in Versions
  BY <1>3, <1>4 DEF CatalogInv, OnePublisher, ManifestStands, VersionKnown, Publishing, Alone
<1>6. Free(r.version, a)
  BY <1>3, <1>4 DEF CatalogInv, HeldApart, Holds, Free
<1>7. Sound(a, r)
  BY <1>1, <1>3, <1>4, <1>5, <1>6 DEF Sound
<1>8. txn' = [txn EXCEPT ![a] = r]
  BY <1>1, <1>2 DEF RetireOthers
<1>. QED
  BY <1>7, <1>8, InsideATransaction DEF RetireOthers, data

LEMMA RetireInv ==
  ASSUME CatalogInv, NEW a \in Admins, NEW v \in Versions, Retire(a, v)
  PROVE  CatalogInv' /\ VersionsKept
<1>1. PICK r : r = [NoTxn EXCEPT !.pc = "drop", !.version = v,
                                 !.wasActive = (versions[v].stage = "active")]
  OBVIOUS
<1>2. /\ r \in Txns /\ r.pc = "drop" /\ r.version = v
      /\ r.wasActive = (versions[v].stage = "active")
  BY <1>1, NoTxnIsATxn DEF Txns, NoTxn
<1>3. Sound(a, r)
  BY <1>2 DEF Sound, Retire
<1>. QED
  BY <1>1, <1>3, InsideATransaction DEF Retire, data

LEMMA DiscoverInv ==
  ASSUME CatalogInv, NEW a \in Admins, NEW o \in SUBSET McpTools,
         NEW w \in SUBSET McpTools, Discover(a, o, w)
  PROVE  CatalogInv' /\ VersionsKept
<1>1. PICK r : r = [NoTxn EXCEPT !.pc = "listed", !.listed = o, !.cautious = w]
  OBVIOUS
<1>2. r \in Txns /\ r.pc = "listed"
  BY <1>1, NoTxnIsATxn DEF Txns, NoTxn
<1>3. Sound(a, r)
  BY <1>2 DEF Sound
<1>. QED
  BY <1>1, <1>3, InsideATransaction DEF Discover, data

LEMMA AbortInv ==
  ASSUME CatalogInv, NEW a \in Admins, Abort(a)
  PROVE  CatalogInv' /\ VersionsKept
BY NoTxnIsSound, InsideATransaction DEF Abort, data

----------------------------------------------------------------------------
(* A transaction that ends gives its locks back; the others still hold and *)
(* know what they did, if the rows they hold are as they were.             *)
LEMMA Released ==
  ASSUME CatalogInv, NEW a \in Admins, txn' = [txn EXCEPT ![a] = NoTxn],
         \A b \in Admins \ {a} : \A v \in Holds(b) :
           versions'[v].stage = versions[v].stage,
         \A v \in Versions : versions[v].stage # "absent" =>
           /\ versions'[v].stage # "absent"
           /\ versions'[v].manifest = versions[v].manifest,
         \A b \in Admins \ {a} : \A v \in Versions :
           Publishing(b) /\ versions[v].stage = "absent" =>
             versions'[v].stage = "absent",
         \A b \in Admins \ {a} : Publishing(b) => ActiveVersions' \subseteq ActiveVersions
  PROVE  /\ txn' \in [Admins -> Txns]
         /\ VersionKnown' /\ OnePublisher' /\ HeldApart'
         /\ ManifestStands' /\ StageStands' /\ PublishNeverClashes' /\ VersionsKept
<1>. USE DEF CatalogInv
<1>1. /\ txn' \in [Admins -> Txns]
      /\ txn'[a].pc = "idle"
      /\ \A b \in Admins : b # a => txn'[b] = txn[b]
  BY NoTxnIsATxn, Rewritten
<1>2. VersionKnown'
  BY <1>1 DEF VersionKnown
<1>3. OnePublisher'
  BY <1>1 DEF OnePublisher, Publishing
<1>4. HeldApart'
  BY <1>1 DEF HeldApart, Holds
<1>5. ManifestStands'
  <2>. SUFFICES ASSUME NEW b \in Admins, Publishing(b)'
                PROVE  ~Changed(txn[b].version, txn[b].manifest)'
    BY <1>1 DEF ManifestStands, Publishing
  <2>1. b # a /\ Publishing(b) /\ txn[b].version \in Versions
    BY <1>1 DEF Publishing, VersionKnown
  <2>. QED
    BY <2>1, <1>1 DEF ManifestStands, Changed
<1>6. StageStands'
  <2>. SUFFICES ASSUME NEW b \in Admins, txn[b].pc = "drop", b # a
                PROVE  versions'[txn[b].version].stage = versions[txn[b].version].stage
    BY <1>1 DEF StageStands
  <2>. QED
    BY DEF Holds
<1>7. PublishNeverClashes'
  <2>. SUFFICES ASSUME NEW b \in Admins, txn[b].pc = "write", b # a
                PROVE  Clash(b)' = {}
    BY <1>1 DEF PublishNeverClashes
  <2>1. Clash(b) = {} /\ ActiveVersions' \subseteq ActiveVersions
    BY DEF PublishNeverClashes, Publishing
  <2>. QED
    BY <1>1, <2>1 DEF Clash
<1>8. VersionsKept
  BY DEF VersionsKept
<1>. QED
  BY <1>1, <1>2, <1>3, <1>4, <1>5, <1>6, <1>7, <1>8

LEMMA WriteInv ==
  ASSUME CatalogInv, NEW a \in Admins, Write(a)
  PROVE  CatalogInv' /\ VersionsKept
<1>. USE DEF CatalogInv
<1>1. PICK v, m : v = txn[a].version /\ m = txn[a].manifest
  OBVIOUS
<1>2. /\ txn[a].pc = "write" /\ Publishing(a)
      /\ txn' = [txn EXCEPT ![a] = NoTxn]
      /\ versions' = [w \in Versions |->
           IF w = v THEN [stage |-> "active", manifest |-> m]
           ELSE IF w \in txn[a].others THEN [versions[w] EXCEPT !.stage = "retired"]
           ELSE versions[w]]
      /\ rows' = [rows EXCEPT ![Workflow] = [status |-> m.status, gated |-> m.gated,
                                             version |-> v]]
      /\ hand' = [hand EXCEPT ![Workflow] = "none"]
      /\ foreign' = FALSE
      /\ UNCHANGED <<connected, changes>>
  BY <1>1 DEF Write, Projection, Publishing
<1>3. v \in Versions /\ m \in Manifests /\ txn[a].others \subseteq Versions
  BY <1>1, <1>2 DEF VersionKnown, CatalogTypeOK, Txns
<1>4. /\ versions'[v] = [stage |-> "active", manifest |-> m]
      /\ versions[v].stage # "absent" => versions[v].manifest = m
  BY <1>1, <1>2, <1>3 DEF ManifestStands, Changed
<1>5. \A w \in Versions \ {v} :
        /\ versions'[w].manifest = versions[w].manifest
        /\ w \in txn[a].others => versions'[w].stage = "retired"
        /\ w \notin txn[a].others => versions'[w] = versions[w]
  BY <1>2 DEF CatalogTypeOK, VersionRows
<1>6. ActiveVersions' = {v}
  BY <1>1, <1>2, <1>3, <1>4, <1>5 DEF PublishNeverClashes, Clash, ActiveVersions
<1>7. \A b \in Admins \ {a} : ~Publishing(b) /\ (Holds(b) \cap Holds(a) = {})
  BY <1>2 DEF OnePublisher, HeldApart
<1>8. \A b \in Admins \ {a} : \A w \in Holds(b) :
        w \in Versions /\ w # v /\ w \notin txn[a].others
  <2>. SUFFICES ASSUME NEW b \in Admins \ {a}, NEW w \in Holds(b)
                PROVE  w \in Versions /\ w # v /\ w \notin txn[a].others
    OBVIOUS
  <2>1. Holds(a) = {v} \cup txn[a].others
    BY <1>1, <1>2 DEF Holds
  <2>2. w \in Versions
    BY <1>7 DEF Holds, Publishing, VersionKnown
  <2>. QED
    BY <1>7, <2>1, <2>2
<1>9. /\ txn' \in [Admins -> Txns]
      /\ VersionKnown' /\ OnePublisher' /\ HeldApart'
      /\ ManifestStands' /\ StageStands' /\ PublishNeverClashes' /\ VersionsKept
  <2>1. \A b \in Admins \ {a} : \A w \in Holds(b) : versions'[w].stage = versions[w].stage
    BY <1>5, <1>8
  <2>2. \A w \in Versions : versions[w].stage # "absent" =>
          versions'[w].stage # "absent" /\ versions'[w].manifest = versions[w].manifest
    BY <1>4, <1>5
  <2>. QED
    BY <1>2, <1>7, <2>1, <2>2, Released
<1>10. CatalogTypeOK'
  <2>1. rows' \in [Tools -> Rows]
    <3>1. [status |-> m.status, gated |-> m.gated, version |-> v] \in Rows
      BY <1>3 DEF Manifests, Rows
    <3>. QED
      BY <1>2, <3>1 DEF CatalogTypeOK
  <2>2. versions' \in [Versions -> VersionRows]
    <3>1. [stage |-> "active", manifest |-> m] \in VersionRows
      BY <1>3 DEF VersionRows
    <3>2. \A w \in Versions : [versions[w] EXCEPT !.stage = "retired"] \in VersionRows
      BY DEF CatalogTypeOK, VersionRows
    <3>. QED
      BY <1>2, <3>1, <3>2 DEF CatalogTypeOK
  <2>. QED
    BY <1>2, <1>9, <2>1, <2>2 DEF CatalogTypeOK
<1>11. rows'[Workflow] = [status |-> m.status, gated |-> m.gated, version |-> v]
  BY <1>2 DEF CatalogTypeOK, Tools
<1>12. RowFollowsVersion'
  BY <1>4, <1>6, <1>11 DEF RowFollowsVersion
<1>13. RetiredNotOffered'
  BY <1>4, <1>11 DEF RetiredNotOffered
<1>14. OffStaysOff'
  BY <1>2 DEF OffStaysOff, CatalogTypeOK
<1>. QED
  BY <1>9, <1>10, <1>12, <1>13, <1>14

LEMMA DropInv ==
  ASSUME CatalogInv, NEW a \in Admins, Drop(a)
  PROVE  CatalogInv' /\ VersionsKept
<1>. USE DEF CatalogInv
<1>1. PICK v : v = txn[a].version
  OBVIOUS
<1>2. PICK disables : disables = (txn[a].wasActive /\ rows[Workflow].version = v)
  OBVIOUS
<1>3. /\ txn[a].pc = "drop"
      /\ txn' = [txn EXCEPT ![a] = NoTxn]
      /\ versions' = [versions EXCEPT ![v].stage = "retired"]
      /\ rows' = IF disables THEN [rows EXCEPT ![Workflow].status = "disabled"] ELSE rows
      /\ hand' = IF disables /\ hand[Workflow] = "on"
                 THEN [hand EXCEPT ![Workflow] = "none"] ELSE hand
      /\ UNCHANGED <<connected, changes, foreign>>
  BY <1>1, <1>2 DEF Drop
<1>4. /\ v \in Versions /\ versions[v].stage # "absent"
      /\ txn[a].wasActive <=> versions[v].stage = "active"
  BY <1>1, <1>3 DEF VersionKnown, StageStands
<1>5. /\ versions'[v].stage = "retired" /\ versions'[v].manifest = versions[v].manifest
      /\ \A w \in Versions \ {v} : versions'[w] = versions[w]
  BY <1>3, <1>4 DEF CatalogTypeOK, VersionRows
<1>6. ActiveVersions' = ActiveVersions \ {v}
  BY <1>5 DEF ActiveVersions
<1>7. Holds(a) = {v}
  BY <1>1, <1>3 DEF Holds
<1>8. \A b \in Admins \ {a} : v \notin Holds(b)
  BY <1>7 DEF HeldApart
<1>9. /\ txn' \in [Admins -> Txns]
      /\ VersionKnown' /\ OnePublisher' /\ HeldApart'
      /\ ManifestStands' /\ StageStands' /\ PublishNeverClashes' /\ VersionsKept
  <2>1. \A b \in Admins \ {a} : \A w \in Holds(b) : versions'[w].stage = versions[w].stage
    BY <1>3, <1>8 DEF CatalogTypeOK
  <2>2. \A w \in Versions : versions[w].stage # "absent" =>
          versions'[w].stage # "absent" /\ versions'[w].manifest = versions[w].manifest
    BY <1>5
  <2>. QED
    BY <1>3, <1>4, <1>5, <1>6, <2>1, <2>2, Released
<1>10. /\ rows' \in [Tools -> Rows]
       /\ rows'[Workflow].version = rows[Workflow].version
       /\ rows'[Workflow].gated = rows[Workflow].gated
       /\ disables => rows'[Workflow].status = "disabled"
       /\ \A t \in Tools \ {Workflow} : rows'[t] = rows[t]
  BY <1>3 DEF CatalogTypeOK, Rows, Tools
<1>11. hand' \in [Tools -> {"none", "on", "off"}]
  BY <1>3 DEF CatalogTypeOK
<1>12. CatalogTypeOK'
  <2>1. versions' \in [Versions -> VersionRows]
    BY <1>3, <1>4 DEF CatalogTypeOK, VersionRows
  <2>. QED
    BY <1>3, <1>9, <1>10, <1>11, <2>1 DEF CatalogTypeOK
<1>13. RowFollowsVersion'
  <2>1. \A w \in ActiveVersions' : w \in ActiveVersions /\ versions'[w] = versions[w]
    BY <1>5, <1>6 DEF ActiveVersions
  <2>2. foreign' = foreign
    BY <1>3
  <2>. QED
    BY <1>10, <2>1, <2>2 DEF RowFollowsVersion
<1>14. RetiredNotOffered'
  <2>. SUFFICES ASSUME NEW w \in Versions, versions'[w].stage = "retired",
                       rows'[Workflow].version = w, rows'[Workflow].status = "active"
                PROVE  hand'[Workflow] = "on"
    BY DEF RetiredNotOffered
  <2>1. ~disables
    BY <1>10
  <2>2. CASE w = v
    <3>1. versions[v].stage # "active"
      BY <1>2, <1>4, <1>10, <2>1, <2>2
    <3>2. versions[v].stage \in {"absent", "active", "retired"}
      BY <1>4 DEF CatalogTypeOK, VersionRows
    <3>. QED
      BY <1>3, <1>4, <1>10, <2>1, <2>2, <3>1, <3>2 DEF RetiredNotOffered
  <2>3. CASE w # v
    BY <1>3, <1>5, <2>1, <2>3 DEF RetiredNotOffered
  <2>. QED
    BY <2>2, <2>3
<1>15. OffStaysOff'
  BY <1>3, <1>10 DEF OffStaysOff, CatalogTypeOK, Tools
<1>. QED
  BY <1>9, <1>12, <1>13, <1>14, <1>15

LEMMA DiscoveredInv ==
  ASSUME CatalogInv, NEW a \in Admins, Discovered(a)
  PROVE  CatalogInv' /\ VersionsKept
<1>. USE DEF CatalogInv
<1>1. txn[a].listed \subseteq McpTools /\ Workflow \notin McpTools
  BY CatalogAssumption DEF CatalogTypeOK, Txns
<1>2. /\ txn' \in [Admins -> Txns]
      /\ VersionKnown' /\ OnePublisher' /\ HeldApart'
      /\ ManifestStands' /\ StageStands' /\ PublishNeverClashes' /\ VersionsKept
  <2>1. txn' = [txn EXCEPT ![a] = NoTxn] /\ versions' = versions
    BY DEF Discovered
  <2>. QED
    BY <2>1, Released DEF ActiveVersions
<1>3. rows'[Workflow] = rows[Workflow] /\ hand'[Workflow] = hand[Workflow]
  BY <1>1 DEF Discovered, Tools
<1>4. rows' \in [Tools -> Rows] /\ hand' \in [Tools -> {"none", "on", "off"}]
  BY DEF Discovered, StatusAfterDiscovery, CatalogTypeOK, Rows
<1>5. CatalogTypeOK'
  BY <1>2, <1>4 DEF Discovered, CatalogTypeOK
<1>6. RowFollowsVersion' /\ RetiredNotOffered'
  BY <1>3 DEF RowFollowsVersion, RetiredNotOffered, ActiveVersions, Discovered
<1>7. OffStaysOff'
  BY DEF OffStaysOff, Discovered, StatusAfterDiscovery, CatalogTypeOK, Rows
<1>. QED
  BY <1>2, <1>5, <1>6, <1>7

----------------------------------------------------------------------------
(* A request of one statement leaves the transactions and versions alone.  *)
LEMMA OfOneStatement ==
  ASSUME CatalogInv, UNCHANGED <<txn, versions>>
  PROVE  /\ txn' \in [Admins -> Txns] /\ versions' \in [Versions -> VersionRows]
         /\ VersionKnown' /\ OnePublisher' /\ HeldApart'
         /\ ManifestStands' /\ StageStands' /\ PublishNeverClashes' /\ VersionsKept
BY DEF CatalogInv, CatalogTypeOK, VersionKnown, OnePublisher, Publishing, HeldApart, Holds,
       ManifestStands, Changed, StageStands, PublishNeverClashes, Clash, ActiveVersions,
       VersionsKept

LEMMA SetToolStatusInv ==
  ASSUME CatalogInv, NEW t \in Tools, NEW s \in {"active", "disabled"}, SetToolStatus(t, s)
  PROVE  CatalogInv' /\ VersionsKept
<1>. USE DEF CatalogInv
<1>1. /\ rows' = [rows EXCEPT ![t].status = s]
      /\ hand' = [hand EXCEPT ![t] = IF s = "active" THEN "on" ELSE "off"]
      /\ UNCHANGED <<connected, versions, txn>>
  BY DEF SetToolStatus
<1>2. /\ rows' \in [Tools -> Rows] /\ hand' \in [Tools -> {"none", "on", "off"}]
      /\ rows'[t].status = s /\ rows'[t].version = rows[t].version
      /\ rows'[t].gated = rows[t].gated
      /\ hand'[t] = IF s = "active" THEN "on" ELSE "off"
      /\ \A u \in Tools \ {t} : rows'[u] = rows[u] /\ hand'[u] = hand[u]
  BY <1>1 DEF CatalogTypeOK, Rows
<1>3. CatalogTypeOK'
  BY <1>1, <1>2, CountedInRange, OfOneStatement DEF CatalogTypeOK, SetToolStatus
<1>4. RowFollowsVersion'
  <2>1. /\ rows'[Workflow].version = rows[Workflow].version
        /\ rows'[Workflow].gated = rows[Workflow].gated
    BY <1>2 DEF Tools
  <2>2. foreign' = foreign /\ versions' = versions
    BY DEF SetToolStatus
  <2>. QED
    BY <2>1, <2>2 DEF RowFollowsVersion, ActiveVersions
<1>5. RetiredNotOffered'
  BY <1>1, <1>2 DEF RetiredNotOffered, Tools
<1>6. OffStaysOff'
  BY <1>2 DEF OffStaysOff
<1>. QED
  BY <1>1, <1>3, <1>4, <1>5, <1>6, OfOneStatement

LEMMA SetToolInv ==
  ASSUME CatalogInv, NEW t \in Tools, NEW s \in {"active", "disabled"},
         NEW g \in BOOLEAN, NEW v \in Versions \cup {NoVersion}, SetTool(t, s, g, v)
  PROVE  CatalogInv' /\ VersionsKept
<1>. USE DEF CatalogInv
<1>1. /\ rows' = [rows EXCEPT ![t] = [status |-> s, gated |-> g, version |-> v]]
      /\ hand' = [hand EXCEPT ![t] = IF s = "active" THEN "on" ELSE "off"]
      /\ foreign' = (foreign \/ t = Workflow)
      /\ UNCHANGED <<connected, versions, txn>>
  BY DEF SetTool
<1>2. /\ rows' \in [Tools -> Rows] /\ hand' \in [Tools -> {"none", "on", "off"}]
      /\ rows'[t].status = s
      /\ hand'[t] = IF s = "active" THEN "on" ELSE "off"
      /\ \A u \in Tools \ {t} : rows'[u] = rows[u] /\ hand'[u] = hand[u]
  BY <1>1 DEF CatalogTypeOK, Rows
<1>3. foreign' \in BOOLEAN
  BY <1>1
<1>4. CatalogTypeOK'
  BY <1>1, <1>2, <1>3, CountedInRange, OfOneStatement DEF CatalogTypeOK, SetTool
<1>5. RowFollowsVersion'
  <2>1. CASE t = Workflow
    <3>1. foreign'
      BY <1>1, <2>1
    <3>. QED
      BY <3>1 DEF RowFollowsVersion
  <2>2. CASE t # Workflow
    <3>1. rows'[Workflow] = rows[Workflow] /\ (foreign' => foreign) /\ (foreign => foreign')
      BY <1>1, <1>2, <2>2 DEF Tools
    <3>. QED
      BY <1>1, <3>1 DEF RowFollowsVersion, ActiveVersions
  <2>. QED
    BY <2>1, <2>2
<1>6. RetiredNotOffered'
  BY <1>1, <1>2 DEF RetiredNotOffered, Tools
<1>7. OffStaysOff'
  BY <1>2 DEF OffStaysOff
<1>. QED
  BY <1>1, <1>4, <1>5, <1>6, <1>7, OfOneStatement

LEMMA SetConnectionInv ==
  ASSUME CatalogInv, NEW c \in BOOLEAN, SetConnection(c)
  PROVE  CatalogInv' /\ VersionsKept
<1>. USE DEF CatalogInv
<1>1. UNCHANGED <<rows, versions, txn, hand, foreign>> /\ connected' = c
  BY DEF SetConnection
<1>2. CatalogTypeOK'
  BY <1>1, CountedInRange DEF CatalogTypeOK, SetConnection
<1>3. RowFollowsVersion' /\ RetiredNotOffered' /\ OffStaysOff'
  BY <1>1 DEF RowFollowsVersion, RetiredNotOffered, OffStaysOff, ActiveVersions
<1>. QED
  BY <1>1, <1>2, <1>3, OfOneStatement

----------------------------------------------------------------------------
LEMMA InitInv == CatalogInit => CatalogInv
<1>. SUFFICES ASSUME CatalogInit PROVE CatalogInv
  OBVIOUS
<1>1. CatalogTypeOK
  <2>1. rows \in [Tools -> Rows] /\ connected \in BOOLEAN
    BY DEF CatalogInit
  <2>2. versions \in [Versions -> VersionRows]
    BY DEF CatalogInit, VersionRows, Draft, Manifests
  <2>3. txn \in [Admins -> Txns]
    BY NoTxnIsATxn DEF CatalogInit
  <2>4. changes \in 0..MaxChanges /\ hand \in [Tools -> {"none", "on", "off"}]
    BY CatalogAssumption DEF CatalogInit
  <2>5. foreign \in BOOLEAN
    BY DEF CatalogInit
  <2>. QED
    BY <2>1, <2>2, <2>3, <2>4, <2>5 DEF CatalogTypeOK
<1>2. \A a \in Admins : txn[a].pc = "idle"
  BY NoTxnIsATxn DEF CatalogInit
<1>3. /\ VersionKnown /\ OnePublisher /\ HeldApart /\ ManifestStands /\ StageStands
      /\ PublishNeverClashes
  BY <1>2 DEF VersionKnown, OnePublisher, Publishing, HeldApart, Holds, ManifestStands,
              StageStands, PublishNeverClashes
<1>4. RowFollowsVersion
  <2>1. PICK first \in Versions, registered \in BOOLEAN :
          /\ rows[Workflow].gated = FALSE
          /\ rows[Workflow].version = IF registered THEN first ELSE NoVersion
          /\ versions = [v \in Versions |->
               [stage |-> IF registered /\ v = first THEN "active" ELSE "absent",
                manifest |-> Draft]]
    BY DEF CatalogInit
  <2>2. ActiveVersions = IF registered THEN {first} ELSE {}
    BY <2>1 DEF ActiveVersions
  <2>. QED
    BY <2>1, <2>2 DEF RowFollowsVersion, Draft
<1>5. RetiredNotOffered
  BY DEF RetiredNotOffered, CatalogInit
<1>6. OffStaysOff
  BY DEF OffStaysOff, CatalogInit
<1>. QED
  BY <1>1, <1>3, <1>4, <1>5, <1>6 DEF CatalogInv

LEMMA NextInv ==
  ASSUME CatalogInv, [CatalogNext]_catalogVars
  PROVE  CatalogInv' /\ VersionsKept
<1>1. CASE UNCHANGED catalogVars
  <2>1. UNCHANGED <<rows, connected, versions, txn, changes, hand, foreign>>
    BY <1>1 DEF catalogVars
  <2>2. CatalogTypeOK' /\ RowFollowsVersion' /\ RetiredNotOffered' /\ OffStaysOff'
    BY <2>1 DEF CatalogInv, CatalogTypeOK, RowFollowsVersion, RetiredNotOffered, OffStaysOff,
                ActiveVersions
  <2>. QED
    BY <2>1, <2>2, OfOneStatement DEF CatalogInv
<1>2. CASE \E a \in Admins, v \in Versions, m \in Manifests : Publish(a, v, m)
  BY <1>2, PublishInv
<1>3. CASE \E a \in Admins : Lock(a) \/ RetireOthers(a) \/ Write(a)
  BY <1>3, LockInv, RetireOthersInv, WriteInv
<1>4. CASE \E a \in Admins, v \in Versions : Retire(a, v)
  BY <1>4, RetireInv
<1>5. CASE \E a \in Admins : Drop(a)
  BY <1>5, DropInv
<1>6. CASE \E a \in Admins, o, w \in SUBSET McpTools : Discover(a, o, w)
  BY <1>6, DiscoverInv
<1>7. CASE \E a \in Admins : Discovered(a) \/ Abort(a)
  BY <1>7, DiscoveredInv, AbortInv
<1>8. CASE \E t \in Tools, s \in {"active", "disabled"} : SetToolStatus(t, s)
  BY <1>8, SetToolStatusInv
<1>9. CASE \E t \in Tools, s \in {"active", "disabled"}, g \in BOOLEAN,
               v \in Versions \cup {NoVersion} : SetTool(t, s, g, v)
  BY <1>9, SetToolInv
<1>10. CASE \E c \in BOOLEAN : SetConnection(c)
  BY <1>10, SetConnectionInv
<1>. QED
  BY <1>1, <1>2, <1>3, <1>4, <1>5, <1>6, <1>7, <1>8, <1>9, <1>10 DEF CatalogNext

(* The invariant of the catalog.                                           *)
THEOREM CatalogInvariant == CatalogSpec => []CatalogInv
<1>1. CatalogInv /\ [CatalogNext]_catalogVars => CatalogInv'
  BY NextInv
<1>. QED
  BY InitInv, <1>1, PTL DEF CatalogSpec

(* Each row of tools and workflow_versions and each open transaction of    *)
(* publish_workflow_version, retire_workflow_version and discovery has its *)
(* shape.                                                                  *)
THEOREM CatalogTyped == CatalogSpec => []CatalogTypeOK
<1>1. CatalogInv => CatalogTypeOK
  BY DEF CatalogInv
<1>. QED
  BY CatalogInvariant, <1>1, PTL

(* publish_workflow_version never meets another active version: the        *)
(* advisory lock and the UPDATE leave the unique index nothing to refuse.  *)
THEOREM PublicationsNeverClash == CatalogSpec => []PublishNeverClashes
<1>1. CatalogInv => PublishNeverClashes
  BY DEF CatalogInv
<1>. QED
  BY CatalogInvariant, <1>1, PTL

(* The row that publish_workflow_version writes in tools is the active     *)
(* version's, whatever is retired or registered beside it.                 *)
THEOREM RowIsActiveVersion == CatalogSpec => []RowFollowsVersion
<1>1. CatalogInv => RowFollowsVersion
  BY DEF CatalogInv
<1>. QED
  BY CatalogInvariant, <1>1, PTL

(* retire_workflow_version takes its tool out of use, also when it races a *)
(* publication of the same workflow.                                       *)
THEOREM RetiredIsNotOffered == CatalogSpec => []RetiredNotOffered
<1>1. CatalogInv => RetiredNotOffered
  BY DEF CatalogInv
<1>. QED
  BY CatalogInvariant, <1>1, PTL

(* replace_discovered_mcp_tools keeps what an administrator disabled.      *)
THEOREM OffIsKept == CatalogSpec => []OffStaysOff
<1>1. CatalogInv => OffStaysOff
  BY DEF CatalogInv
<1>. QED
  BY CatalogInvariant, <1>1, PTL

(* No step of the catalog changes or removes a published version.          *)
THEOREM VersionsNeverChange == CatalogSpec => VersionsAreImmutable
<1>1. CatalogInv /\ [CatalogNext]_catalogVars => [VersionsKept]_catalogVars
  BY NextInv
<1>2. CatalogSpec => [][VersionsKept]_catalogVars
  BY CatalogInvariant, <1>1, PTL DEF CatalogSpec
<1>. QED
  BY <1>2 DEF VersionsAreImmutable, VersionsKept

----------------------------------------------------------------------------
(* The requests                                                            *)

DraftPcs == {"draftSnapshot", "draftUser", "draftRoles", "draftActive", "draftManifests"}
AdmitPcs == {"admitRelease", "admitAgent", "admitUser", "admitTools"}
AfterGrants == {"user", "running"}
AfterPolicies == {"connections", "grants"} \cup AfterGrants
AfterActive == {"policies"} \cup AfterPolicies
AfterRelease == {"active"} \cup AfterActive
AfterDraftActive == {"draftManifests", "running"}

(* A request x for a release with the configuration c, under the sight s.  *)
ReleaseCovered(x, s, c) ==
  /\ x.pc \notin DraftPcs
  /\ x.path = "platform" /\ x.pc \notin {"admitRelease", "admitAgent"} => s.enabled
  /\ x.pc \in AfterRelease => /\ x.published => s.published
                              /\ x.tools \subseteq c.tools
  /\ x.pc \in AfterActive => x.tools \subseteq s.live
  /\ x.pc \in AfterPolicies => x.tools \ x.gated \subseteq s.lenient
  /\ x.pc \in AfterGrants => /\ x.tools \subseteq s.granted
                             /\ c.granted # {} => x.tools \subseteq c.granted
  /\ x.pc = "running" => x.published

(* A request for the draft.                                                *)
DraftCovered(x, s) ==
  /\ x.pc \in DraftPcs \cup {"running"}
  /\ x.pc \in {"draftActive"} \cup AfterDraftActive => x.tools \subseteq s.granted
  /\ x.pc \in AfterDraftActive => x.tools \subseteq s.live
  /\ x.pc = "running" => x.tools \ x.gated \subseteq s.lenient

Covered(x, s, n, c) ==
  x.pc # "idle" =>
    IF x.path = "draft" THEN DraftCovered(x, s)
    ELSE n \in Numbers /\ ReleaseCovered(x, s, c)

AccessInv ==
  /\ TypeOK
  /\ CatalogInv
  /\ \A r \in Requests :
       /\ Covered(run[r], seen[r], run[r].release, Config(r))
       /\ run[r].pc # "idle" /\ run[r].path # "draft" => run[r].release \in Published

(* The types of all but the requests to run.                               *)
StoreOK ==
  /\ CatalogTypeOK
  /\ draft \subseteq Tools
  /\ enabled \in BOOLEAN
  /\ snapshot \subseteq Tools
  /\ role \in Role
  /\ user \in User
  /\ edit \in Edits
  /\ releases \in [Numbers -> Releases]
  /\ publication \in [Managers -> Publications]
  /\ cache \subseteq Numbers

(* What ReleasesAreImmutable asks of a step.                               *)
ReleasesKept ==
  \A n \in Published :
    /\ releases'[n].config = releases[n].config
    /\ releases[n].status = "revoked" => releases'[n].status = "revoked"

(* t has seen all that s has.                                              *)
Sees(s, t) ==
  /\ s.published => t.published
  /\ s.enabled => t.enabled
  /\ s.active => t.active
  /\ s.live \subseteq t.live /\ s.granted \subseteq t.granted
  /\ s.lenient \subseteq t.lenient

-----------------------------------------------------------------------------
LEMMA Monotone ==
  ASSUME NEW x, NEW s, NEW t, NEW n, NEW c, Covered(x, s, n, c), Sees(s, t)
  PROVE  Covered(x, t, n, c)
BY DEF Covered, DraftCovered, ReleaseCovered, Sees

LEMMA AlsoSees ==
  ASSUME NEW s \in Sights, NEW now \in Sights
  PROVE  Also(s, now) \in Sights /\ Sees(s, Also(s, now)) /\ Sees(now, Also(s, now))
BY DEF Also, Sights, Sees

LEMMA GrantsAreTools ==
  ASSUME role \in Role
  PROVE  grants \in SUBSET Tools
BY DEF grants, Role

LEMMA SightType ==
  ASSUME StoreOK', NEW r \in Requests
  PROVE  Sight(r)' \in Sights
<1>1. grants' \in SUBSET Tools /\ user.active' \in BOOLEAN /\ enabled' \in BOOLEAN
  BY DEF StoreOK, User, Role, grants
<1>2. (run[r].path # "draft" /\ releases[run[r].release].status = "published")' \in BOOLEAN
  OBVIOUS
<1>3. /\ {t \in Tools : Live(t)}' \in SUBSET Tools
      /\ {t \in Tools : rows[t].status # "active" \/ ~rows[t].gated}' \in SUBSET Tools
  OBVIOUS
<1>. QED
  BY <1>1, <1>2, <1>3 DEF Sight, Sights

LEMMA RecordTypes ==
  /\ NoRun \in Runs /\ NoRun.pc = "idle" /\ Blind \in Sights
  /\ NoPublication \in Publications /\ NoConfig \in Configs
BY DEF NoRun, Runs, Pcs, Paths, Blind, Sights, NoPublication, Publications, NoConfig,
       Configs, NoRelease

(* Steps that leave the catalog alone, but for the count of requests.      *)
LEMMA CatalogKept ==
  ASSUME CatalogInv, UNCHANGED <<rows, connected, versions, txn, hand, foreign>>,
         Counted \/ UNCHANGED changes
  PROVE  CatalogInv'
<1>1. changes' \in 0..MaxChanges
  BY CountedInRange DEF CatalogInv
<1>2. CatalogTypeOK'
  BY <1>1 DEF CatalogInv, CatalogTypeOK
<1>. QED
  BY <1>2
  DEF CatalogInv, VersionKnown, OnePublisher, Publishing, HeldApart, Holds, ManifestStands,
      Changed, StageStands, PublishNeverClashes, Clash, ActiveVersions, RowFollowsVersion,
      RetiredNotOffered, OffStaysOff

LEMMA WatchType ==
  ASSUME TypeOK, StoreOK', Watch
  PROVE  /\ seen' \in [Requests -> Sights]
         /\ \A r \in Requests : run'[r].pc # "idle" =>
              Sees(seen[r], seen'[r]) /\ Sees(Sight(r)', seen'[r])
<1>1. ASSUME NEW r \in Requests
      PROVE  /\ seen'[r] \in Sights
             /\ run'[r].pc # "idle" => Sees(seen[r], seen'[r]) /\ Sees(Sight(r)', seen'[r])
  <2>1. seen[r] \in Sights /\ Sight(r)' \in Sights /\ Blind \in Sights
    BY SightType, RecordTypes DEF TypeOK
  <2>2. seen'[r] = IF run'[r].pc = "idle" THEN Blind ELSE Also(seen[r], Sight(r)')
    BY DEF Watch
  <2>. QED
    BY <2>1, <2>2, AlsoSees
<1>2. seen' = [r \in Requests |-> seen'[r]]
  BY DEF Watch
<1>. QED
  BY <1>1, <1>2

(* The control plane changes something while requests are on their way.    *)
LEMMA ControlStep ==
  ASSUME AccessInv, StoreOK', CatalogInv', ReleasesKept, Published \subseteq Published',
         UNCHANGED run, Watch
  PROVE  AccessInv'
<1>1. TypeOK'
  BY WatchType DEF AccessInv, TypeOK, StoreOK
<1>2. ASSUME NEW r \in Requests, run[r].pc # "idle"
      PROVE  /\ Covered(run[r], seen'[r], run[r].release, Config(r)')
             /\ run[r].path # "draft" => run[r].release \in Published'
  <2>1. Covered(run[r], seen'[r], run[r].release, Config(r))
    BY <1>2, WatchType, Monotone DEF AccessInv
  <2>2. run[r].path # "draft" => Config(r)' = Config(r)
    BY <1>2 DEF AccessInv, ReleasesKept, Config
  <2>3. run[r].path = "draft" => Covered(run[r], seen'[r], run[r].release, Config(r)')
    BY <2>1 DEF Covered
  <2>. QED
    BY <1>2, <2>1, <2>2, <2>3 DEF AccessInv
<1>3. \A r \in Requests : run[r].pc = "idle" =>
        Covered(run[r], seen'[r], run[r].release, Config(r)')
  BY DEF Covered
<1>. QED
  BY <1>1, <1>2, <1>3 DEF AccessInv

(* What a request sees as it becomes x.                                    *)
Now(x) ==
  [published |-> x.path # "draft" /\ releases[x.release].status = "published",
   enabled |-> enabled, active |-> user.active,
   live |-> {t \in Tools : Live(t)}, granted |-> grants,
   lenient |-> {t \in Tools : rows[t].status # "active" \/ ~rows[t].gated}]

Same == UNCHANGED <<catalogVars, draft, snapshot, accountVars, releases, publication>>

LEMMA RunStep ==
  ASSUME AccessInv, NEW r \in Requests, NEW x \in Runs,
         run' = [run EXCEPT ![r] = x], Same, cache' \subseteq Numbers, Watch,
         x.pc # "idle" =>
           \A s \in Sights : Sees(seen[r], s) /\ Sees(Now(x), s) =>
             Covered(x, s, x.release, releases[x.release].config),
         x.pc # "idle" /\ x.path # "draft" => x.release \in Published
  PROVE  AccessInv' /\ ReleasesKept
<1>0. UNCHANGED <<rows, connected, versions, txn, changes, hand, foreign,
                  draft, snapshot, enabled, role, user, edit, releases, publication>>
  BY DEF Same, catalogVars, accountVars
<1>1. StoreOK'
  BY <1>0 DEF AccessInv, TypeOK, StoreOK, CatalogTypeOK
<1>2. CatalogInv'
  BY <1>0, CatalogKept DEF AccessInv
<1>3. /\ run' \in [Requests -> Runs] /\ run'[r] = x
      /\ \A q \in Requests : q # r => run'[q] = run[q]
  BY DEF AccessInv, TypeOK
<1>4. TypeOK' /\ seen' \in [Requests -> Sights]
  BY <1>1, <1>3, WatchType DEF AccessInv, TypeOK, StoreOK
<1>5. Published' = Published
  BY <1>0 DEF Published
<1>6. \A q \in Requests : Config(q)' = releases[run'[q].release].config
  BY <1>0 DEF Config
<1>7. ASSUME x.pc # "idle"
      PROVE  Covered(x, seen'[r], x.release, releases[x.release].config)
  <2>1. Sight(r)' = Now(x)
    BY <1>0, <1>3 DEF Sight, Now, Live, grants
  <2>2. Sees(seen[r], seen'[r]) /\ Sees(Now(x), seen'[r]) /\ seen'[r] \in Sights
    BY <1>1, <1>3, <1>4, <1>7, <2>1, WatchType DEF AccessInv
  <2>. QED
    BY <1>7, <2>2
<1>8. ASSUME NEW q \in Requests, q # r, run[q].pc # "idle"
      PROVE  Covered(run[q], seen'[q], run[q].release, Config(q))
  <2>1. Sees(seen[q], seen'[q])
    BY <1>1, <1>3, <1>8, WatchType DEF AccessInv
  <2>. QED
    BY <1>8, <2>1, Monotone DEF AccessInv
<1>9. ASSUME NEW q \in Requests
      PROVE  /\ Covered(run'[q], seen'[q], run'[q].release, Config(q)')
             /\ run'[q].pc # "idle" /\ run'[q].path # "draft" => run'[q].release \in Published'
  <2>1. CASE q = r /\ x.pc # "idle"
    BY <1>3, <1>5, <1>6, <1>7, <2>1
  <2>2. CASE q = r /\ x.pc = "idle"
    BY <1>3, <2>2 DEF Covered
  <2>3. CASE q # r /\ run[q].pc # "idle"
    BY <1>3, <1>5, <1>6, <1>8, <2>3 DEF AccessInv, Config
  <2>4. CASE q # r /\ run[q].pc = "idle"
    BY <1>3, <2>4 DEF Covered
  <2>. QED
    BY <2>1, <2>2, <2>3, <2>4
<1>10. ReleasesKept
  BY <1>0 DEF ReleasesKept
<1>. QED
  BY <1>2, <1>4, <1>9, <1>10 DEF AccessInv

LEMMA Known ==
  ASSUME AccessInv, NEW r \in Requests
  PROVE  /\ run[r] \in Runs /\ seen[r] \in Sights
         /\ \A s \in Sights : Sees(seen[r], s) =>
              Covered(run[r], s, run[r].release, Config(r))
         /\ run[r].pc # "idle" /\ run[r].path # "draft" =>
              run[r].release \in Published /\ Config(r) \in Configs
<1>1. run[r] \in Runs /\ seen[r] \in Sights
  BY DEF AccessInv, TypeOK
<1>2. ASSUME NEW s \in Sights, Sees(seen[r], s)
      PROVE  Covered(run[r], s, run[r].release, Config(r))
  BY <1>2, Monotone DEF AccessInv
<1>3. run[r].release \in Published => Config(r) \in Configs
  BY DEF AccessInv, TypeOK, Published, Config, Releases
<1>. QED
  BY <1>1, <1>2, <1>3 DEF AccessInv

Still == Same /\ UNCHANGED cache /\ Watch

LEMMA StillCache == ASSUME AccessInv, Still PROVE cache' \subseteq Numbers
BY DEF AccessInv, TypeOK, Still

LEMMA EndStep ==
  ASSUME AccessInv, NEW r \in Requests, End(r), Still
  PROVE  AccessInv' /\ ReleasesKept
BY RecordTypes, StillCache, RunStep DEF End, Still

(* A request that only goes on to its next place.                          *)
LEMMA GotoStep ==
  ASSUME AccessInv, NEW r \in Requests, NEW pc \in Pcs, Goto(r, pc), Still,
         run[r].pc # "idle",
         \A s \in Sights : Sees(seen[r], s) /\ Sees(Now(run[r]), s) =>
           Covered([run[r] EXCEPT !.pc = pc], s, run[r].release, Config(r))
  PROVE  AccessInv' /\ ReleasesKept
<1>1. PICK x : x = [run[r] EXCEPT !.pc = pc]
  OBVIOUS
<1>2. /\ x \in Runs /\ x.release = run[r].release /\ x.path = run[r].path
  BY <1>1, Known DEF Runs
<1>3. run' = [run EXCEPT ![r] = x] /\ cache' \subseteq Numbers
  BY <1>1, StillCache DEF Goto
<1>4. Now(x) = Now(run[r]) /\ releases[x.release].config = Config(r)
  BY <1>2 DEF Now, Config
<1>5. x.path # "draft" => x.release \in Published
  BY <1>2, Known
<1>. QED
  BY <1>1, <1>2, <1>3, <1>4, <1>5, RunStep DEF Still

LEMMA ArriveStep ==
  ASSUME AccessInv, NEW r \in Requests, NEW n \in Numbers, NEW path \in Paths,
         Arrive(r, n, path), Still
  PROVE  AccessInv' /\ ReleasesKept
<1>1. PICK x : x = [NoRun EXCEPT !.pc = IF path = "platform" THEN "admitRelease" ELSE "release",
                                 !.path = path, !.release = n]
  OBVIOUS
<1>2. /\ x \in Runs /\ x.path = path /\ x.release = n /\ path # "draft"
      /\ x.pc = (IF path = "platform" THEN "admitRelease" ELSE "release")
  BY <1>1 DEF NoRun, Runs, Pcs, Paths, Arrive
<1>3. run' = [run EXCEPT ![r] = x] /\ cache' \subseteq Numbers /\ n \in Published
  BY <1>1, StillCache DEF Arrive
<1>4. ASSUME NEW s PROVE Covered(x, s, x.release, releases[x.release].config)
  BY <1>2 DEF Covered, ReleaseCovered, DraftPcs, AfterRelease, AfterActive, AfterPolicies,
             AfterGrants, Paths
<1>. QED
  BY <1>2, <1>3, <1>4, RunStep DEF Still

LEMMA AdmitStep ==
  ASSUME AccessInv, NEW r \in Requests, Still,
         AdmitRelease(r) \/ AdmitAgent(r) \/ AdmitUser(r) \/ AdmitTools(r)
  PROVE  AccessInv' /\ ReleasesKept
<1>1. CASE End(r)
  BY <1>1, EndStep
<1>2. ASSUME NEW pc \in {"admitAgent", "admitUser", "admitTools", "release"},
             Goto(r, pc), run[r].pc \in AdmitPcs,
             pc \in {"admitUser", "admitTools", "release"} => enabled \/ run[r].pc \in {"admitUser", "admitTools"}
      PROVE  AccessInv' /\ ReleasesKept
  <2>1. pc \in Pcs /\ run[r].pc # "idle"
    BY <1>2 DEF Pcs, AdmitPcs
  <2>2. ASSUME NEW s \in Sights, Sees(seen[r], s), Sees(Now(run[r]), s)
        PROVE  Covered([run[r] EXCEPT !.pc = pc], s, run[r].release, Config(r))
    <3>1. Covered(run[r], s, run[r].release, Config(r)) /\ run[r] \in Runs
      BY <2>2, Known
    <3>2. enabled => s.enabled
      BY <2>2 DEF Sees, Now
    <3>. QED
      BY <1>2, <3>1, <3>2
      DEF Covered, ReleaseCovered, DraftCovered, DraftPcs, AdmitPcs, AfterRelease,
          AfterActive, AfterPolicies, AfterGrants, Runs
  <2>. QED
    BY <1>2, <2>1, <2>2, GotoStep
<1>. QED
  BY <1>1, <1>2 DEF AdmitRelease, AdmitAgent, AgentAdmits, AdmitUser, AdmitTools, Proceed, AdmitPcs

(* A query of a request: what it writes into its record, and why that is   *)
(* covered.                                                                *)
LEMMA QueryStep ==
  ASSUME AccessInv, NEW r \in Requests, NEW x \in Runs,
         run' = [run EXCEPT ![r] = x], Same, Watch, cache' \subseteq Numbers,
         run[r].pc # "idle", x.path = run[r].path, x.release = run[r].release,
         \A s \in Sights :
           Covered(run[r], s, run[r].release, Config(r)) /\ Sees(Now(x), s) =>
             Covered(x, s, run[r].release, Config(r))
  PROVE  AccessInv' /\ ReleasesKept
<1>1. \A s \in Sights : Sees(seen[r], s) /\ Sees(Now(x), s) =>
        Covered(x, s, x.release, releases[x.release].config)
  BY Known DEF Config
<1>2. x.path # "draft" => x.release \in Published
  BY Known
<1>. QED
  BY <1>1, <1>2, RunStep

LEMMA ReadReleaseStep ==
  ASSUME AccessInv, NEW r \in Requests, ReadRelease(r), Same, Watch
  PROVE  AccessInv' /\ ReleasesKept
<1>1. PICK b \in BOOLEAN : b = (StatusOf(run[r].release) = "published")
  OBVIOUS
<1>2. PICK x : x = [run[r] EXCEPT !.pc = "active", !.published = b, !.tools = Config(r).tools]
  OBVIOUS
<1>3. run[r] \in Runs /\ run[r].pc = "release"
  BY Known DEF ReadRelease
<1>4. run[r].path # "draft"
  BY <1>3, Known DEF AccessInv, Covered, DraftCovered, DraftPcs
<1>5. Config(r).tools \subseteq Tools /\ run[r].release \in Numbers
  BY <1>3, <1>4, Known DEF Configs, Published
<1>6. /\ x \in Runs /\ x.path = run[r].path /\ x.release = run[r].release
      /\ x.pc = "active" /\ x.published = b /\ x.tools = Config(r).tools
  BY <1>2, <1>3, <1>5 DEF Runs, Pcs
<1>7. run' = [run EXCEPT ![r] = x] /\ cache' \subseteq Numbers
  BY <1>1, <1>2, <1>5 DEF ReadRelease, AccessInv, TypeOK
<1>8. ASSUME NEW s \in Sights, Covered(run[r], s, run[r].release, Config(r)), Sees(Now(x), s)
      PROVE  Covered(x, s, run[r].release, Config(r))
  <2>1. b => s.published
    BY <1>1, <1>4, <1>6, <1>8 DEF Sees, Now, StatusOf
  <2>. QED
    BY <1>3, <1>4, <1>6, <1>8, <2>1
    DEF Covered, ReleaseCovered, DraftPcs, AfterRelease, AfterActive, AfterPolicies, AfterGrants
<1>. QED
  BY <1>3, <1>6, <1>7, <1>8, QueryStep

LEMMA ReadActiveStep ==
  ASSUME AccessInv, NEW r \in Requests, ReadActive(r), Still
  PROVE  AccessInv' /\ ReleasesKept
<1>1. PICK live : live = {t \in run[r].tools : Live(t)}
  OBVIOUS
<1>2. PICK x : x = [run[r] EXCEPT !.pc = "policies", !.tools = live]
  OBVIOUS
<1>3. run[r] \in Runs /\ run[r].pc = "active" /\ live \subseteq run[r].tools
      /\ live \subseteq Tools
  BY <1>1, Known DEF ReadActive, Runs
<1>4. /\ x \in Runs /\ x.path = run[r].path /\ x.release = run[r].release
      /\ x.published = run[r].published /\ x.pc = "policies" /\ x.tools = live
  BY <1>2, <1>3 DEF Runs, Pcs
<1>5. run' = [run EXCEPT ![r] = x] /\ cache' \subseteq Numbers
  BY <1>1, <1>2, StillCache DEF ReadActive, Still
<1>6. ASSUME NEW s \in Sights, Covered(run[r], s, run[r].release, Config(r)), Sees(Now(x), s)
      PROVE  Covered(x, s, run[r].release, Config(r))
  <2>1. live \subseteq s.live
    BY <1>1, <1>3, <1>6 DEF Sees, Now
  <2>. QED
    BY <1>3, <1>4, <1>6, <2>1
    DEF Covered, ReleaseCovered, DraftCovered, DraftPcs, AfterRelease, AfterActive, AfterPolicies, AfterGrants
<1>. QED
  BY <1>3, <1>4, <1>5, <1>6, QueryStep DEF Still

LEMMA ReadPoliciesStep ==
  ASSUME AccessInv, NEW r \in Requests, ReadPolicies(r), Still
  PROVE  AccessInv' /\ ReleasesKept
<1>1. PICK gated : gated = {t \in run[r].tools : PolicyOf(r, t)}
  OBVIOUS
<1>2. PICK x : x = [run[r] EXCEPT !.pc = "connections", !.gated = gated]
  OBVIOUS
<1>3. run[r] \in Runs /\ run[r].pc = "policies" /\ gated \subseteq Tools
      /\ run[r].tools \subseteq Tools
  BY <1>1, Known DEF ReadPolicies, Runs
<1>4. /\ x \in Runs /\ x.path = run[r].path /\ x.release = run[r].release
      /\ x.published = run[r].published /\ x.pc = "connections"
      /\ x.tools = run[r].tools /\ x.gated = gated
  BY <1>2, <1>3 DEF Runs, Pcs
<1>5. run' = [run EXCEPT ![r] = x] /\ cache' \subseteq Numbers
  BY <1>1, <1>2, StillCache DEF ReadPolicies, Still
<1>6. ASSUME NEW s \in Sights, Covered(run[r], s, run[r].release, Config(r)), Sees(Now(x), s)
      PROVE  Covered(x, s, run[r].release, Config(r))
  <2>1. \A t \in run[r].tools : ~PolicyOf(r, t) =>
          t \in {u \in Tools : rows[u].status # "active" \/ ~rows[u].gated}
    BY <1>3 DEF PolicyOf
  <2>2. run[r].tools \ gated \subseteq s.lenient
    BY <1>1, <1>6, <2>1 DEF Sees, Now
  <2>. QED
    BY <1>3, <1>4, <1>6, <2>2
    DEF Covered, ReleaseCovered, DraftCovered, DraftPcs, AfterRelease, AfterActive, AfterPolicies, AfterGrants
<1>. QED
  BY <1>3, <1>4, <1>5, <1>6, QueryStep DEF Still

LEMMA ReadConnectionsStep ==
  ASSUME AccessInv, NEW r \in Requests, ReadConnections(r), Still
  PROVE  AccessInv' /\ ReleasesKept
<1>1. PICK tools : tools = IF connected THEN run[r].tools ELSE {}
  OBVIOUS
<1>2. PICK x : x = [run[r] EXCEPT !.pc = "grants", !.tools = tools]
  OBVIOUS
<1>3. run[r] \in Runs /\ run[r].pc = "connections" /\ tools \subseteq Tools
      /\ tools \subseteq run[r].tools
  BY <1>1, Known DEF ReadConnections, Runs
<1>4. /\ x \in Runs /\ x.path = run[r].path /\ x.release = run[r].release
      /\ x.published = run[r].published /\ x.pc = "grants"
      /\ x.tools = tools /\ x.gated = run[r].gated
  BY <1>2, <1>3 DEF Runs, Pcs
<1>5. run' = [run EXCEPT ![r] = x] /\ cache' \subseteq Numbers
  BY <1>1, <1>2, StillCache DEF ReadConnections, Still
<1>6. ASSUME NEW s \in Sights, Covered(run[r], s, run[r].release, Config(r))
      PROVE  Covered(x, s, run[r].release, Config(r))
  BY <1>3, <1>4, <1>6
  DEF Covered, ReleaseCovered, DraftCovered, DraftPcs, AfterRelease, AfterActive, AfterPolicies, AfterGrants
<1>. QED
  BY <1>3, <1>4, <1>5, <1>6, QueryStep DEF Still

LEMMA ReadGrantsStep ==
  ASSUME AccessInv, NEW r \in Requests, ReadGrants(r), Still
  PROVE  AccessInv' /\ ReleasesKept
<1>1. PICK x : x = [run[r] EXCEPT !.pc = "user", !.tools = Effective(r),
                                  !.gated = @ \cap Effective(r)]
  OBVIOUS
<1>2. /\ Effective(r) \subseteq run[r].tools /\ Effective(r) \subseteq grants
      /\ Config(r).granted # {} => Effective(r) \subseteq Config(r).granted
  BY DEF Effective
<1>3. run[r] \in Runs /\ run[r].pc = "grants" /\ Effective(r) \subseteq Tools
  BY <1>2, Known DEF ReadGrants, Runs
<1>4. /\ x \in Runs /\ x.path = run[r].path /\ x.release = run[r].release
      /\ x.published = run[r].published /\ x.pc = "user"
      /\ x.tools = Effective(r) /\ x.gated = run[r].gated \cap Effective(r)
  BY <1>1, <1>3 DEF Runs, Pcs
<1>5. run' = [run EXCEPT ![r] = x] /\ cache' \subseteq Numbers
  BY <1>1, StillCache DEF ReadGrants, Still
<1>6. ASSUME NEW s \in Sights, Covered(run[r], s, run[r].release, Config(r)), Sees(Now(x), s)
      PROVE  Covered(x, s, run[r].release, Config(r))
  <2>1. Effective(r) \subseteq s.granted
    BY <1>2, <1>6 DEF Sees, Now
  <2>. QED
    BY <1>2, <1>3, <1>4, <1>6, <2>1
    DEF Covered, ReleaseCovered, DraftCovered, DraftPcs, AfterRelease, AfterActive, AfterPolicies, AfterGrants
<1>. QED
  BY <1>3, <1>4, <1>5, <1>6, QueryStep DEF Still

LEMMA ValidateStep ==
  ASSUME AccessInv, NEW r \in Requests, Validate(r), Still
  PROVE  AccessInv' /\ ReleasesKept
<1>1. CASE End(r)
  BY <1>1, EndStep
<1>2. CASE Goto(r, "running") /\ run[r].published
  <2>1. run[r].pc = "user" /\ run[r] \in Runs /\ "running" \in Pcs
    BY Known DEF Validate, Pcs
  <2>2. ASSUME NEW s \in Sights, Sees(seen[r], s)
        PROVE  Covered([run[r] EXCEPT !.pc = "running"], s, run[r].release, Config(r))
    <3>1. Covered(run[r], s, run[r].release, Config(r))
      BY <2>2, Known
    <3>. QED
      BY <1>2, <2>1, <3>1
      DEF Covered, ReleaseCovered, DraftCovered, DraftPcs, AfterRelease, AfterActive,
          AfterPolicies, AfterGrants, Runs
  <2>. QED
    BY <1>2, <2>1, <2>2, GotoStep
<1>. QED
  BY <1>1, <1>2 DEF Validate, Proceed

LEMMA LoadAgentStep ==
  ASSUME AccessInv, NEW r \in Requests, LoadAgent(r), Still
  PROVE  AccessInv' /\ ReleasesKept
<1>1. PICK x : x = [NoRun EXCEPT !.pc = "draftSnapshot", !.path = "draft", !.tools = draft]
  OBVIOUS
<1>2. /\ x \in Runs /\ x.path = "draft" /\ x.pc = "draftSnapshot"
  BY <1>1 DEF NoRun, Runs, Pcs, Paths, AccessInv, TypeOK, NoRelease
<1>3. run' = [run EXCEPT ![r] = x] /\ cache' \subseteq Numbers
  BY <1>1, StillCache DEF LoadAgent
<1>4. ASSUME NEW s PROVE Covered(x, s, x.release, releases[x.release].config)
  BY <1>2 DEF Covered, DraftCovered, DraftPcs, AfterDraftActive
<1>. QED
  BY <1>2, <1>3, <1>4, RunStep DEF Still

(* The queries of a request for the draft that narrow its tools.           *)
LEMMA DraftToolsStep ==
  ASSUME AccessInv, NEW r \in Requests, NEW tools, NEW gated, NEW pc \in Pcs,
         run' = [run EXCEPT ![r] = [run[r] EXCEPT !.pc = pc, !.tools = tools, !.gated = gated]],
         Still, run[r].pc \in DraftPcs, tools \subseteq run[r].tools, gated \subseteq Tools,
         \/ pc = "draftUser"
         \/ pc = "draftActive" /\ tools \subseteq grants
         \/ pc = "draftManifests" /\ run[r].pc = "draftActive"
            /\ tools \subseteq {t \in Tools : Live(t)}
         \/ pc = "running" /\ run[r].pc = "draftManifests"
            /\ tools \ gated \subseteq {t \in Tools : rows[t].status # "active" \/ ~rows[t].gated}
  PROVE  AccessInv' /\ ReleasesKept
<1>1. PICK x : x = [run[r] EXCEPT !.pc = pc, !.tools = tools, !.gated = gated]
  OBVIOUS
<1>2. run[r] \in Runs /\ run[r].tools \subseteq Tools
  BY Known DEF Runs
<1>3. /\ x \in Runs /\ x.path = run[r].path /\ x.release = run[r].release
      /\ x.pc = pc /\ x.tools = tools /\ x.gated = gated
  BY <1>1, <1>2 DEF Runs
<1>4. run[r].pc # "idle" /\ run[r].path = "draft"
  BY DEF DraftPcs, AccessInv, Covered, ReleaseCovered
<1>5. ASSUME NEW s \in Sights, Covered(run[r], s, run[r].release, Config(r)), Sees(Now(x), s)
      PROVE  Covered(x, s, run[r].release, Config(r))
  <2>1. /\ grants \subseteq s.granted
        /\ {t \in Tools : Live(t)} \subseteq s.live
        /\ {t \in Tools : rows[t].status # "active" \/ ~rows[t].gated} \subseteq s.lenient
    BY <1>5 DEF Sees, Now
  <2>2. DraftCovered(run[r], s)
    BY <1>4, <1>5 DEF Covered
  <2>3. CASE pc = "draftUser"
    BY <1>3, <1>4, <2>3 DEF DraftCovered, DraftPcs, AfterDraftActive, Covered
  <2>4. CASE pc = "draftActive" /\ tools \subseteq grants
    BY <1>3, <1>4, <2>1, <2>4 DEF DraftCovered, DraftPcs, AfterDraftActive, Covered
  <2>5. CASE pc = "draftManifests" /\ run[r].pc = "draftActive"
             /\ tools \subseteq {t \in Tools : Live(t)}
    BY <1>3, <1>4, <2>1, <2>2, <2>5 DEF DraftCovered, DraftPcs, AfterDraftActive, Covered
  <2>6. CASE pc = "running" /\ run[r].pc = "draftManifests"
             /\ tools \ gated \subseteq {t \in Tools : rows[t].status # "active" \/ ~rows[t].gated}
    BY <1>3, <1>4, <2>1, <2>2, <2>6 DEF DraftCovered, DraftPcs, AfterDraftActive, Covered
  <2>. QED
    BY <2>3, <2>4, <2>5, <2>6
<1>. QED
  BY <1>1, <1>3, <1>4, <1>5, StillCache, QueryStep DEF Still

LEMMA DraftStep ==
  ASSUME AccessInv, NEW r \in Requests, DraftNext(r), Still
  PROVE  AccessInv' /\ ReleasesKept
<1>0. run[r] \in Runs /\ run[r].gated \subseteq Tools /\ run[r].tools \subseteq Tools
  BY Known DEF Runs
<1>1. run[r] = [run[r] EXCEPT !.gated = run[r].gated]
  BY <1>0 DEF Runs
<1>2. CASE LoadAgent(r)
  BY <1>2, LoadAgentStep
<1>3. CASE LoadSnapshot(r)
  <2>1. PICK tools : tools = run[r].tools \cap snapshot
    OBVIOUS
  <2>2. run' = [run EXCEPT ![r] =
          [run[r] EXCEPT !.pc = "draftUser", !.tools = tools, !.gated = run[r].gated]]
    BY <1>0, <1>3, <2>1 DEF LoadSnapshot, Runs
  <2>9. "draftUser" \in Pcs /\ run[r].pc = "draftSnapshot" /\ "draftSnapshot" \in DraftPcs
    BY <1>3 DEF LoadSnapshot, DraftPcs, Pcs
  <2>3. tools \subseteq run[r].tools
    BY <2>1
  <2>. QED
    BY <1>0, <1>3, <2>2, <2>3, <2>9, DraftToolsStep
<1>4. CASE DraftUser(r)
  <2>1. CASE End(r)
    BY <2>1, EndStep
  <2>2. CASE Goto(r, "draftRoles")
    <3>1. ASSUME NEW s \in Sights, Sees(seen[r], s)
          PROVE  Covered([run[r] EXCEPT !.pc = "draftRoles"], s, run[r].release, Config(r))
      <4>1. Covered(run[r], s, run[r].release, Config(r))
        BY <3>1, Known
      <4>. QED
        BY <1>0, <1>4, <4>1
        DEF DraftUser, Covered, DraftCovered, ReleaseCovered, DraftPcs, AfterDraftActive, Runs
    <3>. QED
      BY <1>4, <2>2, <3>1, GotoStep DEF DraftUser, Pcs
  <2>. QED
    BY <1>4, <2>1, <2>2 DEF DraftUser, Proceed
<1>5. CASE DraftRoles(r)
  <2>1. PICK tools : tools = run[r].tools \cap grants
    OBVIOUS
  <2>2. run' = [run EXCEPT ![r] =
          [run[r] EXCEPT !.pc = "draftActive", !.tools = tools, !.gated = run[r].gated]]
    BY <1>0, <1>5, <2>1 DEF DraftRoles, Runs
  <2>9. "draftActive" \in Pcs /\ run[r].pc = "draftRoles" /\ "draftRoles" \in DraftPcs
    BY <1>5 DEF DraftRoles, DraftPcs, Pcs
  <2>3. tools \subseteq run[r].tools
    BY <2>1
  <2>. QED
    BY <1>0, <1>5, <2>1, <2>2, <2>3, <2>9, DraftToolsStep
<1>6. CASE DraftActive(r)
  <2>1. PICK tools : tools = {t \in run[r].tools : Live(t)}
    OBVIOUS
  <2>2. run' = [run EXCEPT ![r] =
          [run[r] EXCEPT !.pc = "draftManifests", !.tools = tools, !.gated = run[r].gated]]
    BY <1>0, <1>6, <2>1 DEF DraftActive, Runs
  <2>3. tools \subseteq {t \in Tools : Live(t)}
    BY <1>0, <2>1
  <2>9. "draftManifests" \in Pcs /\ run[r].pc = "draftActive" /\ "draftActive" \in DraftPcs
    BY <1>6 DEF DraftActive, DraftPcs, Pcs
  <2>4. tools \subseteq run[r].tools
    BY <2>1
  <2>. QED
    BY <1>0, <1>6, <2>2, <2>3, <2>4, <2>9, DraftToolsStep
<1>7. CASE DraftManifests(r)
  <2>1. PICK tools, gated : /\ tools = Found(run[r].tools)
                            /\ gated = {t \in tools : rows[t].gated}
    OBVIOUS
  <2>2. run' = [run EXCEPT ![r] =
          [run[r] EXCEPT !.pc = "running", !.tools = tools, !.gated = gated]]
    BY <1>7, <2>1 DEF DraftManifests
  <2>3. tools \subseteq run[r].tools /\ gated \subseteq Tools
    BY <1>0, <2>1 DEF Found
  <2>4. tools \ gated \subseteq {t \in Tools : rows[t].status # "active" \/ ~rows[t].gated}
    BY <1>0, <2>1, <2>3
  <2>9. "running" \in Pcs /\ run[r].pc = "draftManifests" /\ "draftManifests" \in DraftPcs
    BY <1>7 DEF DraftManifests, DraftPcs, Pcs
  <2>. QED
    BY <1>7, <2>2, <2>3, <2>4, <2>9, DraftToolsStep
<1>. QED
  BY <1>2, <1>3, <1>4, <1>5, <1>6, <1>7 DEF DraftNext

LEMMA RunNextStep ==
  ASSUME AccessInv, NEW r \in Requests, RunNext(r), Same, Watch
  PROVE  AccessInv' /\ ReleasesKept
<1>1. CASE ReadRelease(r)
  BY <1>1, ReadReleaseStep
<1>2. CASE UNCHANGED cache
  <2>1. Still
    BY <1>2 DEF Still
  <2>2. CASE \E n \in Numbers, path \in Paths : Arrive(r, n, path)
    BY <2>1, <2>2, ArriveStep
  <2>3. CASE AdmitRelease(r) \/ AdmitAgent(r) \/ AdmitUser(r) \/ AdmitTools(r)
    BY <2>1, <2>3, AdmitStep
  <2>4. CASE DraftNext(r)
    BY <2>1, <2>4, DraftStep
  <2>5. CASE ReadActive(r) \/ ReadPolicies(r) \/ ReadConnections(r) \/ ReadGrants(r)
    BY <2>1, <2>5, ReadActiveStep, ReadPoliciesStep, ReadConnectionsStep, ReadGrantsStep
  <2>6. CASE Validate(r)
    BY <2>1, <2>6, ValidateStep
  <2>7. CASE Finish(r)
    BY <2>1, <2>7, EndStep DEF Finish
  <2>. QED
    BY <1>1, <2>2, <2>3, <2>4, <2>5, <2>6, <2>7 DEF RunNext
<1>. QED
  BY <1>1, <1>2 DEF RunNext

-----------------------------------------------------------------------------
(* A step of the control plane that leaves the catalog alone: what has to  *)
(* be shown of it.                                                         *)
LEMMA OwnStep ==
  ASSUME AccessInv, UNCHANGED run, Watch,
         UNCHANGED <<rows, connected, versions, txn, hand, foreign>>,
         Counted \/ UNCHANGED changes,
         draft' \subseteq Tools, enabled' \in BOOLEAN, snapshot' \subseteq Tools,
         role' \in Role, user' \in User, edit' \in Edits,
         releases' \in [Numbers -> Releases], publication' \in [Managers -> Publications],
         cache' \subseteq Numbers, ReleasesKept, Published \subseteq Published'
  PROVE  AccessInv' /\ ReleasesKept
<1>1. CatalogInv'
  BY CatalogKept DEF AccessInv
<1>2. StoreOK'
  BY <1>1 DEF StoreOK, CatalogInv
<1>. QED
  BY <1>1, <1>2, ControlStep

LEMMA StoreType ==
  ASSUME AccessInv
  PROVE  /\ draft \subseteq Tools /\ enabled \in BOOLEAN /\ snapshot \subseteq Tools
         /\ role \in Role /\ user \in User /\ edit \in Edits
         /\ releases \in [Numbers -> Releases]
         /\ publication \in [Managers -> Publications] /\ cache \subseteq Numbers
         /\ grants \subseteq Tools
BY GrantsAreTools DEF AccessInv, TypeOK

LEMMA SameReleases ==
  ASSUME UNCHANGED releases
  PROVE  ReleasesKept /\ Published \subseteq Published'
BY DEF ReleasesKept, Published

(* A request to publish or to change the draft goes on, and only it.       *)
LEMMA ManagerStep ==
  ASSUME AccessInv, NEW p \in Managers, NEW x \in Publications,
         publication' = [publication EXCEPT ![p] = x],
         UNCHANGED <<accountVars, releases, cache>>, UNCHANGED run, Watch,
         draft' \subseteq Tools, snapshot' \subseteq Tools,
         UNCHANGED <<rows, connected, versions, txn, hand, foreign>>,
         Counted \/ UNCHANGED changes
  PROVE  AccessInv' /\ ReleasesKept
<1>1. publication' \in [Managers -> Publications]
  BY StoreType
<1>2. UNCHANGED <<enabled, role, user, edit, releases, cache>>
  BY DEF accountVars
<1>. QED
  BY <1>1, <1>2, StoreType, SameReleases, OwnStep

LEMMA LoadDraftStep ==
  ASSUME AccessInv, NEW p \in Managers, LoadDraft(p), UNCHANGED run, Watch
  PROVE  AccessInv' /\ ReleasesKept
<1>1. PICK x : x = [NoPublication EXCEPT !.pc = "number", !.config.enabled = enabled,
                                         !.config.tools = draft]
  OBVIOUS
<1>2. x \in Publications
  BY <1>1, StoreType DEF NoPublication, Publications, NoConfig, Configs, NoRelease
<1>. QED
  BY <1>1, <1>2, StoreType, ManagerStep DEF LoadDraft

LEMMA ChangeDraftStep ==
  ASSUME AccessInv, NEW p \in Managers, NEW d \in SUBSET Tools, ChangeDraft(p, d),
         UNCHANGED run, Watch
  PROVE  AccessInv' /\ ReleasesKept
<1>1. PICK x : x = [publication[p] EXCEPT !.pc = "owner", !.config.tools = d]
  OBVIOUS
<1>2. PICK y : y = publication[p]
  OBVIOUS
<1>3. PICK g : g = [y.config EXCEPT !.tools = d]
  OBVIOUS
<1>4. y \in Publications /\ publication \in [Managers -> Publications]
  BY <1>2, StoreType
<1>5. y.config \in Configs
  BY <1>4 DEF Publications
<1>6. g \in Configs
  BY <1>3, <1>5 DEF Configs
<1>7. x = [y EXCEPT !.pc = "owner", !.config = g]
  BY <1>1, <1>2, <1>3
<1>8. x \in Publications
  BY <1>4, <1>6, <1>7 DEF Publications
<1>9. publication' = [publication EXCEPT ![p] = x]
  BY <1>1, <1>4 DEF ChangeDraft
<1>. QED
  BY <1>8, <1>9, StoreType, ManagerStep DEF ChangeDraft

LEMMA CatalogAside ==
  ASSUME UNCHANGED catalogVars
  PROVE  UNCHANGED <<rows, connected, versions, txn, changes, hand, foreign>>
BY DEF catalogVars

LEMMA RefuseStep ==
  ASSUME AccessInv, NEW p \in Managers, Refuse(p),
         UNCHANGED <<catalogVars, draft, snapshot, accountVars, releases, cache>>,
         UNCHANGED run, Watch
  PROVE  AccessInv' /\ ReleasesKept
BY RecordTypes, StoreType, CatalogAside, ManagerStep DEF Refuse

LEMMA InsertStep ==
  ASSUME AccessInv, NEW p \in Managers, Insert(p),
         UNCHANGED <<catalogVars, draft, snapshot, accountVars, cache>>,
         UNCHANGED run, Watch
  PROVE  AccessInv' /\ ReleasesKept
<1>1. CASE Taken(publication[p].number)
  BY <1>1, RefuseStep DEF Insert
<1>2. CASE ~Taken(publication[p].number)
  <2>1. PICK n, x : /\ n = publication[p].number
                    /\ x = [status |-> "published", config |-> publication[p].config]
    OBVIOUS
  <2>2. x \in Releases
    BY <2>1, StoreType DEF Publications, Releases
  <2>3. releases' = [releases EXCEPT ![n] = x] /\ n \notin Published
    BY <1>2, <2>1 DEF Insert, Taken
  <2>4. releases' \in [Numbers -> Releases]
    BY <2>2, <2>3, StoreType
  <2>5. ASSUME NEW m \in Published
        PROVE  releases'[m] = releases[m] /\ m \in Published'
    BY <2>3, <2>5, StoreType DEF Published
  <2>6. ReleasesKept /\ Published \subseteq Published'
    BY <2>5 DEF ReleasesKept
  <2>7. publication' \in [Managers -> Publications]
    BY RecordTypes, StoreType DEF Insert, Refuse
  <2>. QED
    BY <2>4, <2>6, <2>7, StoreType, CatalogAside, OwnStep DEF accountVars
<1>. QED
  BY <1>1, <1>2

LEMMA PublicationStep ==
  ASSUME AccessInv, NEW p \in Managers, Publication(p), UNCHANGED run, Watch
  PROVE  AccessInv' /\ ReleasesKept
<1>0. UNCHANGED <<catalogVars, draft, snapshot, accountVars, cache>>
  BY DEF Publication
<1>1. publication[p] \in Publications
  BY StoreType
<1>2. ASSUME NEW x \in Publications, publication' = [publication EXCEPT ![p] = x],
             UNCHANGED releases
      PROVE  AccessInv' /\ ReleasesKept
  BY <1>0, <1>2, StoreType, CatalogAside, ManagerStep
<1>3. CASE Number(p) /\ UNCHANGED releases
  <2>1. PICK n \in Numbers :
          publication' = [publication EXCEPT ![p].pc = "manifests", ![p].number = n]
    BY <1>3 DEF Number
  <2>2. PICK x : x = [publication[p] EXCEPT !.pc = "manifests", !.number = n]
    OBVIOUS
  <2>3. x \in Publications
    BY <1>1, <2>2 DEF Publications
  <2>. QED
    BY <1>2, <1>3, <2>1, <2>2, <2>3
<1>4. CASE ReadManifests(p) /\ UNCHANGED releases
  <2>1. CASE Refuse(p)
    BY <1>0, <1>4, <2>1, RefuseStep
  <2>2. CASE ~Refuse(p)
    <3>1. PICK gated : gated = {t \in publication[p].config.tools : rows[t].gated}
      OBVIOUS
    <3>2. PICK x : x = [publication[p] EXCEPT !.pc = "grants", !.config.gated = gated]
      OBVIOUS
    <3>3. gated \subseteq Tools
      BY <1>1, <3>1 DEF Publications, Configs
    <3>4. x \in Publications
      BY <1>1, <3>2, <3>3 DEF Publications, Configs
    <3>5. publication' = [publication EXCEPT ![p] = x]
      BY <1>1, <1>4, <2>2, <3>1, <3>2 DEF ReadManifests, Publications, Configs
    <3>. QED
      BY <1>2, <1>4, <3>4, <3>5
  <2>. QED
    BY <2>1, <2>2
<1>5. CASE ReadPermissions(p) /\ UNCHANGED releases
  <2>1. PICK x : x = [publication[p] EXCEPT !.pc = "insert", !.config.granted = grants]
    OBVIOUS
  <2>2. x \in Publications
    BY <1>1, <2>1, StoreType DEF Publications, Configs
  <2>3. publication' = [publication EXCEPT ![p] = x]
    BY <1>1, <1>5, <2>1 DEF ReadPermissions, Publications, Configs
  <2>. QED
    BY <1>2, <1>5, <2>2, <2>3
<1>6. CASE Insert(p)
  BY <1>0, <1>6, InsertStep
<1>7. CASE AbortPublication(p) /\ UNCHANGED releases
  BY <1>0, <1>7, RefuseStep DEF AbortPublication
<1>. QED
  BY <1>3, <1>4, <1>5, <1>6, <1>7 DEF Publication

LEMMA ChangeStep ==
  ASSUME AccessInv, NEW p \in Managers, Change(p), UNCHANGED run, Watch
  PROVE  AccessInv' /\ ReleasesKept
<1>0. UNCHANGED <<catalogVars, accountVars, releases, cache>>
  BY DEF Change
<1>1. publication[p] \in Publications
  BY StoreType
<1>2. ASSUME NEW x \in Publications, publication' = [publication EXCEPT ![p] = x],
             draft' \subseteq Tools, snapshot' \subseteq Tools
      PROVE  AccessInv' /\ ReleasesKept
  BY <1>0, <1>2, CatalogAside, ManagerStep
<1>3. CASE AskOwner(p)
  <2>1. CASE Refuse(p)
    BY <1>2, <1>3, <2>1, RecordTypes, StoreType DEF AskOwner, Refuse
  <2>2. CASE ~Refuse(p)
    <3>1. PICK x : x = [publication[p] EXCEPT !.pc = "save", !.config.granted = grants]
      OBVIOUS
    <3>2. x \in Publications
      BY <1>1, <3>1, StoreType DEF Publications, Configs
    <3>3. publication' = [publication EXCEPT ![p] = x]
      BY <1>1, <1>3, <2>2, <3>1 DEF AskOwner, Publications, Configs
    <3>. QED
      BY <1>2, <1>3, <3>2, <3>3, StoreType DEF AskOwner
  <2>. QED
    BY <2>1, <2>2
<1>4. CASE SaveDraft(p)
  BY <1>1, <1>2, <1>4, RecordTypes DEF SaveDraft, Refuse, Publications, Configs
<1>. QED
  BY <1>3, <1>4 DEF Change

LEMMA RevokeStep ==
  ASSUME AccessInv, NEW n \in Numbers, Revoke(n), UNCHANGED run, Watch
  PROVE  AccessInv' /\ ReleasesKept
<1>1. PICK x : x = [releases[n] EXCEPT !.status = "revoked"]
  OBVIOUS
<1>2. x \in Releases /\ x.config = releases[n].config /\ x.status = "revoked"
  BY <1>1, StoreType DEF Releases
<1>3. releases' = [releases EXCEPT ![n] = x]
  BY <1>1 DEF Revoke, RevokeRow
<1>4. releases' \in [Numbers -> Releases]
  BY <1>2, <1>3, StoreType
<1>5. ReleasesKept /\ Published \subseteq Published'
  BY <1>2, <1>3, StoreType DEF ReleasesKept, Published
<1>. QED
  BY <1>4, <1>5, StoreType, OwnStep DEF Revoke, accountVars

LEMMA EvictStep ==
  ASSUME AccessInv, NEW n \in Numbers, Evict(n), UNCHANGED run, Watch
  PROVE  AccessInv' /\ ReleasesKept
<1>1. cache' \subseteq Numbers
  BY StoreType DEF Evict
<1>. QED
  BY <1>1, StoreType, SameReleases, CatalogAside, OwnStep DEF Evict, accountVars

(* What administrators change: accounts, the role, the agent's status.     *)
LEMMA AccountStep ==
  ASSUME AccessInv, Administer, Counted \/ UNCHANGED changes,
         enabled' \in BOOLEAN, role' \in Role, user' \in User, edit' \in Edits,
         UNCHANGED run, Watch
  PROVE  AccessInv' /\ ReleasesKept
BY StoreType, SameReleases, OwnStep DEF Administer

LEMMA AdministratorStep ==
  ASSUME AccessInv, UNCHANGED run, Watch,
         \/ \E b \in BOOLEAN : SetAgentStatus(b) \/ SetUser(b) \/ SetUserRoles(b)
         \/ \E a \in BOOLEAN, g \in SUBSET Tools : UpdateRole(a, g)
         \/ \E x \in edit : WriteEdit(x)
         \/ LoseEdit
  PROVE  AccessInv' /\ ReleasesKept
<1>1. NoEdit \in Edits /\ role \in Role /\ user \in User
  BY StoreType DEF Edits
<1>2. CASE \E b \in BOOLEAN : SetAgentStatus(b)
  BY <1>2, StoreType, AccountStep DEF SetAgentStatus
<1>3. CASE \E b \in BOOLEAN : SetUser(b)
  <2>1. user' \in User
    BY <1>1, <1>3 DEF SetUser, User
  <2>. QED
    BY <1>3, <2>1, StoreType, AccountStep DEF SetUser
<1>4. CASE \E b \in BOOLEAN : SetUserRoles(b)
  <2>1. user' \in User /\ edit' \in Edits
    BY <1>1, <1>4 DEF SetUserRoles, User, Edits
  <2>. QED
    BY <1>4, <2>1, StoreType, AccountStep DEF SetUserRoles
<1>5. CASE \E a \in BOOLEAN, g \in SUBSET Tools : UpdateRole(a, g)
  <2>1. role' \in Role /\ edit' \in Edits
    BY <1>1, <1>5 DEF UpdateRole, Role, Edits
  <2>. QED
    BY <1>5, <2>1, StoreType, AccountStep DEF UpdateRole
<1>6. ASSUME NEW x \in edit, WriteEdit(x)
      PROVE  AccessInv' /\ ReleasesKept
  <2>1. \/ x \in {[of |-> "role", tools |-> g] : g \in SUBSET Tools}
        \/ x \in {[of |-> "user", assigned |-> b] : b \in BOOLEAN}
    BY StoreType DEF Edits, NoEdit
  <2>2. /\ x.of = "role" => x.tools \subseteq Tools
        /\ x.of # "role" => x.assigned \in BOOLEAN
    BY <2>1
  <2>3. role' \in Role /\ user' \in User
    BY <1>1, <1>6, <2>2 DEF WriteEdit, Role, User
  <2>. QED
    BY <1>1, <1>6, <2>3, StoreType, AccountStep DEF WriteEdit
<1>7. CASE LoseEdit
  BY <1>1, <1>7, StoreType, AccountStep DEF LoseEdit
<1>. QED
  BY <1>2, <1>3, <1>4, <1>5, <1>6, <1>7

LEMMA ControlNextStep ==
  ASSUME AccessInv, ControlNext, UNCHANGED run, Watch
  PROVE  AccessInv' /\ ReleasesKept
<1>1. CASE CatalogNext /\ UNCHANGED releaseVars
  <2>1. CatalogInv'
    BY <1>1, NextInv DEF AccessInv
  <2>2. UNCHANGED <<draft, snapshot, enabled, role, user, edit, releases, publication, cache>>
    BY <1>1 DEF releaseVars, accountVars
  <2>3. StoreOK'
    BY <2>1, <2>2, StoreType DEF StoreOK, CatalogInv
  <2>. QED
    BY <2>1, <2>2, <2>3, SameReleases, ControlStep
<1>2. CASE \E p \in Managers : LoadDraft(p) \/ Publication(p) \/ Change(p)
  BY <1>2, LoadDraftStep, PublicationStep, ChangeStep
<1>3. CASE \E p \in Managers, d \in SUBSET Tools : ChangeDraft(p, d)
  BY <1>3, ChangeDraftStep
<1>4. CASE \E n \in Numbers : Revoke(n) \/ Evict(n)
  BY <1>4, RevokeStep, EvictStep
<1>. QED
  BY <1>1, <1>2, <1>3, <1>4, AdministratorStep DEF ControlNext

-----------------------------------------------------------------------------
LEMMA AccessInit == Init => AccessInv
<1>. SUFFICES ASSUME Init PROVE AccessInv
  OBVIOUS
<1>1. CatalogInv /\ CatalogTypeOK
  BY InitInv DEF Init, CatalogInv
<1>2. /\ draft \subseteq Tools /\ enabled \in BOOLEAN
      /\ role \in Role /\ user \in User /\ edit \in Edits
  BY DEF Init, Created, Role, User, Edits
<1>3. grants \subseteq Tools /\ snapshot \subseteq Tools
  BY <1>2, GrantsAreTools DEF Init, Created
<1>4. releases \in [Numbers -> Releases]
  BY <1>2, <1>3, RecordTypes DEF Init, Releases, Configs
<1>5. /\ publication \in [Managers -> Publications] /\ cache \subseteq Numbers
      /\ run \in [Requests -> Runs] /\ seen \in [Requests -> Sights]
  BY RecordTypes DEF Init
<1>6. \A r \in Requests : run[r].pc = "idle"
  BY RecordTypes DEF Init
<1>. QED
  BY <1>1, <1>2, <1>3, <1>4, <1>5, <1>6 DEF AccessInv, TypeOK, Covered

LEMMA AccessNext ==
  ASSUME AccessInv, [Next]_vars
  PROVE  AccessInv' /\ ReleasesKept
<1>1. CASE UNCHANGED vars
  <2>1. UNCHANGED <<draft, snapshot, enabled, role, user, edit, releases, publication,
                    cache, run, seen, rows, connected, versions, txn, changes, hand, foreign>>
    BY <1>1 DEF vars, releaseVars, accountVars, catalogVars
  <2>2. CatalogInv'
    BY <2>1, CatalogKept DEF AccessInv
  <2>3. TypeOK'
    BY <2>1 DEF AccessInv, TypeOK, CatalogTypeOK
  <2>. QED
    BY <2>1, <2>2, <2>3 DEF AccessInv, Published, Config, ReleasesKept
<1>2. CASE Next
  <2>1. CASE ControlNext /\ UNCHANGED run
    BY <1>2, <2>1, ControlNextStep DEF Next
  <2>2. CASE /\ \E r \in Requests : RunNext(r)
             /\ UNCHANGED <<catalogVars, draft, snapshot, accountVars, releases, publication>>
    BY <1>2, <2>2, RunNextStep DEF Next, Same
  <2>. QED
    BY <1>2, <2>1, <2>2 DEF Next
<1>. QED
  BY <1>1, <1>2

THEOREM AccessInvariant == Spec => []AccessInv
<1>1. AccessInv /\ [Next]_vars => AccessInv'
  BY AccessNext
<1>. QED
  BY AccessInit, <1>1, PTL DEF Spec

(* Releases, publications, roles, caches and requests keep their shape     *)
(* through every request of the control plane and of the gateway.          *)
THEOREM AccessTyped == Spec => []TypeOK
<1>1. AccessInv => TypeOK
  BY DEF AccessInv
<1>. QED
  BY AccessInvariant, <1>1, PTL

(* The catalog's invariant stands in the composed system: publishing and   *)
(* running agents does not disturb the publication of workflow versions.   *)
THEOREM CatalogStands == Spec => []CatalogInv
<1>1. AccessInv => CatalogInv
  BY DEF AccessInv
<1>. QED
  BY AccessInvariant, <1>1, PTL

(* resolve_runtime_context: no turn for a release that was not published   *)
(* at any moment since its request came in, whatever the cache holds.      *)
THEOREM RevokedIsKeptOut == Spec => []RevokedStaysOut
<1>1. AccessInv => RevokedStaysOut
  BY DEF AccessInv, RevokedStaysOut, Running, Covered, ReleaseCovered, AfterRelease,
         AfterActive, AfterPolicies, AfterGrants
<1>. QED
  BY AccessInvariant, <1>1, PTL

(* resolve_runtime_context and draft_runtime_context: every tool of a turn *)
(* was live and granted at some moment since its request came in.          *)
THEOREM OnlyLiveTools == Spec => []ToolsWereLive
<1>1. AccessInv => ToolsWereLive
  BY DEF AccessInv, ToolsWereLive, Running, Covered, ReleaseCovered, DraftCovered,
         AfterActive, AfterPolicies, AfterGrants, AfterDraftActive
<1>. QED
  BY AccessInvariant, <1>1, PTL

(* A turn calls a tool without an approval only if the tool's own policy   *)
(* allowed it since the request came in, or the tool was disabled then.    *)
THEOREM GateStands == Spec => []GateIsLive
<1>1. AccessInv => GateIsLive
  BY DEF AccessInv, GateIsLive, Running, Covered, ReleaseCovered, DraftCovered,
         AfterPolicies, AfterGrants
<1>. QED
  BY AccessInvariant, <1>1, PTL

(* No change after the publication widens what a release may run.          *)
THEOREM ReleaseIsALimit == Spec => []WithinRelease
<1>1. AccessInv => WithinRelease
  BY DEF AccessInv, WithinRelease, Running, Covered, ReleaseCovered, AfterRelease,
         AfterActive, AfterPolicies, AfterGrants
<1>. QED
  BY AccessInvariant, <1>1, PTL

(* run_agent_release asks agents.enabled before it calls the runtime.      *)
THEOREM PlatformAsks == Spec => []PlatformAsksAgent
<1>1. AccessInv => PlatformAsksAgent
  BY DEF AccessInv, PlatformAsksAgent, Running, Covered, ReleaseCovered
<1>. QED
  BY AccessInvariant, <1>1, PTL

(* save_agent_release, revoke_agent_release: no step changes the           *)
(* configuration of a release or brings a revoked one back.                *)
THEOREM ReleasesNeverChange == Spec => ReleasesAreImmutable
<1>1. AccessInv /\ [Next]_vars => [ReleasesKept]_vars
  BY AccessNext
<1>2. Spec => [][ReleasesKept]_vars
  BY AccessInvariant, <1>1, PTL DEF Spec
<1>. QED
  BY <1>2 DEF ReleasesAreImmutable, ReleasesKept
=============================================================================
