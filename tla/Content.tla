------------------------------ MODULE Content ------------------------------
(***************************************************************************)
(* The retrieval copy of the FAQs: Strapi owns them, a synchronisation     *)
(* copies them into PostgreSQL, an embedding run computes the vectors that *)
(* vector search reads.  Jobs of the scheduler and of the command line run *)
(* under one advisory lock; the scripts of the same name take no lock, and *)
(* the editors of Strapi go on editing.                                    *)
(*                                                                         *)
(* A text stands for the row and its content_hash.  faqs.version moves     *)
(* only together with the hash and is left out: a text that changed and    *)
(* came back during an embedding run is claimed once more by the code.     *)
(***************************************************************************)
EXTENDS Integers, FiniteSets

CONSTANTS
  Faqs,        \* strapi ids: Strapi lists them in this order
  Texts, None,
  Written,     \* the texts that the editors give to each FAQ
  Jobs,        \* processes that run their task under the lock
  Scripts,     \* processes that run it without
  NoProc,
  PageSize,    \* 100 in the code
  BatchSize,   \* EMBEDDING_BATCH_SIZE
  MaxRetries   \* EMBEDDING_MAX_RETRIES

ASSUME ContentAssumption ==
  /\ Faqs \subseteq Nat /\ IsFiniteSet(Faqs)
  /\ None \notin Texts
  /\ Written \in [Faqs -> SUBSET Texts]
  /\ Jobs \cap Scripts = {}
  /\ NoProc \notin Jobs \cup Scripts
  /\ PageSize \in Nat \ {0}
  /\ BatchSize \in Nat \ {0}
  /\ MaxRetries \in Nat \ {0}

Procs == Jobs \cup Scripts

VARIABLES
  cms,     \* Strapi: the text of each FAQ, None if it has no such FAQ
  copy,    \* faqs: text and deleted_at, for the ids in its domain
  emb,     \* faq_embeddings, same domain
  proc,    \* where each process is
  edited,  \* the jobs that began their synchronisation before the last edit
  holder   \* who holds the advisory lock

vars == <<cms, copy, emb, proc, edited, holder>>

-----------------------------------------------------------------------------
CopyRow == [text : Texts, deleted : BOOLEAN]

EmbRow == [hash : Texts,                 \* content_hash
           vector : Texts \cup {None},   \* the text the vector was computed from
           status : {"pending", "processing", "completed", "failed"},
           attempts : 0..MaxRetries]

Shown(f) == f \in DOMAIN copy /\ ~copy[f].deleted

\* The condition of claim_jobs; the status is not part of it.
Claimable(f) ==
  /\ Shown(f)
  /\ emb[f].vector = None \/ emb[f].hash # copy[f].text
  /\ emb[f].attempts < MaxRetries

\* What vector search reads.
Found(f) == Shown(f) /\ emb[f].vector # None /\ emb[f].status = "completed"

-----------------------------------------------------------------------------
\* Strapi

Present == {f \in Faqs : cms[f] # None}

\* Where f stands in the list.
Place(f) == Cardinality({g \in Present : g <= f})

PagesOneLess == (Cardinality(Present) - 1) \div PageSize

Pages == (Cardinality(Present) + PageSize - 1) \div PageSize

Page(n) == {f \in Present : Place(f) \in (n - 1) * PageSize + 1 .. n * PageSize}

Edit(f, t) ==
  /\ t \in Written[f] \cup {None}
  /\ t # cms[f]
  /\ cms' = [cms EXCEPT ![f] = t]
  /\ edited' = edited \cup {p \in Jobs : proc[p].at \in {"listing", "listed"}}
  /\ UNCHANGED <<copy, emb, proc, holder>>

-----------------------------------------------------------------------------
\* Processes

\* A process that has nothing in hand yet.
Fresh(at) == [at |-> at, page |-> 0, listed |-> <<>>, batch |-> {}]

Idle == Fresh("idle")

Enter(p, at) == proc' = [proc EXCEPT ![p] = Fresh(at)]

\* A job that does not get the lock reports "skipped".
Acquire(p) ==
  /\ proc[p].at = "idle"
  /\ p \in Jobs => holder = NoProc
  /\ holder' = IF p \in Jobs THEN p ELSE holder

Release(p) == holder' = IF holder = p THEN NoProc ELSE holder

\* The idle connection that holds the lock breaks; the job works on others and
\* goes on.
LoseLock(p) ==
  /\ holder = p
  /\ holder' = NoProc
  /\ UNCHANGED <<cms, copy, emb, proc, edited>>

StartSync(p) ==
  /\ Acquire(p)
  /\ Enter(p, "listing")
  /\ UNCHANGED <<cms, copy, emb, edited>>

\* StrapiClient.list: one request per page.
ListPage(p) ==
  /\ proc[p].at = "listing"
  /\ LET n == proc[p].page + 1  got == Page(n)  last == got = {} \/ n >= Pages IN
     proc' = [proc EXCEPT
       ![p].page = IF last THEN 0 ELSE n,
       ![p].listed = [f \in DOMAIN @ \cup got |-> IF f \in got THEN cms[f] ELSE @[f]],
       ![p].at = IF last THEN "listed" ELSE @]
  /\ UNCHANGED <<cms, copy, emb, edited, holder>>

Missing(p, f) == p \in Jobs /\ f \notin DOMAIN proc[p].listed

\* import_rows: a changed text empties its vector and starts its attempts anew.
Imported(p, f) ==
  LET t == proc[p].listed[f] IN
  IF f \in DOMAIN emb /\ emb[f].hash = t THEN emb[f]
  ELSE [hash |-> t, vector |-> None, status |-> "pending", attempts |-> 0]

\* One transaction: import_rows and, in the job, mark_missing_faqs_deleted.
CommitSync(p) ==
  /\ proc[p].at = "listed"
  /\ LET got == DOMAIN proc[p].listed  ids == DOMAIN copy \cup got IN
     /\ copy' = [f \in ids |->
          IF f \in got THEN [text |-> proc[p].listed[f], deleted |-> FALSE]
          ELSE [copy[f] EXCEPT !.deleted = @ \/ Missing(p, f)]]
     /\ emb' = [f \in ids |-> IF f \in got THEN Imported(p, f) ELSE emb[f]]
  /\ Enter(p, "idle")
  /\ Release(p)
  /\ edited' = edited \ {p}
  /\ UNCHANGED cms

StartEmbed(p) ==
  /\ Acquire(p)
  /\ Enter(p, "embedding")
  /\ UNCHANGED <<cms, copy, emb, edited>>

\* --retry-failed: the exhausted rows that failed.
ResetFailed(p) ==
  /\ proc[p].at = "embedding"
  /\ emb' = [f \in DOMAIN emb |->
       IF emb[f].status = "failed" /\ emb[f].attempts >= MaxRetries
       THEN [emb[f] EXCEPT !.status = "pending", !.attempts = 0] ELSE emb[f]]
  /\ UNCHANGED <<cms, copy, proc, edited, holder>>

Claim(p) ==
  /\ proc[p].at = "embedding"
  /\ \E B \in SUBSET {f \in Faqs : Claimable(f)} :
       /\ Cardinality(B) \in 1..BatchSize
       /\ emb' = [f \in DOMAIN emb |->
            IF f \in B THEN [emb[f] EXCEPT !.status = "processing", !.attempts = @ + 1]
            ELSE emb[f]]
       /\ proc' = [proc EXCEPT ![p].at = "encoding",
                               ![p].batch = {<<f, copy[f].text>> : f \in B}]
  /\ UNCHANGED <<cms, copy, edited, holder>>

InBatch(p, f) == \E t \in Texts : <<f, t>> \in proc[p].batch
TextOf(p, f) == CHOOSE t \in Texts : <<f, t>> \in proc[p].batch

NextBatchKept(p) == proc' = [proc EXCEPT ![p].at = "embedding"]

NextBatch(p) == proc' = [proc EXCEPT ![p].at = "embedding", ![p].batch = {}]

SaveVectorsWithoutHash(p) ==
  /\ proc[p].at = "encoding"
  /\ emb' = [f \in DOMAIN emb |->
       IF InBatch(p, f)
       THEN [emb[f] EXCEPT !.vector = TextOf(p, f), !.status = "completed", !.attempts = 0]
       ELSE emb[f]]
  /\ NextBatch(p)
  /\ UNCHANGED <<cms, copy, edited, holder>>

SaveVectorsCountAttempts(p) ==
  /\ proc[p].at = "encoding"
  /\ emb' = [f \in DOMAIN emb |->
       IF InBatch(p, f)
       THEN [emb[f] EXCEPT !.hash = TextOf(p, f), !.vector = TextOf(p, f), !.status = "completed"]
       ELSE emb[f]]
  /\ NextBatch(p)
  /\ UNCHANGED <<cms, copy, edited, holder>>

\* Written to the row whatever happened to it since the claim.
SaveVectors(p) ==
  /\ proc[p].at = "encoding"
  /\ emb' = [f \in DOMAIN emb |->
       IF InBatch(p, f)
       THEN [hash |-> TextOf(p, f), vector |-> TextOf(p, f),
             status |-> "completed", attempts |-> 0]
       ELSE emb[f]]
  /\ NextBatch(p)
  /\ UNCHANGED <<cms, copy, edited, holder>>

MarkFailed(p) ==
  /\ proc[p].at = "encoding"
  /\ emb' = [f \in DOMAIN emb |->
       IF InBatch(p, f) THEN [emb[f] EXCEPT !.status = "failed"] ELSE emb[f]]
  /\ NextBatch(p)
  /\ UNCHANGED <<cms, copy, edited, holder>>

\* Nothing is left to claim, or --limit is reached.
EndEmbed(p) ==
  /\ proc[p].at = "embedding"
  /\ Enter(p, "idle")
  /\ Release(p)
  /\ UNCHANGED <<cms, copy, emb, edited>>

\* An exception ends the task, and the scheduler with it, or the process dies.
Crash(p) ==
  /\ proc[p].at # "idle"
  /\ Enter(p, "idle")
  /\ Release(p)
  /\ edited' = edited \ {p}
  /\ UNCHANGED <<cms, copy, emb>>

-----------------------------------------------------------------------------
Init ==
  /\ cms = [f \in Faqs |-> None]
  /\ copy = <<>>
  /\ emb = <<>>
  /\ proc = [p \in Procs |-> Idle]
  /\ edited = {}
  /\ holder = NoProc

Next ==
  \/ \E f \in Faqs, t \in Texts \cup {None} : Edit(f, t)
  \/ \E p \in Procs :
       \/ StartSync(p) \/ ListPage(p) \/ CommitSync(p)
       \/ StartEmbed(p) \/ ResetFailed(p) \/ Claim(p) \/ SaveVectors(p) \/ MarkFailed(p)
       \/ EndEmbed(p)
       \/ Crash(p)
  \/ \E p \in Jobs : LoseLock(p)

Spec == Init /\ [][Next]_vars

-----------------------------------------------------------------------------
\* Types of the state: the two tables have the same rows, and only a job holds
\* the lock.
TypeOK ==
  /\ cms \in [Faqs -> Texts \cup {None}]
  /\ DOMAIN copy \subseteq Faqs
  /\ \A f \in DOMAIN copy : copy[f] \in CopyRow
  /\ DOMAIN emb = DOMAIN copy
  /\ \A f \in DOMAIN emb : emb[f] \in EmbRow
  /\ \A p \in Procs : /\ proc[p].at \in {"idle", "listing", "listed", "embedding", "encoding"}
                      /\ proc[p].batch # {} <=> proc[p].at = "encoding"
                      /\ \A x \in proc[p].batch : x[1] \in DOMAIN emb /\ x[2] \in Texts
  /\ holder \in Jobs \cup {NoProc}

\* A vector carries the hash of the text it was computed from, also when a
\* synchronisation changed the text between the claim and the save, or two
\* embedding runs claimed the same row (save_vectors, import_rows).
VectorMatchesHash ==
  \A f \in DOMAIN emb : emb[f].vector \in {None, emb[f].hash}

\* Vector search may find a FAQ by the vector of an old text, but only one that
\* the next embedding run computes anew: no order of synchronisations,
\* embedding runs and crashes makes a stale vector final.
StaleIsComputedAgain ==
  \A f \in DOMAIN emb : Found(f) /\ emb[f].vector # copy[f].text => Claimable(f)

\* After a synchronisation job during which nobody edited Strapi, the copy
\* shows exactly what Strapi has, whatever was paged, deleted or restored
\* before (StrapiClient.list, import_rows, mark_missing_faqs_deleted).
QuietSyncMirrors ==
  [][\A p \in Jobs :
       (proc[p].at = "listed" /\ proc'[p].at = "idle" /\ copy' # copy /\ p \notin edited)
       => \A f \in Faqs : IF cms[f] = None THEN f \in DOMAIN copy => copy'[f].deleted
                          ELSE f \in DOMAIN copy' /\ ~copy'[f].deleted /\ copy'[f].text = cms[f]]_vars
=============================================================================
