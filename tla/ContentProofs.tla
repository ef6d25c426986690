--------------------------- MODULE ContentProofs ---------------------------
(***************************************************************************)
(* Proofs about module Content, for any FAQs and texts, any jobs and       *)
(* scripts, any size of a page and of a batch, any number of retries.      *)
(*                                                                         *)
(* The invariant, ContentInv, adds to the shape of the two tables how the  *)
(* columns of a row hang together, and what a synchronisation job holds of *)
(* Strapi while it lists it page by page and nobody edits.                 *)
(***************************************************************************)
EXTENDS Content, FiniteSetTheorems, WellFoundedInduction, TLAPS

Places == {"idle", "listing", "listed", "embedding", "encoding"}

\* What a process holds of Strapi.
Lists == UNION {[S -> Texts] : S \in SUBSET Faqs}

ProcRecord == [at : Places, page : Nat, listed : Lists, batch : SUBSET (Faqs \X Texts)]

Tables ==
  /\ DOMAIN copy \subseteq Faqs /\ DOMAIN emb = DOMAIN copy
  /\ copy \in [DOMAIN copy -> CopyRow]
  /\ emb \in [DOMAIN copy -> EmbRow]

Shape ==
  /\ cms \in [Faqs -> Texts \cup {None}]
  /\ Tables
  /\ proc \in [Procs -> ProcRecord]
  /\ \A p \in Procs : /\ proc[p].batch # {} <=> proc[p].at = "encoding"
                      /\ proc[p].batch \subseteq (DOMAIN emb) \X Texts
  /\ holder \in Jobs \cup {NoProc}

\* A vector that search may use has all its attempts before it.
Unspent == \A f \in DOMAIN emb : emb[f].status = "completed" => emb[f].attempts = 0

\* The first n pages.
UpTo(n) == {f \in Present : Place(f) <= n * PageSize}

\* What a job has listed while nobody edited: the pages it asked for, as they
\* are, and in the end all of Strapi.
Listing(p) ==
  /\ proc[p].at = "listing" => DOMAIN proc[p].listed = UpTo(proc[p].page)
  /\ proc[p].at = "listed" => DOMAIN proc[p].listed = Present
  /\ proc[p].at \in {"listing", "listed"} =>
       \A f \in DOMAIN proc[p].listed : proc[p].listed[f] = cms[f]

ContentInv ==
  /\ Shape
  /\ VectorMatchesHash
  /\ Unspent
  /\ \A p \in Jobs \ edited : Listing(p)

----------------------------------------------------------------------------
(* Paging.  A page is made of places, the place of a FAQ counts what is    *)
(* listed up to it, so the pages leave nothing out and none is empty       *)
(* before the last.                                                        *)

LEMMA Least ==
  ASSUME NEW T, T \subseteq Nat, T # {}
  PROVE  \E x \in T : \A y \in T : x <= y
<1>1. PICK R : R = OpToRel(<, Nat)
  OBVIOUS
<1>2. IsWellFoundedOn(R, Nat)
  BY <1>1, NatLessThanWellFounded
<1>3. PICK x \in T : \A y \in T : ~(<<y, x>> \in R)
  BY <1>2, WFMin
<1>4. \A m, n \in Nat : n < m => <<n, m>> \in R
  BY <1>1 DEF OpToRel
<1>5. \A y \in T : ~(y < x) /\ x \in Nat /\ y \in Nat
  BY <1>3, <1>4
<1>. QED
  BY <1>5

LEMMA Bounded ==
  ASSUME NEW S, S \subseteq Nat, IsFiniteSet(S)
  PROVE  \E N \in Nat : \A x \in S : x <= N
<1>. DEFINE Free(Q) == \A N \in Nat : \E x \in Q : ~(x <= N)
<1>. SUFFICES ASSUME Free(S) PROVE FALSE
  OBVIOUS
<1>1. PICK T : T = {n \in Nat : \E Q \in SUBSET S : Cardinality(Q) = n /\ Free(Q)}
  OBVIOUS
<1>2. Cardinality(S) \in T
  BY <1>1, FS_CardinalityType
<1>3. PICK n \in T : \A m \in T : n <= m
  BY <1>1, <1>2, Least
<1>4. PICK Q \in SUBSET S : Cardinality(Q) = n /\ Free(Q)
  BY <1>1
<1>5. PICK x \in Q : x \in Nat
  <2>1. 0 \in Nat
    OBVIOUS
  <2>. QED
    BY <1>4, <2>1
<1>6. IsFiniteSet(Q) /\ n \in Nat
  BY <1>1, <1>4, FS_Subset
<1>7. Cardinality(Q \ {x}) = n - 1 /\ Cardinality(Q \ {x}) \in Nat
  BY <1>4, <1>5, <1>6, FS_RemoveElement, FS_CardinalityType
<1>8. ~Free(Q \ {x})
  <2>1. n - 1 \notin T
    BY <1>3, <1>6
  <2>. QED
    BY <1>1, <1>7, <2>1
<1>9. PICK N \in Nat : \A y \in Q \ {x} : y <= N
  BY <1>8
<1>10. PICK M \in Nat : N <= M /\ x <= M
  <2>1. CASE x <= N
    BY <2>1
  <2>2. CASE ~(x <= N)
    BY <1>5, <2>2
  <2>. QED
    BY <2>1, <2>2
<1>11. \A y \in Q : y <= M
  <2>. SUFFICES ASSUME NEW y \in Q PROVE y <= M
    OBVIOUS
  <2>1. y \in Nat
    BY <1>4
  <2>. QED
    BY <1>9, <1>10, <2>1
<1>. QED
  BY <1>4, <1>11

Below(P, i) == {g \in P : g <= i}

LEMMA BelowFinite ==
  ASSUME NEW P, IsFiniteSet(P), NEW i
  PROVE  /\ IsFiniteSet(Below(P, i)) /\ Cardinality(Below(P, i)) \in Nat
         /\ Cardinality(P) \in Nat /\ Cardinality(Below(P, i)) <= Cardinality(P)
<1>1. Below(P, i) \in SUBSET P
  BY DEF Below
<1>. QED
  BY <1>1, FS_Subset, FS_CardinalityType

LEMMA NextPlace ==
  ASSUME NEW P, \A g \in P : g \in Nat, IsFiniteSet(P), NEW m \in Nat, m < Cardinality(P)
  PROVE  \E f \in P : Cardinality(Below(P, f)) = m + 1
<1>0. \A i : Cardinality(Below(P, i)) \in Nat
  BY BelowFinite
<1>1. PICK N \in Nat : \A x \in P : x <= N
  BY Bounded
<1>2. PICK T : T = {i \in Nat : m < Cardinality(Below(P, i))}
  OBVIOUS
<1>3. N \in T
  <2>1. Below(P, N) = P
    BY <1>1 DEF Below
  <2>. QED
    BY <1>2, <2>1
<1>4. PICK i \in T : \A j \in T : i <= j
  BY <1>2, <1>3, Least
<1>5. i \in Nat /\ m < Cardinality(Below(P, i))
  BY <1>2
<1>6. PICK Q : Q = {g \in P : g < i}
  OBVIOUS
<1>7. IsFiniteSet(Q) /\ Cardinality(Q) \in Nat /\ i \notin Q
  <2>1. Q \in SUBSET P /\ i \notin Q
    BY <1>5, <1>6
  <2>. QED
    BY <2>1, FS_Subset, FS_CardinalityType
<1>8. Cardinality(Q) <= m
  <2>1. CASE i = 0
    <3>1. Q = {}
      BY <1>6, <2>1
    <3>. QED
      BY <3>1, FS_EmptySet
  <2>2. CASE i # 0
    <3>1. Q = Below(P, i - 1)
      BY <1>5, <1>6, <2>2 DEF Below
    <3>2. i - 1 \in Nat /\ i - 1 \notin T
      BY <1>4, <1>5, <2>2
    <3>3. ~(m < Cardinality(Below(P, i - 1)))
      BY <1>2, <3>2
    <3>. QED
      BY <1>7, <3>1, <3>3
  <2>. QED
    BY <2>1, <2>2
<1>9. CASE i \in P
  <2>a. \A g \in P : g <= i <=> g < i \/ g = i
    BY <1>5
  <2>b. i <= i
    BY <1>5
  <2>1. Below(P, i) = Q \cup {i}
    BY <1>6, <1>9, <2>a, <2>b, Zenon DEF Below
  <2>2. Cardinality(Below(P, i)) = Cardinality(Q) + 1
    BY <1>7, <2>1, FS_AddElement
  <2>3. Cardinality(Below(P, i)) = m + 1
    BY <1>5, <1>7, <1>8, <2>2
  <2>. QED
    BY <1>9, <2>3
<1>10. CASE i \notin P
  <2>1. Below(P, i) = Q
    BY <1>5, <1>6, <1>10 DEF Below
  <2>. QED
    BY <1>5, <1>7, <1>8, <2>1
<1>. QED
  BY <1>9, <1>10

LEMMA PlaceRange ==
  /\ IsFiniteSet(Present) /\ Cardinality(Present) \in Nat
  /\ \A f \in Present : Place(f) \in 1..Cardinality(Present)
<1>1. Present \in SUBSET Faqs
  BY DEF Present
<1>2. IsFiniteSet(Present) /\ Cardinality(Present) \in Nat
  BY <1>1, ContentAssumption, FS_Subset, FS_CardinalityType
<1>3. ASSUME NEW f \in Present
      PROVE  Place(f) \in 1..Cardinality(Present)
  <2>1. Place(f) = Cardinality(Below(Present, f))
    BY DEF Place, Below
  <2>2. f \in Below(Present, f)
    BY <1>1, ContentAssumption DEF Below
  <2>3. Cardinality(Below(Present, f)) # 0
    BY <1>2, <2>2, BelowFinite, FS_EmptySet
  <2>4. /\ Cardinality(Below(Present, f)) \in Nat
        /\ Cardinality(Below(Present, f)) <= Cardinality(Present)
    BY <1>2, BelowFinite
  <2>. QED
    BY <1>2, <2>1, <2>3, <2>4
<1>. QED
  BY <1>2, <1>3

LEMMA RoundedUp ==
  ASSUME NEW c \in Nat, NEW s \in Nat \ {0}, NEW n \in Nat, n >= (c + s - 1) \div s
  PROVE  c <= n * s
<1>1. PICK d : d = (c + s - 1) \div s
  OBVIOUS
<1>2. c + s - 1 \in Nat
  OBVIOUS
<1>3. d \in Nat /\ c + s - 1 < (d + 1) * s
  BY <1>1, <1>2
<1>4. (d + 1) * s <= (n + 1) * s
  BY <1>1, <1>3
<1>5. (n + 1) * s = n * s + s /\ n * s \in Nat /\ (d + 1) * s \in Nat
  BY <1>3
<1>. QED
  BY <1>3, <1>4, <1>5

LEMMA Paged ==
  ASSUME NEW n \in Nat
  PROVE  /\ UpTo(0) = {}
         /\ UpTo(n + 1) = UpTo(n) \cup Page(n + 1)
         /\ Page(n + 1) = {} \/ n + 1 >= Pages => UpTo(n + 1) = Present
<1>. USE ContentAssumption
<1>0. /\ IsFiniteSet(Present) /\ Cardinality(Present) \in Nat
      /\ \A f \in Present : /\ Place(f) \in Nat /\ 1 <= Place(f)
                            /\ Place(f) <= Cardinality(Present)
  BY PlaceRange
<1>1. PICK a : a = n * PageSize
  OBVIOUS
<1>2. a \in Nat /\ (n + 1) * PageSize = a + PageSize /\ (n + 1 - 1) * PageSize = a
  BY <1>1
<1>3. UpTo(0) = {}
  <2>1. 0 * PageSize = 0
    OBVIOUS
  <2>. QED
    BY <1>0, <2>1 DEF UpTo
<1>4. UpTo(n + 1) = {f \in Present : Place(f) <= a + PageSize}
  BY <1>2 DEF UpTo
<1>5. Page(n + 1) = {f \in Present : a + 1 <= Place(f) /\ Place(f) <= a + PageSize}
  BY <1>0, <1>2 DEF Page
<1>6. UpTo(n) = {f \in Present : Place(f) <= a}
  BY <1>1 DEF UpTo
<1>7. UpTo(n + 1) = UpTo(n) \cup Page(n + 1)
  BY <1>0, <1>2, <1>4, <1>5, <1>6
<1>8. CASE n + 1 >= Pages
  <2>1. Cardinality(Present) <= (n + 1) * PageSize
    BY <1>0, <1>8, RoundedUp DEF Pages
  <2>2. \A f \in Present : Place(f) <= a + PageSize
    BY <1>0, <1>2, <2>1
  <2>3. UpTo(n + 1) = Present
    BY <1>4, <2>2
  <2>. QED
    BY <1>3, <1>7, <2>3
<1>9. CASE Page(n + 1) = {}
  <2>1. Cardinality(Present) <= a
    <3>. SUFFICES ASSUME a < Cardinality(Present) PROVE FALSE
      BY <1>0, <1>2
    <3>1. \A g \in Present : g \in Nat
      BY DEF Present
    <3>2. PICK f \in Present : Cardinality(Below(Present, f)) = a + 1
      BY <1>0, <1>2, <3>1, NextPlace
    <3>3. Place(f) = a + 1
      BY <3>2 DEF Place, Below
    <3>. QED
      BY <1>2, <1>5, <1>9, <3>3
  <2>2. \A f \in Present : Place(f) <= a + PageSize
    BY <1>0, <1>2, <2>1
  <2>3. UpTo(n + 1) = Present
    BY <1>4, <2>2
  <2>. QED
    BY <1>3, <1>7, <2>3
<1>. QED
  BY <1>3, <1>7, <1>8, <1>9

----------------------------------------------------------------------------
(* The processes.                                                          *)

LEMMA EmptyList == <<>> \in Lists /\ DOMAIN <<>> = {}
<1>1. <<>> \in [{} -> Texts] /\ DOMAIN <<>> = {}
  OBVIOUS
<1>2. {} \in SUBSET Faqs
  OBVIOUS
<1>. QED
  BY <1>1, <1>2 DEF Lists

LEMMA ListType ==
  ASSUME NEW l \in Lists
  PROVE  /\ DOMAIN l \in SUBSET Faqs
         /\ l = [f \in DOMAIN l |-> l[f]]
         /\ \A f \in DOMAIN l : l[f] \in Texts
<1>1. PICK S \in SUBSET Faqs : l \in [S -> Texts]
  BY DEF Lists
<1>2. DOMAIN l = S
  BY <1>1
<1>. QED
  BY <1>1, <1>2

LEMMA EnterEffect ==
  ASSUME Shape, NEW p \in Procs, NEW at \in Places \ {"encoding"}, Enter(p, at)
  PROVE  /\ proc' \in [Procs -> ProcRecord]
         /\ \A q \in Procs \ {p} : proc'[q] = proc[q]
         /\ proc'[p] = Fresh(at)
         /\ \A q \in Procs : /\ proc'[q].batch # {} <=> proc'[q].at = "encoding"
                             /\ proc'[q].batch \subseteq (DOMAIN emb) \X Texts
<1>1. Fresh(at) \in ProcRecord
  BY EmptyList DEF Fresh, ProcRecord
<1>3. /\ proc' \in [Procs -> ProcRecord]
      /\ \A q \in Procs \ {p} : proc'[q] = proc[q]
      /\ proc'[p] = Fresh(at)
  BY <1>1 DEF Enter, Shape
<1>4. ASSUME NEW q \in Procs
      PROVE  /\ proc'[q].batch # {} <=> proc'[q].at = "encoding"
             /\ proc'[q].batch \subseteq (DOMAIN emb) \X Texts
  <2>1. CASE q = p
    BY <1>3, <2>1 DEF Fresh
  <2>2. CASE q # p
    BY <1>3, <2>2 DEF Shape
  <2>. QED
    BY <2>1, <2>2
<1>. QED
  BY <1>3, <1>4

\* The lock goes to a job or to nobody.
LEMMA LockType ==
  ASSUME Shape, NEW p \in Procs, Acquire(p) \/ Release(p)
  PROVE  holder' \in Jobs \cup {NoProc}
BY DEF Shape, Acquire, Release

----------------------------------------------------------------------------
(* The rows.                                                               *)

\* A row whose columns hang together.
Sound(e) ==
  /\ e \in EmbRow
  /\ e.vector \in {None, e.hash}
  /\ e.status = "completed" => e.attempts = 0

LEMMA SoundRows ==
  ASSUME ContentInv
  PROVE  \A f \in DOMAIN emb : Sound(emb[f])
BY DEF ContentInv, Shape, Tables, VectorMatchesHash, Unspent, Sound

LEMMA RowsSound ==
  ASSUME DOMAIN emb' = DOMAIN copy', emb' = [f \in DOMAIN emb' |-> emb'[f]],
         \A f \in DOMAIN emb' : Sound(emb'[f])
  PROVE  emb' \in [DOMAIN copy' -> EmbRow] /\ VectorMatchesHash' /\ Unspent'
BY DEF VectorMatchesHash, Unspent, Sound

LEMMA RowChange ==
  ASSUME NEW e, Sound(e), NEW s \in {"pending", "processing", "failed"},
         NEW n \in 0..MaxRetries
  PROVE  Sound([e EXCEPT !.status = s, !.attempts = n]) /\ Sound([e EXCEPT !.status = s])
<1>0. e \in EmbRow /\ e.vector \in {None, e.hash}
  BY DEF Sound
<1>1. PICK d : d = [e EXCEPT !.status = s, !.attempts = n]
  OBVIOUS
<1>2. /\ d \in EmbRow
      /\ d.hash = e.hash /\ d.vector = e.vector /\ d.status = s
  BY <1>0, <1>1 DEF EmbRow
<1>3. PICK c : c = [e EXCEPT !.status = s]
  OBVIOUS
<1>4. /\ c \in EmbRow
      /\ c.hash = e.hash /\ c.vector = e.vector /\ c.status = s
  BY <1>0, <1>3 DEF EmbRow
<1>5. Sound(d) /\ Sound(c)
  BY <1>0, <1>2, <1>4 DEF Sound
<1>. QED
  BY <1>1, <1>3, <1>5

LEMMA NewRow ==
  ASSUME NEW t \in Texts
  PROVE  /\ Sound([hash |-> t, vector |-> t, status |-> "completed", attempts |-> 0])
         /\ Sound([hash |-> t, vector |-> None, status |-> "pending", attempts |-> 0])
<1>1. 0 \in 0..MaxRetries
  BY ContentAssumption
<1>. QED
  BY <1>1 DEF Sound, EmbRow

\* A step of one process leaves what the others hold, and Strapi, alone.
LEMMA ListingKept ==
  ASSUME ContentInv, NEW p \in Procs, cms' = cms, edited \ {p} \subseteq edited',
         \A q \in Procs \ {p} : proc'[q] = proc[q],
         p \in Jobs \ edited' => Listing(p)'
  PROVE  \A q \in Jobs \ edited' : Listing(q)'
<1>. SUFFICES ASSUME NEW q \in Jobs \ edited' PROVE Listing(q)'
  OBVIOUS
<1>1. CASE q = p
  BY <1>1
<1>2. CASE q # p
  <2>1. q \in Procs \ {p} /\ q \in Jobs \ edited
    BY <1>2 DEF Procs
  <2>2. Listing(q) /\ proc'[q] = proc[q]
    BY <2>1 DEF ContentInv
  <2>. QED
    BY <2>2 DEF Listing, UpTo, Present, Place
<1>. QED
  BY <1>1, <1>2

LEMMA Elsewhere ==
  ASSUME NEW p, proc'[p].at \notin {"listing", "listed"}
  PROVE  Listing(p)'
BY DEF Listing

----------------------------------------------------------------------------
(* The invariant.                                                          *)

LEMMA ContentInit == Init => ContentInv
<1>. SUFFICES ASSUME Init PROVE ContentInv
  OBVIOUS
<1>1. copy \in [{} -> CopyRow] /\ emb \in [{} -> EmbRow]
  BY DEF Init
<1>2. DOMAIN copy = {} /\ DOMAIN emb = {}
  BY <1>1
<1>3. Tables
  BY <1>1, <1>2 DEF Tables
<1>4. Idle \in ProcRecord /\ Idle.batch = {} /\ Idle.at = "idle"
  BY EmptyList DEF Idle, Fresh, ProcRecord, Places
<1>5. /\ proc \in [Procs -> ProcRecord]
      /\ \A p \in Procs : proc[p] = Idle
  BY <1>4 DEF Init
<1>6. Shape
  BY <1>3, <1>4, <1>5 DEF Init, Shape
<1>7. \A p \in Jobs : Listing(p)
  BY <1>4, <1>5 DEF Listing, Procs
<1>. QED
  BY <1>2, <1>6, <1>7 DEF ContentInv, VectorMatchesHash, Unspent

LEMMA EditInv ==
  ASSUME ContentInv, NEW f \in Faqs, NEW t \in Texts \cup {None}, Edit(f, t)
  PROVE  ContentInv'
<1>1. Shape'
  BY DEF Edit, ContentInv, Shape, Tables
<1>2. VectorMatchesHash' /\ Unspent'
  BY DEF Edit, ContentInv, VectorMatchesHash, Unspent
<1>3. ASSUME NEW p \in Jobs \ edited'
      PROVE  Listing(p)'
  <2>1. proc'[p].at \notin {"listing", "listed"}
    BY <1>3 DEF Edit
  <2>. QED
    BY <2>1, Elsewhere
<1>. QED
  BY <1>1, <1>2, <1>3 DEF ContentInv

\* Begin or end of a task.
LEMMA EnterInv ==
  ASSUME ContentInv, NEW p \in Procs, NEW at \in {"idle", "listing", "embedding"},
         Enter(p, at), Acquire(p) \/ Release(p),
         edited \ {p} \subseteq edited', UNCHANGED <<cms, copy, emb>>
  PROVE  ContentInv'
<1>0. Shape
  BY DEF ContentInv
<1>1. at \in Places \ {"encoding"}
  BY DEF Places
<1>2. /\ proc' \in [Procs -> ProcRecord]
      /\ \A q \in Procs \ {p} : proc'[q] = proc[q]
      /\ proc'[p] = Fresh(at)
      /\ \A q \in Procs : /\ proc'[q].batch # {} <=> proc'[q].at = "encoding"
                          /\ proc'[q].batch \subseteq (DOMAIN emb) \X Texts
  BY <1>0, <1>1, EnterEffect
<1>3. Shape'
  BY <1>0, <1>2, LockType DEF Shape, Tables
<1>4. Listing(p)'
  <2>1. UpTo(0)' = {}
    <3>1. UpTo(0) = {}
      BY Paged
    <3>. QED
      BY <3>1 DEF UpTo, Present, Place
  <2>2. proc'[p].page = 0 /\ DOMAIN proc'[p].listed = {} /\ proc'[p].at # "listed"
    BY <1>2, EmptyList DEF Fresh
  <2>. QED
    BY <2>1, <2>2 DEF Listing
<1>5. \A q \in Jobs \ edited' : Listing(q)'
  BY <1>2, <1>4, ListingKept
<1>. QED
  BY <1>3, <1>5 DEF ContentInv, VectorMatchesHash, Unspent

LEMMA ListPageInv ==
  ASSUME ContentInv, NEW p \in Procs, ListPage(p)
  PROVE  ContentInv'
<1>0. Shape /\ proc[p] \in ProcRecord /\ proc[p].at = "listing"
  BY DEF ContentInv, Shape, ListPage
<1>1. PICK n, got, last, l :
        /\ n = proc[p].page + 1 /\ got = Page(n)
        /\ last = (got = {} \/ n >= Pages)
        /\ l = [f \in DOMAIN proc[p].listed \cup got |->
                  IF f \in got THEN cms[f] ELSE proc[p].listed[f]]
  OBVIOUS
<1>2. n \in Nat /\ proc[p].page \in Nat /\ proc[p].listed \in Lists
  BY <1>0, <1>1 DEF ProcRecord
<1>3. got \subseteq Present /\ \A f \in got : f \in Faqs /\ cms[f] \in Texts
  BY <1>0, <1>1 DEF Page, Present, Shape
<1>4. l \in Lists
  <2>1. DOMAIN proc[p].listed \cup got \in SUBSET Faqs
    BY <1>2, <1>3, ListType
  <2>2. l \in [DOMAIN proc[p].listed \cup got -> Texts]
    BY <1>1, <1>2, <1>3, ListType
  <2>. QED
    BY <2>1, <2>2 DEF Lists
<1>5. proc' = [proc EXCEPT ![p].page = IF last THEN 0 ELSE n,
                           ![p].listed = l,
                           ![p].at = IF last THEN "listed" ELSE @]
  BY <1>1 DEF ListPage
<1>6. /\ proc'[p] \in ProcRecord
      /\ proc'[p].page = IF last THEN 0 ELSE n
      /\ proc'[p].listed = l
      /\ proc'[p].at = IF last THEN "listed" ELSE "listing"
      /\ proc'[p].batch = proc[p].batch
      /\ \A q \in Procs \ {p} : proc'[q] = proc[q]
      /\ proc' = [q \in Procs |-> proc'[q]]
  BY <1>0, <1>2, <1>4, <1>5 DEF Shape, ProcRecord, Places
<1>7. Shape'
  <2>1. proc' \in [Procs -> ProcRecord]
    BY <1>0, <1>6 DEF Shape
  <2>2. ASSUME NEW q \in Procs
        PROVE  /\ proc'[q].batch # {} <=> proc'[q].at = "encoding"
               /\ proc'[q].batch \subseteq (DOMAIN emb) \X Texts
    <3>1. CASE q = p
      BY <1>0, <1>6, <3>1 DEF Shape
    <3>2. CASE q # p
      BY <1>0, <1>6, <3>2 DEF Shape
    <3>. QED
      BY <3>1, <3>2
  <2>. QED
    BY <1>0, <2>1, <2>2 DEF ListPage, Shape, Tables
<1>8. ASSUME p \in Jobs \ edited'
      PROVE  Listing(p)'
  <2>1. Listing(p) /\ cms' = cms
    BY <1>8 DEF ContentInv, ListPage
  <2>2. /\ DOMAIN proc[p].listed = UpTo(proc[p].page)
        /\ \A f \in DOMAIN proc[p].listed : proc[p].listed[f] = cms[f]
    BY <1>0, <2>1 DEF Listing
  <2>3. UpTo(n) = UpTo(proc[p].page) \cup got /\ (last => UpTo(n) = Present)
    BY <1>1, <1>2, Paged
  <2>4. DOMAIN l = UpTo(n) /\ \A f \in DOMAIN l : l[f] = cms[f]
    BY <1>1, <2>2, <2>3
  <2>5. UpTo(n)' = UpTo(n) /\ Present' = Present
    BY <2>1 DEF UpTo, Present, Place
  <2>6. CASE last
    BY <1>6, <2>1, <2>3, <2>4, <2>5, <2>6 DEF Listing
  <2>7. CASE ~last
    <3>1. proc'[p].at = "listing" /\ proc'[p].page = n
      BY <1>6, <2>7
    <3>2. UpTo(proc[p].page)' = UpTo(n)'
      BY <3>1
    <3>. QED
      BY <1>6, <2>1, <2>4, <2>5, <3>1, <3>2 DEF Listing
  <2>. QED
    BY <2>6, <2>7
<1>9. \A q \in Jobs \ edited' : Listing(q)'
  BY <1>6, <1>8, ListingKept DEF ListPage
<1>. QED
  BY <1>7, <1>9 DEF ListPage, ContentInv, VectorMatchesHash, Unspent

LEMMA CommitSyncInv ==
  ASSUME ContentInv, NEW p \in Procs, CommitSync(p)
  PROVE  ContentInv'
<1>0. Shape /\ proc[p] \in ProcRecord
  BY DEF ContentInv, Shape
<1>1. PICK got, ids : got = DOMAIN proc[p].listed /\ ids = DOMAIN copy \cup got
  OBVIOUS
<1>2. ids \subseteq Faqs /\ \A f \in got : proc[p].listed[f] \in Texts
  BY <1>0, <1>1, ListType DEF Shape, Tables, ProcRecord
<1>3. /\ copy' = [f \in ids |->
           IF f \in got THEN [text |-> proc[p].listed[f], deleted |-> FALSE]
           ELSE [copy[f] EXCEPT !.deleted = @ \/ Missing(p, f)]]
      /\ emb' = [f \in ids |-> IF f \in got THEN Imported(p, f) ELSE emb[f]]
      /\ Enter(p, "idle") /\ Release(p) /\ cms' = cms /\ edited' = edited \ {p}
  BY <1>1 DEF CommitSync
<1>4. DOMAIN copy' = ids /\ DOMAIN emb' = ids /\ emb' = [f \in DOMAIN emb' |-> emb'[f]]
  BY <1>3
<1>5. copy' \in [ids -> CopyRow]
  <2>. SUFFICES ASSUME NEW f \in ids PROVE copy'[f] \in CopyRow
    BY <1>3
  <2>1. CASE f \in got
    BY <1>2, <1>3, <2>1 DEF CopyRow
  <2>2. CASE f \notin got
    <3>1. copy[f] \in CopyRow
      BY <1>0, <1>1, <2>2 DEF Shape, Tables
    <3>2. copy'[f] = [copy[f] EXCEPT !.deleted = @ \/ Missing(p, f)]
      BY <1>3, <2>2
    <3>3. (copy[f].deleted \/ Missing(p, f)) \in BOOLEAN
      BY DEF Missing
    <3>. QED
      BY <3>1, <3>2, <3>3 DEF CopyRow
  <2>. QED
    BY <2>1, <2>2
<1>6. \A f \in DOMAIN emb' : Sound(emb'[f])
  <2>. SUFFICES ASSUME NEW f \in ids PROVE Sound(emb'[f])
    BY <1>4
  <2>1. CASE f \notin got \/ (f \in DOMAIN emb /\ emb[f].hash = proc[p].listed[f])
    <3>1. f \in DOMAIN emb
      BY <1>0, <1>1, <2>1 DEF Shape, Tables
    <3>2. emb'[f] = emb[f]
      BY <1>3, <2>1 DEF Imported
    <3>. QED
      BY <3>1, <3>2, SoundRows
  <2>2. CASE f \in got /\ ~(f \in DOMAIN emb /\ emb[f].hash = proc[p].listed[f])
    BY <1>2, <1>3, <2>2, NewRow DEF Imported
  <2>. QED
    BY <2>1, <2>2
<1>7. emb' \in [DOMAIN copy' -> EmbRow] /\ VectorMatchesHash' /\ Unspent'
  BY <1>4, <1>6, RowsSound
<1>8. Tables'
  BY <1>2, <1>4, <1>5, <1>7 DEF Tables
<1>9. /\ proc' \in [Procs -> ProcRecord]
      /\ \A q \in Procs \ {p} : proc'[q] = proc[q]
      /\ proc'[p] = Fresh("idle")
      /\ \A q \in Procs : /\ proc'[q].batch # {} <=> proc'[q].at = "encoding"
                          /\ proc'[q].batch \subseteq (DOMAIN emb) \X Texts
  BY <1>0, <1>3, EnterEffect DEF Places
<1>10. DOMAIN emb \subseteq DOMAIN emb'
  BY <1>0, <1>1, <1>4 DEF Shape, Tables
<1>11. Shape'
  <2>1. \A q \in Procs : proc'[q].batch \subseteq (DOMAIN emb') \X Texts
    BY <1>9, <1>10
  <2>2. holder' \in Jobs \cup {NoProc}
    BY <1>0, <1>3, LockType
  <2>. QED
    BY <1>0, <1>3, <1>8, <1>9, <2>1, <2>2 DEF Shape
<1>12. Listing(p)'
  BY <1>9, Elsewhere DEF Fresh
<1>13. \A q \in Jobs \ edited' : Listing(q)'
  BY <1>3, <1>9, <1>12, ListingKept
<1>. QED
  BY <1>7, <1>11, <1>13 DEF ContentInv

(* A step of an embedding run: it rewrites rows, and holds a batch or not. *)
LEMMA EmbedInv ==
  ASSUME ContentInv, NEW p \in Procs, NEW at \in {"embedding", "encoding"},
         NEW batch \in SUBSET ((DOMAIN emb) \X Texts), batch # {} <=> at = "encoding",
         proc' = [proc EXCEPT ![p].at = at, ![p].batch = batch],
         DOMAIN emb' = DOMAIN emb, emb' = [f \in DOMAIN emb |-> emb'[f]],
         \A f \in DOMAIN emb : Sound(emb'[f]),
         UNCHANGED <<cms, copy, edited, holder>>
  PROVE  ContentInv'
<1>0. Shape /\ proc[p] \in ProcRecord /\ DOMAIN emb = DOMAIN copy /\ DOMAIN copy \subseteq Faqs
  BY DEF ContentInv, Shape, Tables
<1>1. /\ proc'[p] \in ProcRecord
      /\ proc'[p].at = at /\ proc'[p].batch = batch
      /\ \A q \in Procs \ {p} : proc'[q] = proc[q]
      /\ proc' = [q \in Procs |-> proc'[q]]
  <2>1. batch \in SUBSET (Faqs \X Texts)
    BY <1>0
  <2>. QED
    BY <1>0, <2>1 DEF Shape, ProcRecord, Places
<1>2. emb' \in [DOMAIN copy' -> EmbRow] /\ VectorMatchesHash' /\ Unspent'
  BY <1>0, RowsSound
<1>3. Shape'
  <2>1. proc' \in [Procs -> ProcRecord]
    BY <1>0, <1>1 DEF Shape
  <2>2. ASSUME NEW q \in Procs
        PROVE  /\ proc'[q].batch # {} <=> proc'[q].at = "encoding"
               /\ proc'[q].batch \subseteq (DOMAIN emb) \X Texts
    <3>1. CASE q = p
      BY <1>1, <3>1
    <3>2. CASE q # p
      BY <1>0, <1>1, <3>2 DEF Shape
    <3>. QED
      BY <3>1, <3>2
  <2>. QED
    BY <1>0, <1>2, <2>1, <2>2 DEF Shape, Tables
<1>4. Listing(p)'
  BY <1>1, Elsewhere
<1>5. \A q \in Jobs \ edited' : Listing(q)'
  BY <1>1, <1>4, ListingKept
<1>. QED
  BY <1>2, <1>3, <1>5 DEF ContentInv

LEMMA ResetFailedInv ==
  ASSUME ContentInv, NEW p \in Procs, ResetFailed(p)
  PROVE  ContentInv'
<1>0. Shape /\ DOMAIN emb = DOMAIN copy
  BY DEF ContentInv, Shape, Tables
<1>1. DOMAIN emb' = DOMAIN emb /\ emb' = [f \in DOMAIN emb' |-> emb'[f]]
  BY DEF ResetFailed
<1>2. ASSUME NEW f \in DOMAIN emb
      PROVE  Sound(emb'[f])
  <2>1. Sound(emb[f]) /\ 0 \in 0..MaxRetries
    BY SoundRows, ContentAssumption
  <2>2. \/ emb'[f] = [emb[f] EXCEPT !.status = "pending", !.attempts = 0]
        \/ emb'[f] = emb[f]
    BY DEF ResetFailed
  <2>3. Sound([emb[f] EXCEPT !.status = "pending", !.attempts = 0])
    BY <2>1, RowChange, Zenon
  <2>. QED
    BY <2>1, <2>2, <2>3
<1>3. emb' \in [DOMAIN copy' -> EmbRow] /\ VectorMatchesHash' /\ Unspent'
  BY <1>0, <1>1, <1>2, RowsSound DEF ResetFailed
<1>4. Shape'
  BY <1>0, <1>1, <1>3 DEF Shape, Tables, ResetFailed
<1>5. \A q \in Jobs \ edited' : Listing(q)'
  BY DEF ContentInv, ResetFailed, Listing, UpTo, Present, Place
<1>. QED
  BY <1>3, <1>4, <1>5 DEF ContentInv

LEMMA ClaimInv ==
  ASSUME ContentInv, NEW p \in Procs, Claim(p)
  PROVE  ContentInv'
<1>0. Shape /\ DOMAIN emb = DOMAIN copy
  BY DEF ContentInv, Shape, Tables
<1>1. PICK B \in SUBSET {f \in Faqs : Claimable(f)} :
        /\ Cardinality(B) \in 1..BatchSize
        /\ emb' = [f \in DOMAIN emb |->
             IF f \in B THEN [emb[f] EXCEPT !.status = "processing", !.attempts = @ + 1]
             ELSE emb[f]]
        /\ proc' = [proc EXCEPT ![p].at = "encoding",
                                ![p].batch = {<<f, copy[f].text>> : f \in B}]
  BY DEF Claim
<1>2. PICK batch : batch = {<<f, copy[f].text>> : f \in B}
  OBVIOUS
<1>3. \A f \in B : f \in DOMAIN copy /\ copy[f].text \in Texts /\ emb[f].attempts < MaxRetries
  BY <1>0, <1>1 DEF Claimable, Shown, Shape, Tables, CopyRow
<1>4. batch \in SUBSET ((DOMAIN emb) \X Texts)
  BY <1>0, <1>2, <1>3
<1>5. batch # {}
  <2>1. B # {}
    <3>a. BatchSize \in Nat /\ Cardinality(B) \in 1..BatchSize
      BY <1>1, ContentAssumption, Zenon
    <3>b. \A n \in Nat : 0 \notin 1..n
      OBVIOUS
    <3>1. Cardinality(B) # 0
      BY <3>a, <3>b, Zenon
    <3>. QED
      BY <3>1, FS_EmptySet, Zenon
  <2>. QED
    BY <1>2, <2>1
<1>6. ASSUME NEW f \in DOMAIN emb
      PROVE  Sound(emb'[f])
  <2>1. Sound(emb[f])
    BY SoundRows
  <2>2. CASE f \in B
    <3>1. PICK n : n = emb[f].attempts + 1
      OBVIOUS
    <3>2. n \in 0..MaxRetries
      BY <1>3, <2>1, <2>2, <3>1, ContentAssumption DEF Sound, EmbRow
    <3>3. emb'[f] = [emb[f] EXCEPT !.status = "processing", !.attempts = n]
      BY <1>1, <2>2, <3>1
    <3>4. Sound([emb[f] EXCEPT !.status = "processing", !.attempts = n])
      BY <2>1, <3>2, RowChange, Zenon
    <3>. QED
      BY <3>3, <3>4
  <2>3. CASE f \notin B
    BY <1>1, <2>1, <2>3
  <2>. QED
    BY <2>2, <2>3
<1>7. DOMAIN emb' = DOMAIN emb /\ emb' = [f \in DOMAIN emb |-> emb'[f]]
  BY <1>1
<1>8. proc' = [proc EXCEPT ![p].at = "encoding", ![p].batch = batch]
  BY <1>1, <1>2
<1>. QED
  BY <1>4, <1>5, <1>6, <1>7, <1>8, EmbedInv DEF Claim

LEMMA NextBatchInv ==
  ASSUME ContentInv, NEW p \in Procs, NextBatch(p),
         DOMAIN emb' = DOMAIN emb, emb' = [f \in DOMAIN emb |-> emb'[f]],
         \A f \in DOMAIN emb : Sound(emb'[f]),
         UNCHANGED <<cms, copy, edited, holder>>
  PROVE  ContentInv'
<1>1. PICK batch : batch = {}
  OBVIOUS
<1>2. proc' = [proc EXCEPT ![p].at = "embedding", ![p].batch = batch]
  BY <1>1 DEF NextBatch
<1>3. batch \in SUBSET ((DOMAIN emb) \X Texts) /\ ~(batch # {})
  BY <1>1
<1>. QED
  BY <1>2, <1>3, EmbedInv

LEMMA SaveVectorsInv ==
  ASSUME ContentInv, NEW p \in Procs, SaveVectors(p)
  PROVE  ContentInv'
<1>1. ASSUME NEW f \in DOMAIN emb
      PROVE  Sound(emb'[f])
  <2>1. CASE InBatch(p, f)
    <3>1. TextOf(p, f) \in Texts
      BY <2>1 DEF InBatch, TextOf
    <3>2. emb'[f] = [hash |-> TextOf(p, f), vector |-> TextOf(p, f),
                     status |-> "completed", attempts |-> 0]
      BY <2>1 DEF SaveVectors
    <3>. QED
      BY <3>1, <3>2, NewRow
  <2>2. CASE ~InBatch(p, f)
    BY <2>2, SoundRows DEF SaveVectors
  <2>. QED
    BY <2>1, <2>2
<1>2. DOMAIN emb' = DOMAIN emb /\ emb' = [f \in DOMAIN emb |-> emb'[f]]
  BY DEF SaveVectors
<1>. QED
  BY <1>1, <1>2, NextBatchInv DEF SaveVectors

LEMMA MarkFailedInv ==
  ASSUME ContentInv, NEW p \in Procs, MarkFailed(p)
  PROVE  ContentInv'
<1>1. ASSUME NEW f \in DOMAIN emb
      PROVE  Sound(emb'[f])
  <2>1. Sound(emb[f]) /\ 0 \in 0..MaxRetries
    BY SoundRows, ContentAssumption
  <2>2. emb'[f] = [emb[f] EXCEPT !.status = "failed"] \/ emb'[f] = emb[f]
    BY DEF MarkFailed
  <2>. QED
    BY <2>1, <2>2, RowChange
<1>2. DOMAIN emb' = DOMAIN emb /\ emb' = [f \in DOMAIN emb |-> emb'[f]]
  BY DEF MarkFailed
<1>. QED
  BY <1>1, <1>2, NextBatchInv DEF MarkFailed

LEMMA ContentNext ==
  ASSUME ContentInv, [Next]_vars
  PROVE  ContentInv'
<1>1. CASE UNCHANGED vars
  BY <1>1 DEF vars, ContentInv, Shape, Tables, VectorMatchesHash, Unspent, Listing,
              UpTo, Present, Place
<1>2. ASSUME NEW f \in Faqs, NEW t \in Texts \cup {None}, Edit(f, t)
      PROVE  ContentInv'
  BY <1>2, EditInv
<1>3. ASSUME NEW p \in Procs, StartSync(p) \/ StartEmbed(p) \/ EndEmbed(p) \/ Crash(p)
      PROVE  ContentInv'
  <2>1. /\ \E at \in {"idle", "listing", "embedding"} : Enter(p, at)
        /\ Acquire(p) \/ Release(p)
        /\ edited \ {p} \subseteq edited'
        /\ UNCHANGED <<cms, copy, emb>>
    BY <1>3 DEF StartSync, StartEmbed, EndEmbed, Crash
  <2>. QED
    BY <2>1, EnterInv
<1>4. ASSUME NEW p \in Jobs, LoseLock(p)
      PROVE  ContentInv'
  BY <1>4 DEF LoseLock, ContentInv, Shape, Tables, VectorMatchesHash, Unspent, Listing,
              UpTo, Present, Place
<1>. QED
  BY <1>1, <1>2, <1>3, <1>4, ListPageInv, CommitSyncInv, ResetFailedInv, ClaimInv,
     SaveVectorsInv, MarkFailedInv DEF Next

LEMMA ContentSafe == Spec => []ContentInv
BY ContentInit, ContentNext, PTL DEF Spec

----------------------------------------------------------------------------
(***************************************************************************)
(* Types, for every run of the code: the two tables always have the same   *)
(* rows, no row is tried more often than EMBEDDING_MAX_RETRIES, a process  *)
(* holds a batch exactly while it encodes.                                 *)
(***************************************************************************)
THEOREM ContentIsTyped == Spec => []TypeOK
<1>1. ContentInv => TypeOK
  <2>. SUFFICES ASSUME ContentInv PROVE TypeOK
    OBVIOUS
  <2>1. Shape /\ Tables
    BY DEF ContentInv, Shape
  <2>2. ASSUME NEW p \in Procs
        PROVE  /\ proc[p].at \in Places
               /\ proc[p].batch # {} <=> proc[p].at = "encoding"
               /\ \A x \in proc[p].batch : x[1] \in DOMAIN emb /\ x[2] \in Texts
    BY <2>1 DEF Shape, ProcRecord
  <2>3. /\ \A f \in DOMAIN copy : copy[f] \in CopyRow
        /\ \A f \in DOMAIN emb : emb[f] \in EmbRow
    BY <2>1 DEF Tables
  <2>. QED
    BY <2>1, <2>2, <2>3 DEF TypeOK, Shape, Tables, Places
<1>. QED
  BY <1>1, ContentSafe, PTL

(***************************************************************************)
(* A vector carries the hash of the text it was computed from, whichever   *)
(* order synchronisations, embedding runs and crashes come in.             *)
(***************************************************************************)
THEOREM VectorsMatch == Spec => []VectorMatchesHash
BY ContentSafe, PTL DEF ContentInv

(***************************************************************************)
(* A vector of an old text that search still finds is one that claim_jobs  *)
(* takes up again: the attempts of a finished row always start anew.       *)
(***************************************************************************)
THEOREM StaleVectorsPass == Spec => []StaleIsComputedAgain
<1>1. ContentInv => StaleIsComputedAgain
  <2>. SUFFICES ASSUME ContentInv, NEW f \in DOMAIN emb, Found(f),
                       emb[f].vector # copy[f].text
                PROVE  Claimable(f)
    BY DEF StaleIsComputedAgain
  <2>1. Sound(emb[f])
    BY SoundRows
  <2>2. emb[f].hash # copy[f].text /\ emb[f].attempts = 0
    BY <2>1 DEF Sound, Found
  <2>. QED
    BY <2>2, ContentAssumption DEF Claimable, Found
<1>. QED
  BY <1>1, ContentSafe, PTL

(***************************************************************************)
(* A synchronisation job that nobody disturbed leaves a copy that shows    *)
(* exactly what Strapi has: no page is left out (StrapiClient.list), what  *)
(* is gone is marked deleted, what is back is shown again.                 *)
(***************************************************************************)
THEOREM QuietJobsMirror == Spec => QuietSyncMirrors
<1>. DEFINE Mirrored ==
       \A p \in Jobs :
         (proc[p].at = "listed" /\ proc'[p].at = "idle" /\ copy' # copy /\ p \notin edited)
         => \A f \in Faqs : IF cms[f] = None THEN f \in DOMAIN copy => copy'[f].deleted
                            ELSE f \in DOMAIN copy' /\ ~copy'[f].deleted /\ copy'[f].text = cms[f]
<1>1. ASSUME ContentInv, [Next]_vars, NEW p \in Jobs, proc[p].at = "listed",
             proc'[p].at = "idle", copy' # copy, p \notin edited, NEW f \in Faqs
      PROVE  IF cms[f] = None THEN f \in DOMAIN copy => copy'[f].deleted
             ELSE f \in DOMAIN copy' /\ ~copy'[f].deleted /\ copy'[f].text = cms[f]
  <2>0. p \in Procs /\ Shape /\ Listing(p)
    BY <1>1 DEF Procs, ContentInv
  <2>1. PICK q \in Procs : CommitSync(q)
    BY <1>1 DEF Next, vars, Edit, StartSync, ListPage, StartEmbed, ResetFailed, Claim,
                SaveVectors, MarkFailed, EndEmbed, Crash, LoseLock
  <2>2. q = p
    <3>. SUFFICES ASSUME q # p PROVE FALSE
      OBVIOUS
    <3>1. proc'[p] = proc[p]
      BY <2>0, <2>1, EnterEffect DEF CommitSync, Places
    <3>. QED
      BY <1>1, <3>1
  <2>3. /\ DOMAIN proc[p].listed = Present
        /\ \A g \in Present : proc[p].listed[g] = cms[g]
    BY <1>1, <2>0 DEF Listing
  <2>4. copy' = [g \in DOMAIN copy \cup Present |->
                   IF g \in Present THEN [text |-> cms[g], deleted |-> FALSE]
                   ELSE [copy[g] EXCEPT !.deleted = @ \/ Missing(p, g)]]
    BY <2>1, <2>2, <2>3 DEF CommitSync
  <2>5. CASE cms[f] = None
    <3>. SUFFICES ASSUME f \in DOMAIN copy PROVE copy'[f].deleted
      BY <2>5
    <3>1. f \notin Present /\ Missing(p, f)
      BY <1>1, <2>3, <2>5 DEF Present, Missing
    <3>2. copy[f] \in CopyRow
      BY <2>0 DEF Shape, Tables
    <3>3. copy'[f] = [copy[f] EXCEPT !.deleted = TRUE]
      BY <2>4, <3>1
    <3>. QED
      BY <3>2, <3>3 DEF CopyRow
  <2>6. CASE cms[f] # None
    <3>1. f \in Present
      BY <2>6 DEF Present
    <3>2. f \in DOMAIN copy' /\ copy'[f] = [text |-> cms[f], deleted |-> FALSE]
      BY <2>4, <3>1
    <3>. QED
      BY <2>6, <3>2
  <2>. QED
    BY <2>5, <2>6
<1>2. ContentInv /\ [Next]_vars => [Mirrored]_vars
  BY <1>1
<1>. QED
  BY <1>2, ContentSafe, PTL DEF Spec, QuietSyncMirrors
=============================================================================
