--------------------------- MODULE SharingProofs ---------------------------
(***************************************************************************)
(* Proofs about Sharing, for any agents, turns, jobs, facts and changes.   *)
(*                                                                         *)
(* The inductive invariant has three parts besides the types: what a       *)
(* document says of its owner agrees with where it is kept; what an actor  *)
(* has read of the governance was in force since it began; what a turn was *)
(* given passed the filter under just that governance.                     *)
(***************************************************************************)
EXTENDS Sharing, TLAPS

(* A document as it is kept under identity i.                              *)
Owned(d, i) ==
  /\ d.scope = i.scope /\ d.agent = i.agent
  /\ d.told = "private" => d.scope = "user_agent"
  /\ d.scope = "user_agent" => d.source = d.agent /\ d.agent # NoAgent

DocsOwned == \A i \in Identity : \A d \in docs[i] : Owned(d, i)

Acts(x) == actor[x].at # "idle"

(* Until its second query an actor takes sharing for unset.                *)
Informed ==
  \A x \in Actors : Acts(x) =>
    /\ share \in actor[x].shares
    /\ actor[x].share # "unset" => actor[x].share \in actor[x].shares
    /\ actor[x].public => actor[x].opened
    /\ actor[x].known /\ actor[x].private => actor[x].mode = "agent_private"

(* d passed the filter of an actor with the governance g.                  *)
Given(d, g) ==
  /\ CanRecall(d, g)
  /\ \E i \in Identity : Owned(d, i)

Filtered == \A x \in Actors : \A d \in actor[x].got : Given(d, actor[x])

(* Nothing is recalled before the governance has been read, and hits are   *)
(* only left in the middle of a recall.                                    *)
Ordered ==
  \A x \in Actors :
    /\ actor[x].at \in {"idle", "preferences"} => actor[x].got = {}
    /\ actor[x].hits # {} => actor[x].at = "recalling"

Targets ==
  \A x \in Actors : actor[x].at = "writing" =>
    /\ MayWrite(actor[x])
    /\ \E k \in Keys : actor[x].on = {MemoryUri(actor[x], k)}

SharingInv ==
  /\ TypeOK
  /\ DocsOwned
  /\ Informed
  /\ Filtered
  /\ Ordered
  /\ Targets

(* What FactsKeepTheirOwner asks of a step.                                *)
OwnersKept ==
  \A i \in Identity : \A d \in docs[i] :
    (\A e \in docs'[i] : e.source # d.source \/ e.value # d.value) =>
      /\ d.scope # "tenant_user"
      /\ d.scope = "user_agent" =>
           \E x \in Actors : actor[x].at = "writing" /\ actor[x].agent = d.source

-----------------------------------------------------------------------------
LEMMA ModeType ==
  ASSUME NEW p \in SUBSET Policy
  PROVE  ModeOf(p) \in Modes
BY DEF ModeOf, Policy, Modes

LEMMA IdleType == Idle \in Acting
BY SharingAssumption DEF Idle, Acting, Stages, Sources, Modes, Shares

LEMMA UriType ==
  ASSUME NEW g \in Acting, NEW k \in Keys
  PROVE  MemoryUri(g, k) \in Identity
BY DEF MemoryUri, Identity, WriteScopeFor, Scopes, Sources, Acting, Modes

(* The steps that leave docs, policy and share alone need only be looked   *)
(* at for the actor that takes them.                                       *)
LEMMA OneActor ==
  ASSUME SharingInv, NEW x \in Actors, NEW r \in Acting,
         actor' = [actor EXCEPT ![x] = r],
         UNCHANGED <<policy, share, docs, changes, writes>>,
         r.at # "idle" =>
           /\ share \in r.shares
           /\ r.share # "unset" => r.share \in r.shares
           /\ r.public => r.opened
           /\ r.known /\ r.private => r.mode = "agent_private",
         \A d \in r.got : Given(d, r),
         r.at \in {"idle", "preferences"} => r.got = {},
         r.hits # {} => r.at = "recalling",
         r.at = "writing" =>
           MayWrite(r) /\ \E k \in Keys : r.on = {MemoryUri(r, k)}
  PROVE  SharingInv' /\ OwnersKept
<1>1. /\ actor' \in [Actors -> Acting] /\ actor'[x] = r
      /\ \A y \in Actors : y # x => actor'[y] = actor[y]
  BY DEF SharingInv, TypeOK
<1>2. TypeOK'
  BY <1>1 DEF SharingInv, TypeOK
<1>3. DocsOwned'
  BY DEF SharingInv, DocsOwned
<1>4. Informed'
  BY <1>1 DEF SharingInv, Informed, Acts
<1>5. Filtered'
  BY <1>1 DEF SharingInv, Filtered
<1>6. Ordered'
  BY <1>1 DEF SharingInv, Ordered
<1>7. Targets'
  BY <1>1 DEF SharingInv, Targets
<1>8. OwnersKept
  BY DEF OwnersKept
<1>. QED
  BY <1>2, <1>3, <1>4, <1>5, <1>6, <1>7, <1>8 DEF SharingInv

LEMMA InitInv == Init => SharingInv
<1>1. SUFFICES ASSUME Init PROVE SharingInv
  OBVIOUS
<1>2. PICK v \in Values, K \in SUBSET Keys, T \in SUBSET Keys :
        docs = [i \in Identity |->
          IF i.agent = NoAgent /\ (\/ i.scope = "user_global" /\ i.key \in K
                                   \/ i.scope = "tenant_user" /\ i.key \in T)
          THEN {Imported(i.scope, i.key, v)} ELSE {}]
  BY <1>1 DEF Init
<1>3. \A i \in Identity : Imported(i.scope, i.key, v) \in Document
  BY DEF Identity, Imported, Document, Sources
<1>4. docs \in [Identity -> SUBSET Document]
  BY <1>2, <1>3
<1>5. actor \in [Actors -> Acting]
  BY <1>1, IdleType DEF Init
<1>6. TypeOK
  BY <1>1, <1>4, <1>5, SharingAssumption DEF Init, TypeOK
<1>7. DocsOwned
  BY <1>2 DEF DocsOwned, Owned, Imported
<1>8. \A x \in Actors : actor[x] = Idle
  BY <1>1 DEF Init
<1>. QED
  BY <1>6, <1>7, <1>8
  DEF SharingInv, Informed, Acts, Filtered, Ordered, Targets, Idle

(* A change of policy or preference adds to the history of every actor     *)
(* that is at work.                                                        *)
LEMMA GovernedInv ==
  ASSUME SharingInv, NEW p \in SUBSET Policy, NEW s \in Shares,
         policy' \in Policies, share' = s,
         See(p, s), changes' \in 0..MaxChanges, UNCHANGED <<docs, writes>>
  PROVE  SharingInv' /\ OwnersKept
<1>. USE DEF SharingInv
<1>1. actor' = [x \in Actors |->
        IF actor[x].at = "idle" THEN actor[x]
        ELSE [actor[x] EXCEPT !.shares = @ \cup {s},
                              !.private = @ /\ ModeOf(p) = "agent_private",
                              !.opened = @ \/ \E q \in p : q.public]]
  BY DEF See
<1>2. ASSUME NEW x \in Actors
      PROVE  /\ actor'[x] \in Acting
             /\ actor'[x].at = actor[x].at /\ actor'[x].agent = actor[x].agent
             /\ actor'[x].mode = actor[x].mode /\ actor'[x].share = actor[x].share
             /\ actor'[x].public = actor[x].public /\ actor'[x].got = actor[x].got
             /\ actor'[x].on = actor[x].on /\ actor'[x].hits = actor[x].hits
             /\ actor[x].shares \subseteq actor'[x].shares
             /\ actor[x].opened => actor'[x].opened
             /\ actor'[x].known = actor[x].known
             /\ actor'[x].private => actor[x].private
             /\ actor[x].at # "idle" => s \in actor'[x].shares
  <2>1. actor[x] \in Acting
    BY DEF TypeOK
  <2>2. (\E q \in p : q.public) \in BOOLEAN
    OBVIOUS
  <2>. QED
    BY <1>1, <2>1, <2>2 DEF Acting
<1>3. TypeOK'
  BY <1>1, <1>2 DEF TypeOK
<1>4. DocsOwned'
  BY DEF DocsOwned
<1>5. Informed'
  BY <1>2 DEF Informed, Acts
<1>6. Filtered'
  BY <1>2 DEF Filtered, Given, CanRecall, PublicAllowed, Shared
<1>7. Ordered'
  BY <1>2 DEF Ordered
<1>8. Targets'
  BY <1>2 DEF Targets, MayWrite, NotPrivateWithoutAgent, WriteScopeFor, MemoryUri
<1>9. OwnersKept
  BY DEF OwnersKept
<1>. QED
  BY <1>3, <1>4, <1>5, <1>6, <1>7, <1>8, <1>9

-----------------------------------------------------------------------------
(* The governance an actor reads.                                          *)
LEMMA BeganType ==
  ASSUME TypeOK, NEW a \in Sources
  PROVE  /\ Began(a) \in Acting
         /\ Began(a).got = {} /\ Began(a).hits = {} /\ Began(a).share = "unset"
         /\ Began(a).mode = "user_controlled" /\ Began(a).public = FALSE
         /\ Began(a).private = (ModeOf(policy) = "agent_private")
         /\ Began(a).known = FALSE
         /\ Began(a).shares = {share}
         /\ Began(a).opened = \E p \in policy : p.public
<1>1. PICK b \in BOOLEAN : b = \E p \in policy : p.public
  OBVIOUS
<1>2. Began(a) = [Idle EXCEPT !.agent = a, !.shares = {share},
                              !.private = ModeOf(policy) = "agent_private", !.opened = b]
  BY <1>1 DEF Began
<1>3. Began(a) = [at |-> "idle", agent |-> a, mode |-> "user_controlled",
                  public |-> FALSE, share |-> "unset", hits |-> {},
                  got |-> {}, on |-> {}, value |-> NoValue,
                  shares |-> {share}, private |-> ModeOf(policy) = "agent_private",
                  opened |-> b, known |-> FALSE]
  BY <1>2 DEF Idle
<1>. QED
  BY <1>1, <1>3 DEF Acting, TypeOK, Stages, Modes, Shares

LEMMA FetchPoliciesInv ==
  ASSUME SharingInv, NEW x \in Actors, NEW a \in Sources, FetchPolicies(x, a)
  PROVE  SharingInv' /\ OwnersKept
<1>1. PICK m, b : m = ModeOf(policy) /\ b = (\E p \in policy : p.public)
  OBVIOUS
<1>2. m \in Modes /\ b \in BOOLEAN
  BY <1>1, ModeType DEF SharingInv, TypeOK, Policies
<1>3. PICK r : r = [Began(a) EXCEPT !.at = "preferences", !.known = TRUE,
                                    !.mode = m, !.public = b]
  OBVIOUS
<1>4. actor' = [actor EXCEPT ![x] = r]
  BY <1>1, <1>3 DEF FetchPolicies
<1>5. /\ r \in Acting /\ r.at = "preferences" /\ r.got = {} /\ r.hits = {}
      /\ r.share = "unset" /\ r.shares = {share} /\ r.public = b /\ r.opened = b
      /\ r.mode = m /\ r.private = (m = "agent_private")
  <2>1. Began(a) \in Acting
    BY BeganType DEF SharingInv
  <2>2. r.opened = Began(a).opened /\ r.got = Began(a).got
        /\ r.hits = Began(a).hits /\ r.share = Began(a).share
        /\ r.shares = Began(a).shares /\ r.public = b /\ r.at = "preferences"
        /\ r.mode = m /\ r.private = Began(a).private
        /\ r \in Acting
    BY <1>2, <1>3, <2>1 DEF Acting, Stages
  <2>. QED
    BY <1>1, <2>2, BeganType DEF SharingInv
<1>. QED
  BY <1>4, <1>5, OneActor DEF FetchPolicies

LEMMA FetchPreferencesInv ==
  ASSUME SharingInv, NEW x \in Actors, FetchPreferences(x)
  PROVE  SharingInv' /\ OwnersKept
<1>1. PICK r : r = [actor[x] EXCEPT !.at = "ready", !.share = share]
  OBVIOUS
<1>2. /\ r \in Acting /\ r.at = "ready" /\ r.share = share
      /\ r.shares = actor[x].shares /\ r.got = actor[x].got
      /\ r.hits = actor[x].hits /\ r.public = actor[x].public /\ r.opened = actor[x].opened
      /\ r.known = actor[x].known /\ r.mode = actor[x].mode /\ r.private = actor[x].private
  BY <1>1 DEF SharingInv, TypeOK, Acting, Stages
<1>3. actor[x].got = {} /\ actor[x].hits = {} /\ share \in actor[x].shares
      /\ (actor[x].public => actor[x].opened)
      /\ (actor[x].known /\ actor[x].private => actor[x].mode = "agent_private")
  BY DEF FetchPreferences, SharingInv, Ordered, Informed, Acts
<1>. QED
  BY <1>1, <1>2, <1>3, OneActor DEF FetchPreferences

LEMMA FetchFailsInv ==
  ASSUME SharingInv, NEW x \in Actors, FetchFails(x)
  PROVE  SharingInv' /\ OwnersKept
<1>1. CASE actor[x].at = "idle"
  <2>1. PICK a \in Sources : actor' = [actor EXCEPT ![x] = WhatWasRead(Began(a))]
    BY <1>1 DEF FetchFails
  <2>2. /\ WhatWasRead(Began(a)) \in Acting
        /\ WhatWasRead(Began(a)).at = "ready"
        /\ WhatWasRead(Began(a)).got = {} /\ WhatWasRead(Began(a)).hits = {}
        /\ WhatWasRead(Began(a)).share = "unset"
        /\ WhatWasRead(Began(a)).shares = {share}
        /\ WhatWasRead(Began(a)).public = FALSE
        /\ WhatWasRead(Began(a)).known = FALSE
    <3>1. Began(a) \in Acting
      BY BeganType DEF SharingInv
    <3>. QED
      BY <3>1, BeganType DEF SharingInv, WhatWasRead, Acting, Stages
  <2>. QED
    BY <2>1, <2>2, OneActor DEF FetchFails
<1>2. CASE actor[x].at = "preferences"
  <2>1. actor' = [actor EXCEPT ![x] = WhatWasRead(actor[x])]
    BY <1>2 DEF FetchFails
  <2>2. /\ WhatWasRead(actor[x]) \in Acting
        /\ WhatWasRead(actor[x]).at = "ready"
        /\ WhatWasRead(actor[x]).got = actor[x].got
        /\ WhatWasRead(actor[x]).hits = actor[x].hits
        /\ WhatWasRead(actor[x]).share = actor[x].share
        /\ WhatWasRead(actor[x]).shares = actor[x].shares
        /\ WhatWasRead(actor[x]).public = actor[x].public
        /\ WhatWasRead(actor[x]).opened = actor[x].opened
        /\ WhatWasRead(actor[x]).known = actor[x].known
        /\ WhatWasRead(actor[x]).mode = actor[x].mode
        /\ WhatWasRead(actor[x]).private = actor[x].private
    BY DEF SharingInv, TypeOK, WhatWasRead, Acting, Stages
  <2>3. actor[x].got = {} /\ actor[x].hits = {}
    BY <1>2 DEF SharingInv, Ordered
  <2>4. /\ share \in actor[x].shares
        /\ actor[x].share # "unset" => actor[x].share \in actor[x].shares
        /\ actor[x].public => actor[x].opened
        /\ actor[x].known /\ actor[x].private => actor[x].mode = "agent_private"
    BY <1>2 DEF SharingInv, Informed, Acts
  <2>. QED
    BY <2>1, <2>2, <2>3, <2>4, OneActor DEF FetchFails
<1>. QED
  BY <1>1, <1>2 DEF FetchFails

(* An actor that keeps its governance keeps what it knows of it.           *)
SameGovernance(r, q) ==
  /\ r.agent = q.agent /\ r.mode = q.mode /\ r.public = q.public
  /\ r.share = q.share /\ r.shares = q.shares /\ r.opened = q.opened
  /\ r.known = q.known /\ r.private = q.private

LEMMA GoesOn ==
  ASSUME SharingInv, NEW x \in Actors, NEW r \in Acting,
         actor' = [actor EXCEPT ![x] = r],
         UNCHANGED <<policy, share, docs, changes, writes>>,
         SameGovernance(r, actor[x]), Acts(x),
         \A d \in r.got : d \in actor[x].got \/ Given(d, actor[x]),
         r.at = "recalling" \/
           (r.at = "writing" /\ r.hits = {} /\ MayWrite(actor[x]) /\
            \E k \in Keys : r.on = {MemoryUri(actor[x], k)})
  PROVE  SharingInv' /\ OwnersKept
<1>1. /\ share \in r.shares
      /\ r.share # "unset" => r.share \in r.shares
      /\ r.public => r.opened
      /\ r.known /\ r.private => r.mode = "agent_private"
  BY DEF SharingInv, Informed, SameGovernance
<1>2. \A d \in r.got : Given(d, actor[x])
  BY DEF SharingInv, Filtered
<1>3. ASSUME NEW d, Given(d, actor[x]) PROVE Given(d, r)
  BY <1>3 DEF Given, CanRecall, PublicAllowed, Shared, SameGovernance
<1>4. MayWrite(actor[x]) => MayWrite(r)
  BY DEF MayWrite, NotPrivateWithoutAgent, WriteScopeFor, SameGovernance
<1>5. ASSUME NEW k \in Keys PROVE MemoryUri(r, k) = MemoryUri(actor[x], k)
  BY DEF MemoryUri, WriteScopeFor, SameGovernance
<1>. QED
  BY <1>1, <1>2, <1>3, <1>4, <1>5, OneActor

LEMMA RecallInv ==
  ASSUME SharingInv, NEW x \in Actors,
         \/ Search(x)
         \/ \E i \in Identity : ReadHit(x, i)
         \/ RecallFails(x)
  PROVE  SharingInv' /\ OwnersKept
<1>0. actor[x] \in Acting
  BY DEF SharingInv, TypeOK
<1>1. CASE Search(x)
  <2>1. PICK r : r = [actor[x] EXCEPT !.at = "recalling", !.hits = Found]
    OBVIOUS
  <2>2. /\ r \in Acting /\ SameGovernance(r, actor[x])
        /\ r.at = "recalling" /\ r.got = actor[x].got
    BY <1>0, <2>1 DEF Acting, Stages, SameGovernance, Found
  <2>. QED
    BY <1>1, <2>1, <2>2, GoesOn DEF Search, Acts
<1>2. CASE \E i \in Identity : ReadHit(x, i)
  <2>1. PICK i \in Identity : ReadHit(x, i)
    BY <1>2
  <2>0. PICK found \in ReadItem(i) :
          actor' = [actor EXCEPT ![x] =
            [actor[x] EXCEPT !.hits = @ \ {i},
                      !.got = @ \cup {d \in found : /\ Visible(d, actor[x].agent)
                                                    /\ CanRecall(d, actor[x])}]]
    BY <2>1 DEF ReadHit
  <2>. DEFINE new == {d \in found : /\ Visible(d, actor[x].agent)
                                   /\ CanRecall(d, actor[x])}
              r == [actor[x] EXCEPT !.hits = @ \ {i}, !.got = @ \cup new]
  <2>2. actor' = [actor EXCEPT ![x] = r]
    BY <2>0
  <2>3. found \subseteq docs[i] /\ docs[i] \subseteq Document
    BY DEF ReadItem, SharingInv, TypeOK
  <2>4. \A d \in new : Given(d, actor[x])
    BY <2>3 DEF Given, SharingInv, DocsOwned
  <2>5. /\ r \in Acting /\ SameGovernance(r, actor[x]) /\ r.at = actor[x].at
        /\ r.got = actor[x].got \cup new
    <3>1. new \subseteq Document
      BY <2>3
    <3>2. actor[x].hits \ {i} \subseteq Identity /\ actor[x].got \cup new \subseteq Document
      BY <1>0, <3>1 DEF Acting
    <3>. HIDE DEF new
    <3>. QED
      BY <1>0, <3>2 DEF Acting, SameGovernance
  <2>6. actor[x].at = "recalling"
    BY <2>1 DEF ReadHit, SharingInv, Ordered
  <2>. QED
    <3>1. UNCHANGED <<policy, share, docs, changes, writes>> /\ Acts(x)
      BY <2>1, <2>6 DEF ReadHit, Acts
    <3>2. \A d \in r.got : d \in actor[x].got \/ Given(d, actor[x])
      BY <2>4, <2>5
    <3>. HIDE DEF r
    <3>. QED
      BY <2>2, <2>5, <2>6, <3>1, <3>2, GoesOn
<1>3. CASE RecallFails(x)
  <2>1. PICK r : r = [actor[x] EXCEPT !.at = "recalling", !.hits = {}, !.got = {}]
    OBVIOUS
  <2>2. /\ r \in Acting /\ SameGovernance(r, actor[x])
        /\ r.at = "recalling" /\ r.got = {}
    BY <1>0, <2>1 DEF Acting, Stages, SameGovernance
  <2>3. Acts(x)
    BY <1>3 DEF RecallFails, SharingInv, Ordered, Acts
  <2>. QED
    BY <1>3, <2>1, <2>2, <2>3, GoesOn DEF RecallFails
<1>. QED
  BY <1>1, <1>2, <1>3

LEMMA UriOwned ==
  ASSUME NEW g \in Acting, NEW k \in Keys, MayWrite(g)
  PROVE  /\ MemoryUri(g, k).scope # "tenant_user"
         /\ MemoryUri(g, k).scope = "user_agent" =>
              MemoryUri(g, k).agent = g.agent /\ g.agent # NoAgent
         /\ g.mode = "agent_private" => MemoryUri(g, k).scope = "user_agent"
<1>1. CASE g.mode = "tenant_required"
  BY <1>1 DEF MayWrite
<1>2. CASE g.mode = "agent_private"
  BY <1>2 DEF MayWrite, NotPrivateWithoutAgent, MemoryUri, WriteScopeFor
<1>3. CASE g.mode = "user_controlled"
  BY <1>3 DEF MayWrite, NotPrivateWithoutAgent, MemoryUri, WriteScopeFor
<1>. QED
  BY <1>1, <1>2, <1>3 DEF Acting, Modes

LEMMA ReadCurrentInv ==
  ASSUME SharingInv, NEW x \in Actors, NEW k \in Keys,
         NEW v \in Values \cup {NoValue}, ReadCurrent(x, k, v)
  PROVE  SharingInv' /\ OwnersKept
<1>1. PICK i, r : /\ i = MemoryUri(actor[x], k)
                  /\ r = [actor[x] EXCEPT !.at = "writing", !.on = {i}, !.value = v]
                  /\ actor' = [actor EXCEPT ![x] = r]
  BY DEF ReadCurrent
<1>2. actor[x] \in Acting /\ i \in Identity
  BY <1>1, UriType DEF SharingInv, TypeOK
<1>3. /\ r \in Acting /\ SameGovernance(r, actor[x]) /\ r.at = "writing"
      /\ r.got = actor[x].got /\ r.hits = actor[x].hits /\ r.on = {i}
  BY <1>1, <1>2 DEF Acting, Stages, SameGovernance
<1>4. Acts(x) /\ actor[x].hits = {} /\ MayWrite(actor[x])
  BY DEF ReadCurrent, Answering, Acts, SharingInv, Ordered
<1>. QED
  BY <1>1, <1>3, <1>4, GoesOn DEF ReadCurrent

(* The actor that has written, as OneActor asks.                           *)
LEMMA WrittenInv ==
  ASSUME SharingInv, NEW x \in Actors, actor[x].at = "writing", Written(x)
  PROVE  \E r \in Acting :
           /\ actor' = [actor EXCEPT ![x] = r]
           /\ r.at # "idle" =>
                /\ share \in r.shares
                /\ r.share # "unset" => r.share \in r.shares
                /\ r.public => r.opened
                /\ r.known /\ r.private => r.mode = "agent_private"
           /\ \A d \in r.got : Given(d, r)
           /\ r.at \in {"idle", "recalling"}
           /\ r.at = "idle" => r.got = {}
           /\ r.hits = {}
<1>0. actor[x] \in Acting
  BY DEF SharingInv, TypeOK
<1>1. CASE x \in Turns
  <2>1. PICK r : r = [actor[x] EXCEPT !.at = "recalling", !.on = {}, !.value = NoValue]
    OBVIOUS
  <2>2. /\ r \in Acting /\ SameGovernance(r, actor[x]) /\ r.at = "recalling"
        /\ r.got = actor[x].got /\ r.hits = actor[x].hits
    BY <1>0, <2>1 DEF Acting, Stages, SameGovernance
  <2>3. actor' = [actor EXCEPT ![x] = r]
    BY <1>1, <2>1 DEF Written
  <2>4. ASSUME NEW d, Given(d, actor[x]) PROVE Given(d, r)
    BY <2>2, <2>4 DEF Given, CanRecall, PublicAllowed, Shared, SameGovernance
  <2>5. \A d \in r.got : Given(d, r)
    BY <2>2, <2>4 DEF SharingInv, Filtered
  <2>6. actor[x].hits = {}
    BY DEF SharingInv, Ordered
  <2>7. /\ share \in r.shares
        /\ r.share # "unset" => r.share \in r.shares
        /\ r.public => r.opened
        /\ r.known /\ r.private => r.mode = "agent_private"
    BY <2>2 DEF SharingInv, Informed, Acts, SameGovernance
  <2>. QED
    BY <2>2, <2>3, <2>5, <2>6, <2>7
<1>2. CASE x \notin Turns
  BY <1>2, IdleType DEF Written, Idle
<1>. QED
  BY <1>1, <1>2

LEMMA WriteFailsInv ==
  ASSUME SharingInv, NEW x \in Actors, WriteFails(x)
  PROVE  SharingInv' /\ OwnersKept
BY WrittenInv, OneActor DEF WriteFails

LEMMA EndInv ==
  ASSUME SharingInv, NEW x \in Actors, End(x)
  PROVE  SharingInv' /\ OwnersKept
BY IdleType, OneActor DEF End, Idle

(* A write keeps the documents with their owners and takes none from       *)
(* another one.                                                            *)
LEMMA WriteInv ==
  ASSUME SharingInv, NEW x \in Actors, Write(x)
  PROVE  SharingInv' /\ OwnersKept
<1>0. actor[x] \in Acting
  BY DEF SharingInv, TypeOK
<1>1. PICK k \in Keys : actor[x].on = {MemoryUri(actor[x], k)}
  BY DEF Write, SharingInv, Targets
<1>2. MayWrite(actor[x])
  BY DEF Write, SharingInv, Targets
<1>3. Target(x) = MemoryUri(actor[x], k) /\ Target(x) \in Identity
  BY <1>0, <1>1, UriType DEF Target
<1>4. /\ Target(x).scope # "tenant_user"
      /\ Target(x).scope = "user_agent" =>
           Target(x).agent = actor[x].agent /\ actor[x].agent # NoAgent
      /\ actor[x].mode = "agent_private" => Target(x).scope = "user_agent"
  BY <1>0, <1>2, <1>3, UriOwned
<1>5. /\ docs' \in [Identity -> SUBSET Document]
      /\ \A i \in Identity : i # Target(x) => docs'[i] = docs[i]
      /\ docs'[Target(x)] = Stored(x)
  <2>1. Stored(x) \subseteq Document
    BY <1>0, <1>3 DEF Stored, NewDocument, Told, Document, Identity, Acting
  <2>. QED
    BY <1>3, <2>1 DEF Write, SharingInv, TypeOK
<1>5a. actor[x].known /\ actor[x].private => actor[x].mode = "agent_private"
  BY DEF Write, SharingInv, Informed, Acts
<1>6. \A d \in Stored(x) : Owned(d, Target(x))
  <2>1. NewDocument(x).told = "private" => actor[x].known /\ actor[x].private
    BY DEF NewDocument, Told
  <2>2. /\ NewDocument(x).scope = Target(x).scope /\ NewDocument(x).agent = Target(x).agent
        /\ NewDocument(x).source = actor[x].agent
    BY DEF NewDocument
  <2>3. Stored(x) \subseteq {NewDocument(x)}
    BY DEF Stored
  <2>. QED
    BY <1>4, <1>5a, <2>1, <2>2, <2>3 DEF Owned
<1>7. DocsOwned'
  BY <1>5, <1>6 DEF DocsOwned, SharingInv
<1>8. PICK r \in Acting :
        /\ actor' = [actor EXCEPT ![x] = r]
        /\ r.at # "idle" =>
             /\ share \in r.shares
             /\ r.share # "unset" => r.share \in r.shares
             /\ r.public => r.opened
             /\ r.known /\ r.private => r.mode = "agent_private"
        /\ \A d \in r.got : Given(d, r)
        /\ r.at \in {"idle", "recalling"}
        /\ r.at = "idle" => r.got = {}
        /\ r.hits = {}
  BY WrittenInv DEF Write
<1>9. /\ actor' \in [Actors -> Acting] /\ actor'[x] = r
      /\ \A y \in Actors : y # x => actor'[y] = actor[y]
  BY <1>8 DEF SharingInv, TypeOK
<1>10. writes' \in 0..MaxWrites
  BY SharingAssumption DEF Write, SharingInv, TypeOK
<1>11. TypeOK'
  BY <1>5, <1>9, <1>10 DEF Write, SharingInv, TypeOK
<1>12. Informed' /\ Filtered' /\ Ordered' /\ Targets'
  <2>1. UNCHANGED share
    BY DEF Write
  <2>2. Informed'
    BY <1>8, <1>9, <2>1 DEF SharingInv, Informed, Acts
  <2>3. Filtered'
    BY <1>8, <1>9 DEF SharingInv, Filtered
  <2>4. Ordered'
    BY <1>8, <1>9 DEF SharingInv, Ordered
  <2>5. Targets'
    BY <1>8, <1>9 DEF SharingInv, Targets
  <2>. QED
    BY <2>2, <2>3, <2>4, <2>5
<1>13. OwnersKept
  <2>1. SUFFICES ASSUME NEW i \in Identity, NEW d \in docs[i],
                        \A e \in docs'[i] : e.source # d.source \/ e.value # d.value
                 PROVE  /\ d.scope # "tenant_user"
                        /\ d.scope = "user_agent" =>
                             actor[x].at = "writing" /\ actor[x].agent = d.source
    BY DEF OwnersKept
  <2>2. i = Target(x)
    BY <1>5, <2>1
  <2>3. Owned(d, Target(x))
    BY <2>2 DEF SharingInv, DocsOwned
  <2>. QED
    BY <1>4, <2>3 DEF Owned, Write
<1>. QED
  BY <1>7, <1>11, <1>12, <1>13 DEF SharingInv

-----------------------------------------------------------------------------
LEMMA NextInv == SharingInv /\ [Next]_vars => SharingInv' /\ OwnersKept
<1>. SUFFICES ASSUME SharingInv, [Next]_vars PROVE SharingInv' /\ OwnersKept
  OBVIOUS
<1>0. changes < MaxChanges /\ changes' = changes + 1 => changes' \in 0..MaxChanges
  BY SharingAssumption DEF SharingInv, TypeOK
<1>1. CASE \E p \in Policy : SetPolicy(p)
  <2>1. PICK p \in Policy : SetPolicy(p)
    BY <1>1
  <2>2. policy' \in Policies /\ share \in Shares
    BY <2>1 DEF SetPolicy, UpsertPolicy, Policies, SharingInv, TypeOK
  <2>. QED
    BY <1>0, <2>1, <2>2, GovernedInv DEF SetPolicy, UpsertPolicy, Counted
<1>2. CASE \E s \in Shares \ {"unset"} : SetPreference(s)
  <2>1. PICK s \in Shares : SetPreference(s)
    BY <1>2
  <2>2. policy \in Policies /\ policy \in SUBSET Policy
    BY DEF SharingInv, TypeOK, Policies
  <2>. QED
    BY <1>0, <2>1, <2>2, GovernedInv DEF SetPreference, UpsertPreference, Counted
<1>3. CASE \E x \in Actors : Step(x)
  <2>1. PICK x \in Actors : Step(x)
    BY <1>3
  <2>2. CASE \E a \in Sources : FetchPolicies(x, a)
    BY <2>2, FetchPoliciesInv
  <2>3. CASE FetchPreferences(x) \/ FetchFails(x)
    BY <2>3, FetchPreferencesInv, FetchFailsInv
  <2>4. CASE Search(x) \/ (\E i \in Identity : ReadHit(x, i)) \/ RecallFails(x)
    BY <2>4, RecallInv
  <2>5. CASE \E k \in Keys, v \in Values \cup {NoValue} : ReadCurrent(x, k, v)
    BY <2>5, ReadCurrentInv
  <2>6. CASE Write(x) \/ WriteFails(x) \/ End(x)
    BY <2>6, WriteInv, WriteFailsInv, EndInv
  <2>. QED
    BY <2>1, <2>2, <2>3, <2>4, <2>5, <2>6 DEF Step
<1>4. CASE UNCHANGED vars
  <2>1. UNCHANGED <<policy, share, docs, actor, changes, writes>>
    BY <1>4 DEF vars
  <2>2. TypeOK' /\ DocsOwned' /\ Informed' /\ Filtered' /\ Ordered' /\ Targets'
    BY <2>1 DEF SharingInv, TypeOK, DocsOwned, Informed, Acts, Filtered, Ordered, Targets
  <2>. QED
    BY <2>1, <2>2 DEF SharingInv, OwnersKept
<1>. QED
  BY <1>1, <1>2, <1>3, <1>4 DEF Next

LEMMA Invariance == Spec => []SharingInv
BY InitInv, NextInv, PTL DEF Spec

(* Every state the specification reaches is one of its types: a document   *)
(* always has an owner and a value, and an actor a known stage.            *)
THEOREM TypeCorrect == Spec => []TypeOK
<1>1. SharingInv => TypeOK
  BY DEF SharingInv
<1>. QED
  BY <1>1, Invariance, PTL

(* What the user told one agent under agent_private, in a turn that had    *)
(* read the policy, reaches no other agent for any number of turns, jobs   *)
(* and changes of the governance.                                          *)
THEOREM PrivacyKept == Spec => []PrivateStaysPrivate
<1>1. ASSUME SharingInv PROVE PrivateStaysPrivate
  <2>1. SUFFICES ASSUME NEW x \in Turns, NEW d \in actor[x].got,
                        d.told = "private"
                 PROVE  d.source = actor[x].agent
    BY DEF PrivateStaysPrivate
  <2>2. x \in Actors /\ actor[x] \in Acting
    BY <1>1 DEF SharingInv, TypeOK, Actors
  <2>3. CanRecall(d, actor[x]) /\ d.scope = "user_agent" /\ d.source = d.agent
    BY <1>1, <2>1, <2>2 DEF SharingInv, Filtered, Given, Owned
  <2>4. CASE actor[x].mode = "tenant_required"
    BY <2>3, <2>4 DEF CanRecall
  <2>5. CASE actor[x].mode = "agent_private"
    BY <2>3, <2>5 DEF CanRecall
  <2>6. CASE actor[x].mode = "user_controlled"
    BY <2>3, <2>6 DEF CanRecall
  <2>. QED
    BY <2>2, <2>4, <2>5, <2>6 DEF Acting, Modes
<1>. QED
  BY <1>1, Invariance, PTL

(* A turn is given what another agent was told only with the consent of    *)
(* the user, and as a public agent only with that of the administrator.    *)
THEOREM ConsentNeeded == Spec => []SharedByConsent
<1>1. ASSUME SharingInv PROVE SharedByConsent
  <2>1. SUFFICES ASSUME NEW x \in Turns, NEW d \in actor[x].got
                 PROVE  /\ d.scope = "user_global" /\ d.source \notin {actor[x].agent, NoAgent}
                              => "on" \in actor[x].shares
                        /\ actor[x].agent \in PublicAgents /\ d.source # actor[x].agent
                              => actor[x].opened
    BY DEF SharedByConsent
  <2>2. x \in Actors /\ actor[x] \in Acting
    BY <1>1 DEF SharingInv, TypeOK, Actors
  <2>3. Acts(x)
    BY <1>1, <2>1, <2>2 DEF SharingInv, Ordered, Acts
  <2>4. CanRecall(d, actor[x])
    BY <1>1, <2>1, <2>2 DEF SharingInv, Filtered, Given
  <2>5. /\ actor[x].share # "unset" => actor[x].share \in actor[x].shares
        /\ actor[x].public => actor[x].opened
    BY <1>1, <2>2, <2>3 DEF SharingInv, Informed
  <2>6. d.scope = "user_global" => Shared(d, actor[x])
    <3>1. CASE actor[x].mode = "tenant_required"
      BY <2>4, <3>1 DEF CanRecall
    <3>2. CASE actor[x].mode = "agent_private"
      BY <2>4, <3>2 DEF CanRecall
    <3>3. CASE actor[x].mode = "user_controlled"
      BY <2>4, <3>3 DEF CanRecall
    <3>. QED
      BY <2>2, <3>1, <3>2, <3>3 DEF Acting, Modes
  <2>7. PublicAllowed(d, actor[x])
    BY <2>4 DEF CanRecall
  <2>. QED
    BY <2>5, <2>6, <2>7 DEF Shared, PublicAllowed
<1>. QED
  BY <1>1, Invariance, PTL

(* No step replaces or removes what an agent keeps for itself but a write  *)
(* of that agent, and none what the tenant governs.                        *)
THEOREM OwnersRespected == Spec => FactsKeepTheirOwner
<1>1. SharingInv /\ [Next]_vars =>
        [\A i \in Identity : \A d \in docs[i] :
           (\A e \in docs'[i] : e.source # d.source \/ e.value # d.value) =>
             /\ d.scope # "tenant_user"
             /\ d.scope = "user_agent" =>
                  \E x \in Actors : actor[x].at = "writing" /\ actor[x].agent = d.source]_vars
  BY NextInv DEF OwnersKept
<1>. QED
  BY <1>1, Invariance, PTL DEF Spec, FactsKeepTheirOwner

=============================================================================
