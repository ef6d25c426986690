---------------------------- MODULE MemoryProofs ----------------------------
(***************************************************************************)
(* Proofs about Memory, for any number of keys, values, users, jobs, rows  *)
(* and candidates.                                                         *)
(*                                                                         *)
(* The inductive invariant says of the rows of a key that they form chains *)
(* of versions with one active row at most, whose value the old table      *)
(* mirrors, and of the calls that a row is locked by one of them at most   *)
(* and stays active as long as it is.                                      *)
(***************************************************************************)
EXTENDS Memory, SequenceTheorems, FiniteSetTheorems, TLAPS

(* The active rows of q, and the ones a reader is given.                   *)
ActiveIn(q) == {i \in DOMAIN q : q[i].status = "active"}
CurrentIn(q) == {i \in ActiveIn(q) : q[i].until # "past"}
FactIn(q) == IF CurrentIn(q) = {} THEN NoValue
             ELSE q[CHOOSE i \in CurrentIn(q) : TRUE].value

(* The rows of a key.                                                      *)
Chain(q) ==
  /\ \A i, n \in DOMAIN q : q[i].status = "active" /\ q[n].status = "active" => i = n
  /\ \A i \in DOMAIN q : q[i].supersedes # 0 =>
       /\ q[i].supersedes < i
       /\ q[q[i].supersedes].status = "superseded"
       /\ q[i].version = q[q[i].supersedes].version + 1
  /\ \A i, n \in DOMAIN q :
       q[i].supersedes # 0 /\ q[i].supersedes = q[n].supersedes => i = n
  /\ \A i \in DOMAIN q : q[i].status = "superseded" =>
       \E n \in DOMAIN q : q[n].supersedes = i
  /\ \A i \in DOMAIN q : q[i].version <= i

(* Rows that went out of use or of date.                                   *)
Faded(q, p) ==
  /\ p \in Seq(Row) /\ Len(p) = Len(q)
  /\ \A i \in 1..Len(q) :
       /\ p[i].value = q[i].value
       /\ p[i].version = q[i].version /\ p[i].supersedes = q[i].supersedes
       /\ \/ p[i].status = q[i].status
          \/ q[i].status = "active" /\ p[i].status \in {"deleted", "expired"}

Calls == [phase : Phases, key : Keys, value : Values \cup {NoValue},
          kind : Kinds, conf : 0..100, ttl : BOOLEAN, cur : 0..MaxRows]

RowsOK ==
  /\ rows \in [Keys -> Seq(Row)]
  /\ mirror \in [Keys -> Values \cup {NoValue}]
  /\ \A k \in Keys :
       /\ Len(rows[k]) <= MaxRows
       /\ Chain(rows[k])
       /\ \A i \in ActiveIn(rows[k]) : rows[k][i].value = mirror[k]

Holding(c) == op[c].phase = "holding" /\ op[c].cur # 0

CallsOK ==
  /\ op \in [Clients -> Calls]
  /\ \A c \in Clients :
       /\ op[c].phase \in {"none", "changed", "failed"} =>
            op[c] = [NoOp EXCEPT !.phase = op[c].phase]
       /\ Holding(c) => op[c].cur \in ActiveIn(rows[op[c].key])
       /\ op[c].phase = "waiting" => op[c].cur \in DOMAIN rows[op[c].key]
  /\ \A c, d \in Clients :
       Holding(c) /\ Holding(d) /\ op[c].key = op[d].key /\ op[c].cur = op[d].cur => c = d

(* The record of a run.                                                    *)
RunOK(x) ==
  /\ x = [at |-> x.at, todo |-> x.todo, d |-> x.d, status |-> x.status]
  /\ x.at \in Stages
  /\ x.d \subseteq Offered
  /\ x.at \in {"queued", "applying", "decided"} <=> x.d # {}
  /\ x.at = "decided" => x.status \in {"applied", "settled"}

JobsOK ==
  /\ run = [j \in Jobs |-> run[j]]
  /\ \A j \in Jobs :
       /\ RunOK(run[j])
       /\ op[j].phase # "none" <=> run[j].at = "applying"
  /\ done \in [Messages -> {"none", "failed", "completed"}]
  /\ cand \in [Messages -> [Keys -> [{"upsert", "forget"} ->
       {"none", "pending", "applied", "settled"}]]]
  /\ holder \in Jobs \cup {NoJob}

MemoryInv == RowsOK /\ CallsOK /\ JobsOK

-----------------------------------------------------------------------------
(* The rows of a key                                                       *)

LEMMA FactOfCurrent ==
  ASSUME NEW q \in Seq(Row), Chain(q), NEW i \in CurrentIn(q)
  PROVE  FactIn(q) = q[i].value
<1>1. \A n \in CurrentIn(q) : n = i
  BY DEF Chain, CurrentIn, ActiveIn
<1>2. (CHOOSE n \in CurrentIn(q) : TRUE) \in CurrentIn(q)
  OBVIOUS
<1>. QED
  BY <1>1, <1>2 DEF FactIn

LEMMA Superseding ==
  ASSUME NEW q \in Seq(Row), Chain(q)
  PROVE  \A i \in 1..Len(q) : q[i].supersedes # 0 => q[i].supersedes \in 1..Len(q)
<1>1. ASSUME NEW i \in 1..Len(q), q[i].supersedes # 0
      PROVE  q[i].supersedes \in 1..Len(q)
  <2>1. q[i] \in Row /\ Len(q) \in Nat /\ i \in DOMAIN q
    BY ElementOfSeq, LenProperties
  <2>2. q[i].supersedes \in 0..MaxRows
    BY <2>1 DEF Row
  <2>3. q[i].supersedes < i
    BY <1>1, <2>1 DEF Chain
  <2>. QED
    BY <1>1, <2>1, <2>2, <2>3
<1>. QED
  BY <1>1

LEMMA FadedChain ==
  ASSUME NEW q \in Seq(Row), NEW p, Chain(q), Faded(q, p)
  PROVE  Chain(p) /\ ActiveIn(p) \subseteq ActiveIn(q)
<1>1. DOMAIN p = 1..Len(q) /\ DOMAIN q = 1..Len(q)
  BY LenProperties DEF Faded
<1>2. \A i \in 1..Len(q) : q[i].supersedes # 0 => q[i].supersedes \in 1..Len(q)
  BY Superseding
<1>3. ActiveIn(p) \subseteq ActiveIn(q)
  BY <1>1 DEF Faded, ActiveIn
<1>4. \A i, n \in DOMAIN p : p[i].status = "active" /\ p[n].status = "active" => i = n
  BY <1>1 DEF Chain, Faded
<1>5. \A i \in DOMAIN p : p[i].supersedes # 0 =>
        /\ p[i].supersedes < i
        /\ p[p[i].supersedes].status = "superseded"
        /\ p[i].version = p[p[i].supersedes].version + 1
  <2>. SUFFICES ASSUME NEW i \in 1..Len(q), p[i].supersedes # 0
                PROVE  /\ p[i].supersedes < i
                       /\ p[p[i].supersedes].status = "superseded"
                       /\ p[i].version = p[p[i].supersedes].version + 1
    BY <1>1
  <2>1. PICK n : n = p[i].supersedes
    OBVIOUS
  <2>2. n = q[i].supersedes /\ n # 0
    BY <2>1 DEF Faded
  <2>3. n \in 1..Len(q) /\ n < i /\ q[n].status = "superseded"
        /\ q[i].version = q[n].version + 1
    BY <1>1, <1>2, <2>2 DEF Chain
  <2>. QED
    BY <2>1, <2>3 DEF Faded
<1>6. \A i, n \in DOMAIN p : p[i].supersedes # 0 /\ p[i].supersedes = p[n].supersedes => i = n
  BY <1>1 DEF Chain, Faded
<1>7. \A i \in DOMAIN p : p[i].status = "superseded" => \E n \in DOMAIN p : p[n].supersedes = i
  BY <1>1 DEF Chain, Faded
<1>8. \A i \in DOMAIN p : p[i].version <= i
  BY <1>1 DEF Chain, Faded
<1>. QED
  BY <1>3, <1>4, <1>5, <1>6, <1>7, <1>8 DEF Chain

LEMMA Appended ==
  ASSUME NEW q \in Seq(Row), NEW x \in Row
  PROVE  /\ Append(q, x) \in Seq(Row)
         /\ Len(Append(q, x)) = Len(q) + 1 /\ Len(q) \in Nat
         /\ DOMAIN Append(q, x) = 1..(Len(q) + 1) /\ DOMAIN q = 1..Len(q)
         /\ Append(q, x)[Len(q) + 1] = x
         /\ \A i \in 1..Len(q) : Append(q, x)[i] = q[i]
BY LenProperties, AppendProperties

(* A row for a fact the key does not have.                                 *)
LEMMA FreshRow ==
  ASSUME NEW q \in Seq(Row), Chain(q), ActiveIn(q) = {},
         NEW x \in Row,
         x.supersedes = 0, x.version = 1, x.status = "active"
  PROVE  Chain(Append(q, x)) /\ ActiveIn(Append(q, x)) = {Len(q) + 1}
<1>1. PICK p, l : p = Append(q, x) /\ l = Len(q)
  OBVIOUS
<1>2. /\ DOMAIN p = 1..(l + 1) /\ DOMAIN q = 1..l /\ l \in Nat
      /\ p[l + 1] = x /\ \A i \in 1..l : p[i] = q[i]
  BY <1>1, Appended
<1>3. \A i \in 1..l : q[i].status # "active"
  BY <1>2 DEF ActiveIn
<1>4. \A i \in 1..l : q[i].supersedes # 0 => q[i].supersedes \in 1..l
  BY <1>1, Superseding
<1>5. Chain(p)
  <2>1. \A i, n \in DOMAIN p : p[i].status = "active" /\ p[n].status = "active" => i = n
    BY <1>2, <1>3
  <2>2. \A i \in DOMAIN p : p[i].supersedes # 0 =>
          /\ p[i].supersedes < i
          /\ p[p[i].supersedes].status = "superseded"
          /\ p[i].version = p[p[i].supersedes].version + 1
    BY <1>2, <1>4 DEF Chain
  <2>3. \A i, n \in DOMAIN p :
          p[i].supersedes # 0 /\ p[i].supersedes = p[n].supersedes => i = n
    BY <1>2 DEF Chain
  <2>4. \A i \in DOMAIN p : p[i].status = "superseded" =>
          \E n \in DOMAIN p : p[n].supersedes = i
    BY <1>2 DEF Chain
  <2>5. \A i \in DOMAIN p : p[i].version <= i
    BY <1>2 DEF Chain
  <2>. QED
    BY <2>1, <2>2, <2>3, <2>4, <2>5 DEF Chain
<1>6. ActiveIn(p) = {l + 1}
  BY <1>2, <1>3 DEF ActiveIn
<1>. QED
  BY <1>1, <1>5, <1>6

(* A row that supersedes the active one.                                   *)
LEMMA NextRow ==
  ASSUME NEW q \in Seq(Row), Chain(q), NEW i \in ActiveIn(q), NEW p \in Seq(Row),
         Len(p) = Len(q),
         \A n \in 1..Len(q) :
           /\ n # i => p[n] = q[n]
           /\ p[n].version = q[n].version /\ p[n].supersedes = q[n].supersedes,
         p[i].status = "superseded",
         NEW x \in Row, x.status = "active", x.supersedes = i,
         x.version = q[i].version + 1
  PROVE  Chain(Append(p, x)) /\ ActiveIn(Append(p, x)) = {Len(q) + 1}
<1>1. PICK s, l : s = Append(p, x) /\ l = Len(q)
  OBVIOUS
<1>2. /\ DOMAIN s = 1..(l + 1) /\ DOMAIN q = 1..l /\ l \in Nat
      /\ s[l + 1] = x /\ \A n \in 1..l : s[n] = p[n]
  BY <1>1, Appended, LenProperties
<1>3. i \in 1..l /\ q[i].status = "active"
  BY <1>2 DEF ActiveIn
<1>4. \A n \in 1..l : n # i => q[n].status # "active"
  BY <1>2, <1>3 DEF Chain
<1>5. /\ \A n \in 1..l : q[n].supersedes # 0 => q[n].supersedes \in 1..l
      /\ \A n \in 1..l : q[n].supersedes # 0 => q[n].supersedes # i
  <2>1. \A n \in 1..l : q[n].supersedes # 0 => q[n].supersedes \in 1..l
    BY <1>1, Superseding
  <2>2. \A n \in DOMAIN q : q[n].supersedes # 0 => q[q[n].supersedes].status = "superseded"
    BY DEF Chain
  <2>3. \A n \in 1..l : q[n].supersedes # 0 => q[n].supersedes # i
    BY <1>2, <1>3, <2>2
  <2>. QED
    BY <2>1, <2>3
<1>6. \A n \in 1..l : /\ n # i => s[n] = q[n]
                      /\ s[n].version = q[n].version /\ s[n].supersedes = q[n].supersedes
  BY <1>1, <1>2
<1>7. s[i].status = "superseded"
  BY <1>2, <1>3
<1>8. Chain(s)
  <2>1. \A m, n \in DOMAIN s : s[m].status = "active" /\ s[n].status = "active" => m = n
    BY <1>2, <1>4, <1>6, <1>7
  <2>2. \A n \in DOMAIN s : s[n].supersedes # 0 =>
          /\ s[n].supersedes < n
          /\ s[s[n].supersedes].status = "superseded"
          /\ s[n].version = s[s[n].supersedes].version + 1
    <3>1. ASSUME NEW n \in 1..l, q[n].supersedes # 0
          PROVE  /\ q[n].supersedes < n
                 /\ s[q[n].supersedes].status = "superseded"
                 /\ q[n].version = s[q[n].supersedes].version + 1
      <4>1. PICK m : m = q[n].supersedes
        OBVIOUS
      <4>2. m \in 1..l /\ m # i
        BY <1>5, <3>1, <4>1
      <4>3. s[m] = q[m]
        BY <1>6, <4>2
      <4>4. m < n /\ q[m].status = "superseded" /\ q[n].version = q[m].version + 1
        BY <1>2, <3>1, <4>1 DEF Chain
      <4>. QED
        BY <4>1, <4>3, <4>4
    <3>2. s[i].version = q[i].version /\ i < l + 1
      BY <1>2, <1>3, <1>6
    <3>. QED
      BY <1>2, <1>6, <1>7, <3>1, <3>2
  <2>3. \A m, n \in DOMAIN s :
          s[m].supersedes # 0 /\ s[m].supersedes = s[n].supersedes => m = n
    BY <1>2, <1>5, <1>6 DEF Chain
  <2>4. \A m \in DOMAIN s : s[m].status = "superseded" =>
          \E n \in DOMAIN s : s[n].supersedes = m
    <3>1. ASSUME NEW m \in DOMAIN s, s[m].status = "superseded"
          PROVE  \E n \in DOMAIN s : s[n].supersedes = m
      <4>1. CASE m = i
        BY <1>2, <4>1
      <4>2. CASE m # i
        <5>1. m \in 1..l /\ q[m].status = "superseded"
          BY <1>2, <1>6, <3>1, <4>2
        <5>2. PICK n \in 1..l : q[n].supersedes = m
          BY <1>2, <5>1 DEF Chain
        <5>. QED
          BY <1>2, <1>6, <5>2
      <4>. QED
        BY <4>1, <4>2
    <3>. QED
      BY <3>1
  <2>5. \A n \in DOMAIN s : s[n].version <= n
    <3>1. q[i].version <= i
      BY <1>2, <1>3 DEF Chain
    <3>2. x.version \in Int /\ q[i].version \in Int
      <4>1. q[i] \in Row
        BY <1>1, <1>3, ElementOfSeq
      <4>. QED
        BY <4>1 DEF Row
    <3>3. x.version <= l + 1
      BY <1>2, <1>3, <3>1, <3>2
    <3>. QED
      BY <1>2, <1>6, <3>3 DEF Chain
  <2>. QED
    BY <2>1, <2>2, <2>3, <2>4, <2>5 DEF Chain
<1>9. ActiveIn(s) = {l + 1}
  BY <1>2, <1>4, <1>6, <1>7 DEF ActiveIn
<1>. QED
  BY <1>1, <1>8, <1>9

-----------------------------------------------------------------------------
(* The calls                                                               *)

(* The store of facts that the rows and the calls stand for.               *)
StoreVars == <<[k \in Keys |-> Fact(k)], mirror, [c \in Clients |-> OpenCall(c)]>>
Abstract == [Store!Next]_StoreVars

Quiet(x) == x.phase \in {"none", "changed", "failed"}

LEMMA FactIs ==
  ASSUME NEW k
  PROVE  Fact(k) = FactIn(rows[k]) /\ Active(k) = ActiveIn(rows[k])
<1>1. Active(k) = ActiveIn(rows[k])
  BY DEF Active, ActiveIn
<1>2. Current(k) = CurrentIn(rows[k])
  BY <1>1 DEF Current, CurrentIn
<1>. QED
  BY <1>1, <1>2 DEF Fact, FactIn

LEMMA NoOpIsACall ==
  /\ NoOp \in Calls /\ NoOp.phase = "none" /\ NoOp.value = NoValue
  /\ \A a \in Phases : [NoOp EXCEPT !.phase = a] \in Calls
<1>1. PICK k \in Keys : k = (CHOOSE l \in Keys : TRUE)
  BY MemoryAssumption
<1>2. 0 \in 0..MaxRows /\ 100 \in 0..100
  BY MemoryAssumption
<1>3. NoOp = [phase |-> "none", key |-> k, value |-> NoValue, kind |-> "explicit",
              conf |-> 100, ttl |-> FALSE, cur |-> 0]
  BY <1>1 DEF NoOp
<1>4. NoOp \in Calls /\ NoOp.phase = "none" /\ NoOp.value = NoValue
  BY <1>2, <1>3 DEF Calls, Phases, Kinds
<1>5. ASSUME NEW a \in Phases PROVE [NoOp EXCEPT !.phase = a] \in Calls
  BY <1>4 DEF Calls
<1>. QED
  BY <1>4, <1>5

(* The call of c becomes x, and the calls of the others hold what they     *)
(* held.                                                                   *)
LEMMA CallStep ==
  ASSUME CallsOK, NEW c \in Clients, NEW x \in Calls, op' = [op EXCEPT ![c] = x],
         Quiet(x) => x = [NoOp EXCEPT !.phase = x.phase],
         x.phase = "waiting" => x.cur \in DOMAIN rows'[x.key],
         x.phase = "holding" /\ x.cur # 0 =>
           /\ x.cur \in ActiveIn(rows'[x.key])
           /\ \A d \in Clients \ {c} :
                ~(Holding(d) /\ op[d].key = x.key /\ op[d].cur = x.cur),
         \A d \in Clients \ {c} :
           /\ Holding(d) => op[d].cur \in ActiveIn(rows'[op[d].key])
           /\ op[d].phase = "waiting" => op[d].cur \in DOMAIN rows'[op[d].key]
  PROVE  CallsOK'
<1>1. op' \in [Clients -> Calls] /\ op'[c] = x /\ \A d \in Clients \ {c} : op'[d] = op[d]
  BY DEF CallsOK
<1>2. ASSUME NEW d \in Clients
      PROVE  /\ Quiet(op'[d]) => op'[d] = [NoOp EXCEPT !.phase = op'[d].phase]
             /\ Holding(d)' => op'[d].cur \in ActiveIn(rows'[op'[d].key])
             /\ op'[d].phase = "waiting" => op'[d].cur \in DOMAIN rows'[op'[d].key]
  <2>1. CASE d = c
    BY <1>1, <2>1 DEF Holding
  <2>2. CASE d # c
    BY <1>1, <2>2 DEF CallsOK, Holding, Quiet
  <2>. QED
    BY <2>1, <2>2
<1>3. ASSUME NEW d \in Clients, NEW e \in Clients, Holding(d)', Holding(e)',
             op'[d].key = op'[e].key, op'[d].cur = op'[e].cur
      PROVE  d = e
  <2>1. CASE d = c /\ e # c
    BY <1>1, <1>3, <2>1 DEF Holding
  <2>2. CASE d # c /\ e = c
    BY <1>1, <1>3, <2>2 DEF Holding
  <2>3. CASE d # c /\ e # c
    BY <1>1, <1>3, <2>3 DEF Holding, CallsOK
  <2>. QED
    BY <2>1, <2>2, <2>3
<1>. QED
  BY <1>1, <1>2, <1>3 DEF CallsOK, Quiet

(* A step of a provider call, as its job sees it.                          *)
LEMMA JobsAside ==
  ASSUME JobsOK, CallsOK, NEW c \in Clients, NEW x \in Calls, op' = [op EXCEPT ![c] = x],
         c \in Jobs => (op[c].phase # "none" <=> x.phase # "none"),
         UNCHANGED <<done, cand, run, holder>>
  PROVE  JobsOK'
<1>1. \A j \in Jobs : op[j].phase # "none" <=> op'[j].phase # "none"
  BY DEF CallsOK, Clients
<1>. QED
  BY <1>1 DEF JobsOK

LEMMA RowsAside ==
  ASSUME RowsOK, UNCHANGED <<rows, mirror>>
  PROVE  RowsOK'
BY DEF RowsOK

(* The call of c becomes x while the rows stay.                            *)
LEMMA OnlyTheCall ==
  ASSUME MemoryInv, NEW c \in Clients, NEW x \in Calls, op' = [op EXCEPT ![c] = x],
         UNCHANGED <<rows, mirror>>,
         Quiet(x) => x = [NoOp EXCEPT !.phase = x.phase],
         x.phase = "waiting" => x.cur \in DOMAIN rows[x.key],
         x.phase = "holding" /\ x.cur # 0 =>
           /\ x.cur \in ActiveIn(rows[x.key])
           /\ \A d \in Clients \ {c} :
                ~(Holding(d) /\ op[d].key = x.key /\ op[d].cur = x.cur)
  PROVE  RowsOK' /\ CallsOK'
<1>1. \A d \in Clients \ {c} :
        /\ Holding(d) => op[d].cur \in ActiveIn(rows'[op[d].key])
        /\ op[d].phase = "waiting" => op[d].cur \in DOMAIN rows'[op[d].key]
  BY DEF MemoryInv, CallsOK
<1>. QED
  BY <1>1, CallStep, RowsAside DEF MemoryInv

-----------------------------------------------------------------------------
(* What a step means to the store of facts                                 *)

LEMMA FactNext ==
  ASSUME NEW k
  PROVE  Fact(k)' = FactIn(rows'[k])
<1>1. Active(k)' = ActiveIn(rows'[k])
  BY DEF Active, ActiveIn
<1>2. Current(k)' = CurrentIn(rows'[k])
  BY <1>1 DEF Current, CurrentIn
<1>. QED
  BY <1>1, <1>2 DEF Fact, FactIn

SameFacts == \A k \in Keys : FactIn(rows'[k]) = FactIn(rows[k])

LEMMA FactsKept ==
  ASSUME SameFacts
  PROVE  [k \in Keys |-> Fact(k)]' = [k \in Keys |-> Fact(k)]
BY FactIs, FactNext DEF SameFacts

LEMMA Invisible ==
  ASSUME SameFacts, UNCHANGED mirror, \A c \in Clients : OpenCall(c)' = OpenCall(c)
  PROVE  Abstract
<1>1. [c \in Clients |-> OpenCall(c)]' = [c \in Clients |-> OpenCall(c)]
  OBVIOUS
<1>2. UNCHANGED StoreVars
  BY <1>1, FactsKept DEF StoreVars
<1>. QED
  BY <1>2 DEF Abstract

(* The call of c becomes x, and nothing else does.                         *)
LEMMA CallsNext ==
  ASSUME CallsOK, NEW c \in Clients, NEW x \in Calls, op' = [op EXCEPT ![c] = x]
  PROVE  /\ \A d \in Clients \ {c} : OpenCall(d)' = OpenCall(d)
         /\ Quiet(x) => OpenCall(c)' =
              [key |-> NoValue, value |-> x.value, answer |-> x.phase]
         /\ ~Quiet(x) => OpenCall(c)' =
              [key |-> x.key, value |-> x.value, answer |-> "open"]
<1>1. op'[c] = x /\ \A d \in Clients \ {c} : op'[d] = op[d]
  BY DEF CallsOK
<1>. QED
  BY <1>1 DEF OpenCall, Answered, Quiet

LEMMA CallsNow ==
  ASSUME NEW c \in Clients
  PROVE  /\ Quiet(op[c]) => OpenCall(c) =
              [key |-> NoValue, value |-> op[c].value, answer |-> op[c].phase]
         /\ ~Quiet(op[c]) => OpenCall(c) =
              [key |-> op[c].key, value |-> op[c].value, answer |-> "open"]
BY DEF OpenCall, Answered, Quiet

LEMMA OnlyTheCallShows ==
  ASSUME CallsOK, NEW c \in Clients, NEW x \in Calls, op' = [op EXCEPT ![c] = x],
         NEW y, OpenCall(c)' = y
  PROVE  [d \in Clients |-> OpenCall(d)]' =
           [[d \in Clients |-> OpenCall(d)] EXCEPT ![c] = y]
BY CallsNext

LEMMA TakeIs ==
  ASSUME CallsOK, NEW c \in Clients, NEW a \in {"changed", "failed"},
         ~Quiet(op[c]), op' = [op EXCEPT ![c] = [NoOp EXCEPT !.phase = a]],
         mirror' = [mirror EXCEPT ![op[c].key] = op[c].value],
         \A k \in Keys : FactIn(rows'[k]) =
           IF k = op[c].key THEN op[c].value ELSE FactIn(rows[k])
  PROVE  Abstract
<1>1. PICK x \in Calls : x = [NoOp EXCEPT !.phase = a]
  BY NoOpIsACall DEF Phases
<1>2. x.phase = a /\ x.value = NoValue /\ Quiet(x)
  BY <1>1, NoOpIsACall DEF Calls, Quiet
<1>3. OpenCall(c)' = [key |-> NoValue, value |-> NoValue, answer |-> a]
  BY <1>1, <1>2, CallsNext
<1>4. [d \in Clients |-> OpenCall(d)]' =
        [[d \in Clients |-> OpenCall(d)] EXCEPT ![c] = [Store!Idle EXCEPT !.answer = a]]
  BY <1>1, <1>3, OnlyTheCallShows DEF Store!Idle
<1>5. /\ [d \in Clients |-> OpenCall(d)][c].answer = "open"
      /\ [d \in Clients |-> OpenCall(d)][c].key = op[c].key
      /\ [d \in Clients |-> OpenCall(d)][c].value = op[c].value
  BY CallsNow
<1>6. [k \in Keys |-> Fact(k)]' =
        [[k \in Keys |-> Fact(k)] EXCEPT ![op[c].key] = op[c].value]
  BY FactIs, FactNext
<1>7. Store!Take(c, a)
  BY <1>4, <1>5, <1>6 DEF Store!Take
<1>. QED
  BY <1>7 DEF Abstract, Store!Next

LEMMA FailIs ==
  ASSUME CallsOK, NEW c \in Clients, ~Quiet(op[c]), SameFacts, UNCHANGED mirror,
         op' = [op EXCEPT ![c] = [NoOp EXCEPT !.phase = "failed"]]
  PROVE  Abstract
<1>1. PICK x \in Calls : x = [NoOp EXCEPT !.phase = "failed"]
  BY NoOpIsACall DEF Phases
<1>2. x.phase = "failed" /\ x.value = NoValue /\ Quiet(x)
  BY <1>1, NoOpIsACall DEF Calls, Quiet
<1>3. OpenCall(c)' = [key |-> NoValue, value |-> NoValue, answer |-> "failed"]
  BY <1>1, <1>2, CallsNext
<1>4. [d \in Clients |-> OpenCall(d)]' =
        [[d \in Clients |-> OpenCall(d)] EXCEPT ![c] = [Store!Idle EXCEPT !.answer = "failed"]]
  BY <1>1, <1>3, OnlyTheCallShows DEF Store!Idle
<1>5. [d \in Clients |-> OpenCall(d)][c].answer = "open"
  BY CallsNow
<1>6. Store!Fail(c)
  BY <1>4, <1>5, FactsKept DEF Store!Fail
<1>. QED
  BY <1>6 DEF Abstract, Store!Next

LEMMA AskIs ==
  ASSUME CallsOK, NEW c \in Clients, Quiet(op[c]), SameFacts, UNCHANGED mirror,
         NEW x \in Calls, ~Quiet(x), op' = [op EXCEPT ![c] = x]
  PROVE  Abstract
<1>1. OpenCall(c)' = [key |-> x.key, value |-> x.value, answer |-> "open"]
  BY CallsNext
<1>2. [d \in Clients |-> OpenCall(d)]' =
        [[d \in Clients |-> OpenCall(d)] EXCEPT
           ![c] = [key |-> x.key, value |-> x.value, answer |-> "open"]]
  BY <1>1, OnlyTheCallShows
<1>3. [d \in Clients |-> OpenCall(d)][c].answer # "open"
  BY CallsNow DEF Quiet
<1>4. Store!Ask(c, x.key, x.value)
  BY <1>2, <1>3, FactsKept DEF Store!Ask
<1>5. x.key \in Keys /\ x.value \in Values \cup {NoValue}
  BY DEF Calls
<1>. QED
  BY <1>4, <1>5 DEF Abstract, Store!Next

LEMMA LeaveIs ==
  ASSUME CallsOK, NEW c \in Clients, SameFacts, UNCHANGED mirror,
         op' = [op EXCEPT ![c] = NoOp]
  PROVE  Abstract
<1>1. NoOp \in Calls /\ NoOp.phase = "none" /\ NoOp.value = NoValue /\ Quiet(NoOp)
  BY NoOpIsACall DEF Quiet
<1>2. OpenCall(c)' = Store!Idle
  BY <1>1, CallsNext DEF Store!Idle
<1>3. CASE OpenCall(c) = Store!Idle
  BY <1>1, <1>2, <1>3, CallsNext, Invisible
<1>4. CASE OpenCall(c) # Store!Idle
  <2>1. [d \in Clients |-> OpenCall(d)]' =
          [[d \in Clients |-> OpenCall(d)] EXCEPT ![c] = Store!Idle]
    BY <1>1, <1>2, OnlyTheCallShows
  <2>2. Store!Leave(c)
    BY <1>4, <2>1, FactsKept DEF Store!Leave
  <2>. QED
    BY <2>2 DEF Abstract, Store!Next
<1>. QED
  BY <1>3, <1>4

-----------------------------------------------------------------------------
(* The provider                                                            *)

Good == RowsOK' /\ CallsOK' /\ JobsOK' /\ Abstract

(* A call that goes on.                                                    *)
LEMMA OnwardsStep ==
  ASSUME MemoryInv, NEW c \in Clients, NEW x \in Calls, op' = [op EXCEPT ![c] = x],
         ~Quiet(op[c]), ~Quiet(x), x.key = op[c].key, x.value = op[c].value,
         x.phase = "waiting" => x.cur \in DOMAIN rows[x.key],
         x.phase = "holding" /\ x.cur # 0 =>
           /\ x.cur \in ActiveIn(rows[x.key])
           /\ \A d \in Clients \ {c} :
                ~(Holding(d) /\ op[d].key = x.key /\ op[d].cur = x.cur),
         UNCHANGED <<rows, mirror, done, cand, run, holder>>
  PROVE  Good
<1>1. RowsOK' /\ CallsOK'
  BY OnlyTheCall
<1>2. JobsOK'
  BY JobsAside DEF MemoryInv, Quiet
<1>3. \A d \in Clients : OpenCall(d)' = OpenCall(d)
  BY CallsNext, CallsNow DEF MemoryInv
<1>4. SameFacts
  BY DEF SameFacts
<1>. QED
  BY <1>1, <1>2, <1>3, <1>4, Invisible DEF Good

LEMMA LookStep ==
  ASSUME MemoryInv, NEW c \in Clients, Look(c)
  PROVE  Good
<1>1. op[c] \in Calls /\ op[c].phase = "asked" /\ op[c].key \in Keys
  BY DEF MemoryInv, CallsOK, Calls, Look
<1>2. PICK k : k = op[c].key
  OBVIOUS
<1>3. Active(k) = ActiveIn(rows[k]) /\ rows[k] \in Seq(Row) /\ k \in Keys
  BY <1>1, <1>2, FactIs DEF MemoryInv, RowsOK
<1>4. CASE Active(k) = {}
  <2>1. PICK x : x = [op[c] EXCEPT !.phase = "holding", !.cur = 0]
    OBVIOUS
  <2>2. /\ x \in Calls /\ x.phase = "holding" /\ x.cur = 0
        /\ x.key = op[c].key /\ x.value = op[c].value
    <3>1. 0 \in 0..MaxRows
      BY MemoryAssumption
    <3>. QED
      BY <1>1, <2>1, <3>1 DEF Calls, Phases
  <2>3. op' = [op EXCEPT ![c] = x]
    BY <1>2, <1>4, <2>1 DEF Look
  <2>. QED
    BY <1>1, <2>2, <2>3, OnwardsStep DEF Look, Quiet
<1>5. CASE Active(k) # {}
  <2>1. PICK i \in Active(k) : i = CHOOSE l \in Active(k) : TRUE
    BY <1>5
  <2>2. PICK ph \in {"waiting", "holding"} :
          ph = IF Locked(k, i) THEN "waiting" ELSE "holding"
    OBVIOUS
  <2>3. PICK x : x = [op[c] EXCEPT !.phase = ph, !.cur = i]
    OBVIOUS
  <2>4. op' = [op EXCEPT ![c] = x]
    <3>1. [op[c] EXCEPT !.phase = ph, !.cur = i] =
            [op[c] EXCEPT !.phase = IF Locked(k, i) THEN "waiting" ELSE "holding", !.cur = i]
      BY <2>2
    <3>. QED
      BY <1>2, <1>5, <2>1, <2>3, <3>1 DEF Look
  <2>5. i \in 1..Len(rows[k]) /\ i \in DOMAIN rows[k] /\ Len(rows[k]) <= MaxRows
        /\ i \in ActiveIn(rows[k]) /\ Len(rows[k]) \in Nat
    BY <1>3, LenProperties DEF ActiveIn, MemoryInv, RowsOK
  <2>6. i \in 0..MaxRows /\ i # 0
    BY <2>5, MemoryAssumption
  <2>7. /\ x \in Calls /\ x.phase = ph /\ x.cur = i
        /\ x.key = k /\ x.value = op[c].value
    BY <1>1, <1>2, <2>3, <2>6 DEF Calls, Phases
  <2>8. ph = "holding" => \A d \in Clients :
          ~(Holding(d) /\ op[d].key = k /\ op[d].cur = i)
    BY <2>2 DEF Locked, LockedBy, Holding
  <2>9. UNCHANGED <<rows, mirror, done, cand, run, holder>>
    BY DEF Look
  <2>. QED
    BY <1>1, <1>2, <2>2, <2>4, <2>5, <2>7, <2>8, <2>9, OnwardsStep DEF Quiet
<1>. QED
  BY <1>4, <1>5

LEMMA WokenStep ==
  ASSUME MemoryInv, NEW c \in Clients, Woken(c)
  PROVE  Good
<1>1. op[c] \in Calls /\ op[c].phase = "waiting" /\ op[c].key \in Keys
  BY DEF MemoryInv, CallsOK, Calls, Woken
<1>2. PICK i : i = IF op[c].cur \in Active(op[c].key) THEN op[c].cur ELSE 0
  OBVIOUS
<1>3. PICK x : x = [op[c] EXCEPT !.phase = "holding", !.cur = i]
  OBVIOUS
<1>4. i \in 0..MaxRows
  BY <1>1, <1>2, MemoryAssumption DEF Calls
<1>5. /\ x \in Calls /\ x.phase = "holding" /\ x.cur = i
      /\ x.key = op[c].key /\ x.value = op[c].value
  BY <1>1, <1>3, <1>4 DEF Calls, Phases
<1>6. op' = [op EXCEPT ![c] = x]
  BY <1>2, <1>3 DEF Woken
<1>7. i # 0 => i \in ActiveIn(rows[op[c].key]) /\ i = op[c].cur
  BY <1>2, FactIs
<1>8. i # 0 => \A d \in Clients :
        ~(Holding(d) /\ op[d].key = op[c].key /\ op[d].cur = i)
  BY <1>7 DEF Woken, Locked, LockedBy, Holding
<1>9. UNCHANGED <<rows, mirror, done, cand, run, holder>>
  BY DEF Woken
<1>. QED
  BY <1>1, <1>5, <1>6, <1>7, <1>8, <1>9, OnwardsStep DEF Quiet

(* A call is over, and the rows are as they were.                          *)
LEMMA OverStep ==
  ASSUME MemoryInv, NEW c \in Clients, NEW a \in {"changed", "failed"}, ~Quiet(op[c]),
         op' = [op EXCEPT ![c] = [NoOp EXCEPT !.phase = a]],
         UNCHANGED <<rows, mirror, done, cand, run, holder>>
  PROVE  RowsOK' /\ CallsOK' /\ JobsOK'
<1>1. PICK x \in Calls : x = [NoOp EXCEPT !.phase = a]
  BY NoOpIsACall DEF Phases
<1>2. x.phase = a /\ Quiet(x)
  BY <1>1, NoOpIsACall DEF Calls, Quiet
<1>3. RowsOK' /\ CallsOK'
  BY <1>1, <1>2, OnlyTheCall
<1>. QED
  BY <1>1, <1>2, <1>3, JobsAside DEF MemoryInv, Quiet

LEMMA ProviderErrorStep ==
  ASSUME MemoryInv, NEW c \in Clients, ProviderError(c)
  PROVE  Good
<1>1. ~Quiet(op[c])
  BY DEF ProviderError, Quiet
<1>2. SameFacts /\ UNCHANGED mirror
  BY DEF ProviderError, SameFacts
<1>. QED
  BY <1>1, <1>2, OverStep, FailIs DEF ProviderError, Good, MemoryInv

LEMMA RememberSameStep ==
  ASSUME MemoryInv, NEW c \in Clients, RememberSame(c)
  PROVE  Good
<1>1. PICK a \in {"changed", "failed"} : op' = [op EXCEPT ![c] = [NoOp EXCEPT !.phase = a]]
  BY DEF RememberSame, Commit
<1>2. PICK k, i : k = op[c].key /\ i = op[c].cur
  OBVIOUS
<1>3. k \in Keys /\ rows[k] \in Seq(Row) /\ Chain(rows[k])
  BY <1>2 DEF MemoryInv, CallsOK, Calls, RowsOK
<1>4. i \in ActiveIn(rows[k])
  BY <1>2 DEF RememberSame, Same, MemoryInv, CallsOK, Holding
<1>5. i \in CurrentIn(rows[k]) /\ rows[k][i].value = op[c].value
  BY <1>2, <1>4 DEF CurrentIn, RememberSame, Same
<1>6. FactIn(rows[k]) = op[c].value
  BY <1>3, <1>5, FactOfCurrent
<1>7. mirror[k] = op[c].value
  BY <1>3, <1>4, <1>5 DEF MemoryInv, RowsOK
<1>8. mirror' = [mirror EXCEPT ![k] = op[c].value]
  BY <1>3, <1>7 DEF RememberSame, MemoryInv, RowsOK
<1>9. \A n \in Keys : FactIn(rows'[n]) = IF n = k THEN op[c].value ELSE FactIn(rows[n])
  BY <1>6 DEF RememberSame
<1>10. ~Quiet(op[c])
  BY DEF RememberSame, Quiet
<1>. QED
  BY <1>1, <1>2, <1>8, <1>9, <1>10, OverStep, TakeIs DEF RememberSame, Good, MemoryInv

(* The rows of one key change, and the call that did it is over.           *)
LEMMA ChangedStep ==
  ASSUME MemoryInv, NEW c \in Clients, NEW a \in {"changed", "failed"},
         op[c].phase = "holding", op' = [op EXCEPT ![c] = [NoOp EXCEPT !.phase = a]],
         NEW q \in Seq(Row), rows' = [rows EXCEPT ![op[c].key] = q],
         Len(q) <= MaxRows, Len(q) >= Len(rows[op[c].key]), Chain(q),
         mirror' = [mirror EXCEPT ![op[c].key] = op[c].value],
         \A i \in ActiveIn(q) : q[i].value = op[c].value,
         FactIn(q) = op[c].value,
         op[c].cur = 0 => ActiveIn(rows[op[c].key]) = {},
         UNCHANGED <<done, cand, run, holder>>
  PROVE  Good
<1>1. op[c] \in Calls /\ op[c].key \in Keys /\ op[c].value \in Values \cup {NoValue}
  BY DEF MemoryInv, CallsOK, Calls
<1>2. /\ rows'[op[c].key] = q /\ mirror'[op[c].key] = op[c].value
      /\ \A k \in Keys : k # op[c].key => rows'[k] = rows[k] /\ mirror'[k] = mirror[k]
  BY <1>1 DEF MemoryInv, RowsOK
<1>3. RowsOK'
  <2>1. rows' \in [Keys -> Seq(Row)] /\ mirror' \in [Keys -> Values \cup {NoValue}]
    BY <1>1 DEF MemoryInv, RowsOK
  <2>. QED
    BY <1>2, <2>1 DEF MemoryInv, RowsOK
<1>4. PICK x \in Calls : x = [NoOp EXCEPT !.phase = a]
  BY NoOpIsACall DEF Phases
<1>5. x.phase = a /\ Quiet(x)
  BY <1>4, NoOpIsACall DEF Calls, Quiet
<1>6. DOMAIN rows[op[c].key] \subseteq DOMAIN q
  BY <1>1, LenProperties DEF MemoryInv, RowsOK
<1>7. ASSUME NEW d \in Clients \ {c}
      PROVE  /\ Holding(d) => op[d].cur \in ActiveIn(rows'[op[d].key])
             /\ op[d].phase = "waiting" => op[d].cur \in DOMAIN rows'[op[d].key]
  <2>1. op[d].key \in Keys
    BY DEF MemoryInv, CallsOK, Calls
  <2>2. CASE op[d].key = op[c].key
    <3>1. ~Holding(d)
      <4>1. SUFFICES ASSUME Holding(d) PROVE FALSE
        OBVIOUS
      <4>2. op[d].cur \in ActiveIn(rows[op[c].key])
        BY <2>2, <4>1 DEF MemoryInv, CallsOK
      <4>3. op[c].cur # 0 /\ Holding(c)
        BY <4>2 DEF Holding
      <4>4. op[c].cur \in ActiveIn(rows[op[c].key])
        BY <4>3 DEF MemoryInv, CallsOK
      <4>5. op[c].cur = op[d].cur
        BY <1>1, <4>2, <4>4 DEF MemoryInv, RowsOK, Chain, ActiveIn
      <4>. QED
        BY <2>2, <4>1, <4>3, <4>5 DEF MemoryInv, CallsOK
    <3>. QED
      BY <1>2, <1>6, <2>2, <3>1 DEF MemoryInv, CallsOK
  <2>3. CASE op[d].key # op[c].key
    BY <1>2, <2>1, <2>3 DEF MemoryInv, CallsOK
  <2>. QED
    BY <2>2, <2>3
<1>8. CallsOK'
  BY <1>4, <1>5, <1>7, CallStep DEF MemoryInv, Quiet
<1>9. JobsOK'
  BY <1>4, <1>5, JobsAside DEF MemoryInv
<1>10. \A k \in Keys : FactIn(rows'[k]) = IF k = op[c].key THEN op[c].value ELSE FactIn(rows[k])
  BY <1>2
<1>11. Abstract
  BY <1>10, TakeIs DEF MemoryInv, Quiet
<1>. QED
  BY <1>3, <1>8, <1>9, <1>11 DEF Good

LEMMA RetiredRow ==
  ASSUME NEW q \in Seq(Row), NEW k \in Keys, q = rows[k], NEW i \in 1..Len(q),
         NEW st \in RowStatus, NEW p, p = Retired(k, i, st)
  PROVE  /\ p \in Seq(Row) /\ Len(p) = Len(q)
         /\ p[i].status = st
         /\ \A n \in 1..Len(q) : n # i => p[n] = q[n]
         /\ \A n \in 1..Len(q) :
              /\ p[n].value = q[n].value
              /\ p[n].version = q[n].version
              /\ p[n].supersedes = q[n].supersedes
<1>1. PICK x : x = [q[i] EXCEPT !.status = st, !.until = "past"]
  OBVIOUS
<1>2. q[i] \in Row /\ i # 0
  BY <1>1, ElementOfSeq, LenProperties
<1>3. /\ x \in Row /\ x.status = st /\ x.value = q[i].value
      /\ x.version = q[i].version /\ x.supersedes = q[i].supersedes
  BY <1>1, <1>2 DEF Row
<1>4. p = [q EXCEPT ![i] = x]
  BY <1>1, <1>2 DEF Retired
<1>5. /\ p \in Seq(Row) /\ Len(p) = Len(q)
      /\ \A n \in 1..Len(q) : p[n] = IF n = i THEN x ELSE q[n]
  BY <1>3, <1>4, ExceptSeq
<1>6. p[i] = x /\ \A n \in 1..Len(q) : n # i => p[n] = q[n]
  BY <1>5
<1>7. \A n \in 1..Len(q) : p[n] = q[n] \/ n = i
  BY <1>6
<1>. QED
  BY <1>3, <1>5, <1>6, <1>7

LEMMA ForgetStep ==
  ASSUME MemoryInv, NEW c \in Clients, Forget(c)
  PROVE  Good
<1>1. PICK a \in {"changed", "failed"} : op' = [op EXCEPT ![c] = [NoOp EXCEPT !.phase = a]]
  BY DEF Forget, Commit
<1>2. PICK k, i : k = op[c].key /\ i = op[c].cur
  OBVIOUS
<1>3. k \in Keys /\ rows[k] \in Seq(Row) /\ Chain(rows[k]) /\ Len(rows[k]) <= MaxRows
  BY <1>2 DEF MemoryInv, CallsOK, Calls, RowsOK
<1>4. i \in ActiveIn(rows[k]) /\ i # 0
  BY <1>2 DEF Forget, MemoryInv, CallsOK, Holding
<1>5. i \in 1..Len(rows[k]) /\ rows[k][i].status = "active" /\ Len(rows[k]) \in Nat
  BY <1>3, <1>4, LenProperties DEF ActiveIn
<1>6. PICK p : p = Retired(k, i, "deleted")
  OBVIOUS
<1>7. /\ p \in Seq(Row) /\ Len(p) = Len(rows[k]) /\ p[i].status = "deleted"
      /\ \A n \in 1..Len(rows[k]) : n # i => p[n] = rows[k][n]
      /\ \A n \in 1..Len(rows[k]) :
           /\ p[n].value = rows[k][n].value
           /\ p[n].version = rows[k][n].version
           /\ p[n].supersedes = rows[k][n].supersedes
  <2>1. "deleted" \in RowStatus
    BY DEF RowStatus
  <2>2. PICK q \in Seq(Row) : q = rows[k]
    BY <1>3
  <2>3. i \in 1..Len(q)
    BY <1>5, <2>2
  <2>4. k \in Keys
    BY <1>3
  <2>5. /\ p \in Seq(Row) /\ Len(p) = Len(q) /\ p[i].status = "deleted"
        /\ \A n \in 1..Len(q) : n # i => p[n] = q[n]
        /\ \A n \in 1..Len(q) :
             /\ p[n].value = q[n].value
             /\ p[n].version = q[n].version
             /\ p[n].supersedes = q[n].supersedes
    BY <1>6, <2>1, <2>2, <2>3, <2>4, RetiredRow
  <2>. QED
    BY <2>2, <2>5
<1>8. Faded(rows[k], p)
  BY <1>5, <1>7 DEF Faded
<1>9. Chain(p) /\ ActiveIn(p) \subseteq ActiveIn(rows[k])
  BY <1>3, <1>8, FadedChain
<1>10. ActiveIn(p) = {}
  BY <1>3, <1>4, <1>7, <1>9 DEF Chain, ActiveIn
<1>11. FactIn(p) = NoValue
  BY <1>10 DEF FactIn, CurrentIn
<1>12. rows' = [rows EXCEPT ![k] = p]
  BY <1>2, <1>6 DEF Forget
<1>13. Len(p) <= MaxRows /\ Len(p) >= Len(rows[k])
  BY <1>3, <1>5, <1>7
<1>. QED
  BY <1>1, <1>2, <1>4, <1>7, <1>9, <1>10, <1>11, <1>12, <1>13, ChangedStep DEF Forget

LEMMA RememberStep ==
  ASSUME MemoryInv, NEW c \in Clients, Remember(c)
  PROVE  Good
<1>1. PICK a \in {"changed", "failed"} : op' = [op EXCEPT ![c] = [NoOp EXCEPT !.phase = a]]
  BY DEF Remember, Commit
<1>2. PICK k, i, q, x : k = op[c].key /\ i = op[c].cur /\ q = rows[k] /\ x = NewRow(c)
  OBVIOUS
<1>3. /\ k \in Keys /\ op[c] \in Calls /\ op[c].value \in Values /\ i \in 0..MaxRows
      /\ q \in Seq(Row) /\ Chain(q) /\ Len(q) < MaxRows
  BY <1>2 DEF Remember, MemoryInv, CallsOK, Calls, RowsOK
<1>4. Len(q) \in Nat /\ MaxRows \in Nat /\ DOMAIN q = 1..Len(q)
  BY <1>3, LenProperties, MemoryAssumption
<1>5. i # 0 => /\ i \in ActiveIn(q) /\ i \in 1..Len(q)
               /\ q[i].version \in 1..MaxRows /\ q[i].version <= i
  <2>1. i # 0 => i \in ActiveIn(q)
    BY <1>2 DEF Remember, MemoryInv, CallsOK, Holding
  <2>2. i # 0 => i \in 1..Len(q)
    BY <1>4, <2>1 DEF ActiveIn
  <2>3. i # 0 => q[i] \in Row
    BY <1>3, <2>2, ElementOfSeq
  <2>. QED
    BY <1>3, <1>4, <2>1, <2>2, <2>3 DEF Chain, Row
<1>6. PICK v : v = IF i = 0 THEN 1 ELSE q[i].version + 1
  OBVIOUS
<1>7. v \in 1..MaxRows
  <2>1. CASE i = 0
    BY <1>3, <1>4, <1>6, <2>1
  <2>2. CASE i # 0
    BY <1>3, <1>4, <1>5, <1>6, <2>2
  <2>. QED
    BY <2>1, <2>2
<1>8. x = [value |-> op[c].value, kind |-> op[c].kind, conf |-> op[c].conf,
           status |-> "active", version |-> v, supersedes |-> i,
           until |-> IF op[c].ttl THEN "later" ELSE "never"]
  BY <1>2, <1>6 DEF NewRow
<1>9. /\ x \in Row /\ x.value = op[c].value /\ x.status = "active" /\ x.version = v
      /\ x.supersedes = i /\ x.until # "past"
  BY <1>3, <1>7, <1>8 DEF Row, RowStatus, Calls
<1>10. ASSUME NEW p \in Seq(Row), Len(p) = Len(q), rows' = [rows EXCEPT ![k] = Append(p, x)],
              Chain(Append(p, x)), ActiveIn(Append(p, x)) = {Len(q) + 1},
              i = 0 => ActiveIn(q) = {}
       PROVE  Good
  <2>1. PICK s : s = Append(p, x)
    OBVIOUS
  <2>2. /\ s \in Seq(Row) /\ Len(s) = Len(q) + 1 /\ s[Len(q) + 1] = x
    BY <1>9, <1>10, <2>1, Appended
  <2>3. CurrentIn(s) = {Len(q) + 1}
    BY <1>9, <1>10, <2>1, <2>2 DEF CurrentIn
  <2>4. FactIn(s) = op[c].value
    BY <1>9, <1>10, <2>1, <2>2, <2>3, FactOfCurrent
  <2>5. \A n \in ActiveIn(s) : s[n].value = op[c].value
    BY <1>9, <1>10, <2>1, <2>2
  <2>6. Len(s) <= MaxRows /\ Len(s) >= Len(q)
    BY <1>3, <1>4, <2>2
  <2>. QED
    BY <1>1, <1>2, <1>10, <2>1, <2>2, <2>4, <2>5, <2>6, ChangedStep DEF Remember
<1>11. rows' = [rows EXCEPT ![k] = Append(Retired(k, i, "superseded"), x)]
  BY <1>2 DEF Remember
<1>12. CASE i = 0
  <2>1. ActiveIn(q) = {}
    BY <1>2, <1>12, FactIs DEF Remember, Unique
  <2>2. Retired(k, i, "superseded") = q
    BY <1>2, <1>12 DEF Retired
  <2>3. Chain(Append(q, x)) /\ ActiveIn(Append(q, x)) = {Len(q) + 1}
    BY <1>3, <1>6, <1>9, <1>12, <2>1, FreshRow
  <2>. QED
    BY <1>3, <1>10, <1>11, <2>1, <2>2, <2>3
<1>13. CASE i # 0
  <2>1. PICK p : p = Retired(k, i, "superseded")
    OBVIOUS
  <2>2. /\ p \in Seq(Row) /\ Len(p) = Len(q) /\ p[i].status = "superseded"
        /\ \A n \in 1..Len(q) : n # i => p[n] = q[n]
        /\ \A n \in 1..Len(q) :
             p[n].version = q[n].version /\ p[n].supersedes = q[n].supersedes
    <3>1. "superseded" \in RowStatus
      BY DEF RowStatus
    <3>2. q \in Seq(Row) /\ k \in Keys /\ q = rows[k] /\ i \in 1..Len(q)
      BY <1>2, <1>3, <1>5, <1>13
    <3>3. PICK st \in RowStatus : st = "superseded"
      BY <3>1
    <3>4. i \in 1..Len(q) /\ p = Retired(k, i, st)
      BY <2>1, <3>2, <3>3
    <3>5. /\ p \in Seq(Row) /\ Len(p) = Len(q) /\ p[i].status = st
          /\ \A n \in 1..Len(q) : n # i => p[n] = q[n]
          /\ \A n \in 1..Len(q) :
               /\ p[n].value = q[n].value
               /\ p[n].version = q[n].version
               /\ p[n].supersedes = q[n].supersedes
      BY ONLY <3>2, <3>4, st \in RowStatus, RetiredRow
    <3>. QED
      BY <3>3, <3>5
  <2>3. Chain(Append(p, x)) /\ ActiveIn(Append(p, x)) = {Len(q) + 1}
    <3>1. x.version = q[i].version + 1 /\ x.supersedes = i /\ i \in ActiveIn(q)
      BY <1>5, <1>6, <1>9, <1>13
    <3>. QED
      BY <1>3, <1>9, <2>2, <3>1, NextRow
  <2>. QED
    BY <1>10, <1>11, <1>13, <2>1, <2>2, <2>3
<1>. QED
  BY <1>12, <1>13

LEMMA SaveStep ==
  ASSUME MemoryInv, NEW u \in Users, NEW k \in Keys, NEW v \in Values,
         SaveUserMemory(u, k, v)
  PROVE  Good
<1>1. PICK x : x = Asking(k, v, "explicit", 100, FALSE)
  OBVIOUS
<1>2. x \in Calls /\ x.phase = "asked"
  <2>1. PICK y \in Calls : y = NoOp
    BY NoOpIsACall
  <2>2. PICK conf \in 0..100 : conf = 100
    OBVIOUS
  <2>3. PICK kind \in Kinds : kind = "explicit"
    BY DEF Kinds
  <2>4. x = [y EXCEPT !.phase = "asked", !.key = k, !.value = v, !.kind = kind,
                      !.conf = conf, !.ttl = FALSE]
    BY <1>1, <2>1, <2>2, <2>3 DEF Asking
  <2>. QED
    BY <2>4 DEF Calls, Phases
<1>3. u \in Clients /\ u \notin Jobs /\ op' = [op EXCEPT ![u] = x] /\ Quiet(op[u]) /\ ~Quiet(x)
  BY <1>1, <1>2, MemoryAssumption DEF Clients, SaveUserMemory, Answered, Quiet
<1>4. RowsOK' /\ CallsOK'
  BY <1>2, <1>3, OnlyTheCall DEF SaveUserMemory, Quiet
<1>5. JobsOK'
  BY <1>2, <1>3, JobsAside DEF SaveUserMemory, MemoryInv
<1>6. SameFacts /\ UNCHANGED mirror
  BY DEF SaveUserMemory, SameFacts
<1>. QED
  BY <1>2, <1>3, <1>4, <1>5, <1>6, AskIs DEF Good, MemoryInv

-----------------------------------------------------------------------------
(* Time, the sweep and the migration                                       *)

LEMMA FadeStep ==
  ASSUME MemoryInv, UNCHANGED <<mirror, op>>, rows' = [k \in Keys |-> rows'[k]],
         \A k \in Keys : Faded(rows[k], rows'[k]),
         \A c \in Clients : Holding(c) => op[c].cur \in ActiveIn(rows'[op[c].key])
  PROVE  RowsOK' /\ CallsOK'
<1>1. ASSUME NEW k \in Keys
      PROVE  /\ rows'[k] \in Seq(Row) /\ Len(rows'[k]) = Len(rows[k])
             /\ DOMAIN rows'[k] = DOMAIN rows[k]
             /\ Chain(rows'[k]) /\ ActiveIn(rows'[k]) \subseteq ActiveIn(rows[k])
             /\ \A i \in ActiveIn(rows'[k]) : rows'[k][i].value = rows[k][i].value
  <2>1. rows[k] \in Seq(Row) /\ Chain(rows[k])
    BY DEF MemoryInv, RowsOK
  <2>2. Faded(rows[k], rows'[k])
    OBVIOUS
  <2>3. rows'[k] \in Seq(Row) /\ Len(rows'[k]) = Len(rows[k])
    BY <2>2 DEF Faded
  <2>4. DOMAIN rows'[k] = DOMAIN rows[k] /\ DOMAIN rows[k] = 1..Len(rows[k])
    BY <2>1, <2>3, LenProperties
  <2>5. Chain(rows'[k]) /\ ActiveIn(rows'[k]) \subseteq ActiveIn(rows[k])
    BY <2>1, <2>2, FadedChain
  <2>6. \A i \in DOMAIN rows[k] : rows'[k][i].value = rows[k][i].value
    BY <2>2, <2>4 DEF Faded
  <2>. QED
    BY <2>3, <2>4, <2>5, <2>6 DEF ActiveIn
<1>2. RowsOK'
  <2>1. rows' \in [Keys -> Seq(Row)]
    BY <1>1
  <2>. QED
    BY <1>1, <2>1 DEF MemoryInv, RowsOK
<1>3. \A c \in Clients : op[c].key \in Keys
  BY DEF MemoryInv, CallsOK, Calls
<1>4. CallsOK'
  BY <1>1, <1>3 DEF MemoryInv, CallsOK, Holding
<1>. QED
  BY <1>2, <1>4

LEMMA ElapseStep ==
  ASSUME MemoryInv, NEW k \in Keys, Elapse(k)
  PROVE  Good
<1>1. PICK i \in CurrentIn(rows[k]) :
        /\ rows[k][i].until = "later"
        /\ rows' = [rows EXCEPT ![k][i].until = "past"]
  BY DEF Elapse, Current, Active, CurrentIn, ActiveIn
<1>2. PICK q : q = rows[k]
  OBVIOUS
<1>3. q \in Seq(Row) /\ Chain(q) /\ i \in ActiveIn(q)
  BY <1>1, <1>2 DEF MemoryInv, RowsOK, CurrentIn
<1>4. i \in 1..Len(q) /\ DOMAIN q = 1..Len(q) /\ q[i] \in Row
  <2>1. DOMAIN q = 1..Len(q)
    BY <1>3, LenProperties
  <2>2. i \in 1..Len(q)
    BY <1>3, <2>1 DEF ActiveIn
  <2>. QED
    BY <1>3, <2>1, <2>2, ElementOfSeq
<1>5. PICK x : x = [q[i] EXCEPT !.until = "past"]
  OBVIOUS
<1>6. /\ x \in Row /\ x.until = "past" /\ x.status = q[i].status /\ x.value = q[i].value
      /\ x.version = q[i].version /\ x.supersedes = q[i].supersedes
  BY <1>4, <1>5 DEF Row
<1>7. PICK p : p = [q EXCEPT ![i] = x]
  OBVIOUS
<1>8. /\ p \in Seq(Row) /\ Len(p) = Len(q) /\ DOMAIN p = DOMAIN q
      /\ \A n \in 1..Len(q) : p[n] = IF n = i THEN x ELSE q[n]
  <2>1. /\ p \in Seq(Row) /\ Len(p) = Len(q)
        /\ \A n \in 1..Len(q) : p[n] = IF n = i THEN x ELSE q[n]
    BY <1>3, <1>4, <1>6, <1>7, ExceptSeq
  <2>. QED
    BY <1>7, <2>1
<1>9. rows' = [rows EXCEPT ![k] = p]
  BY <1>1, <1>2, <1>5, <1>7
<1>10. rows'[k] = p /\ \A n \in Keys : n # k => rows'[n] = rows[n]
  BY <1>9 DEF MemoryInv, RowsOK
<1>11. Faded(q, p) /\ ActiveIn(p) = ActiveIn(q)
  BY <1>4, <1>6, <1>8 DEF Faded, ActiveIn
<1>12. \A n \in Keys : Faded(rows[n], rows'[n]) /\ ActiveIn(rows'[n]) = ActiveIn(rows[n])
  <2>1. ASSUME NEW n \in Keys, n # k
        PROVE  Faded(rows[n], rows'[n]) /\ ActiveIn(rows'[n]) = ActiveIn(rows[n])
    BY <1>10, <2>1 DEF Faded, MemoryInv, RowsOK
  <2>. QED
    BY <1>2, <1>10, <1>11, <2>1
<1>13. rows' = [n \in Keys |-> rows'[n]]
  BY <1>9 DEF MemoryInv, RowsOK
<1>14. \A c \in Clients : Holding(c) => op[c].cur \in ActiveIn(rows'[op[c].key])
  BY <1>12 DEF MemoryInv, CallsOK, Calls
<1>15. RowsOK' /\ CallsOK'
  BY <1>12, <1>13, <1>14, FadeStep DEF Elapse
<1>16. JobsOK'
  BY DEF Elapse, MemoryInv, JobsOK
<1>17. FactIn(p) = NoValue
  <2>1. CurrentIn(p) = {}
    BY <1>3, <1>4, <1>6, <1>8, <1>11 DEF CurrentIn, ActiveIn, Chain
  <2>. QED
    BY <2>1 DEF FactIn
<1>18. [n \in Keys |-> Fact(n)]' = [[n \in Keys |-> Fact(n)] EXCEPT ![k] = NoValue]
  BY <1>10, <1>17, FactIs, FactNext
<1>19. [c \in Clients |-> OpenCall(c)]' = [c \in Clients |-> OpenCall(c)]
  BY DEF Elapse, OpenCall, Answered
<1>20. Store!Lapse(k)
  BY <1>18, <1>19 DEF Store!Lapse, Elapse
<1>21. Abstract
  BY <1>20 DEF Abstract, Store!Next
<1>. QED
  BY <1>15, <1>16, <1>21 DEF Good

LEMMA SweptRows ==
  ASSUME MemoryInv, NEW k \in Keys
  PROVE  /\ Faded(rows[k], Swept(k))
         /\ FactIn(Swept(k)) = FactIn(rows[k])
         /\ \A i \in ActiveIn(rows[k]) : Locked(k, i) => i \in ActiveIn(Swept(k))
<1>1. PICK q, p : q = rows[k] /\ p = Swept(k)
  OBVIOUS
<1>2. q \in Seq(Row) /\ DOMAIN q = 1..Len(q) /\ Len(q) \in Nat
  BY <1>1, LenProperties DEF MemoryInv, RowsOK
<1>3. DOMAIN p = 1..Len(q)
  BY <1>1, <1>2 DEF Swept
<1>4. ASSUME NEW i \in 1..Len(q)
      PROVE  /\ p[i] \in Row
             /\ p[i].value = q[i].value /\ p[i].until = q[i].until
             /\ p[i].version = q[i].version /\ p[i].supersedes = q[i].supersedes
             /\ \/ p[i] = q[i]
                \/ /\ q[i].status = "active" /\ q[i].until = "past" /\ ~Locked(k, i)
                   /\ p[i].status = "expired"
  <2>1. q[i] \in Row
    BY <1>2, ElementOfSeq
  <2>2. [q[i] EXCEPT !.status = "expired"] \in Row
    BY <2>1 DEF Row, RowStatus
  <2>3. p[i] = IF i \in Active(k) /\ q[i].until = "past" /\ ~Locked(k, i)
               THEN [q[i] EXCEPT !.status = "expired"] ELSE q[i]
    BY <1>1, <1>2 DEF Swept
  <2>4. i \in Active(k) => q[i].status = "active"
    BY <1>1 DEF Active
  <2>. QED
    BY <2>1, <2>2, <2>3, <2>4 DEF Row
<1>5. p \in Seq(Row) /\ Len(p) = Len(q)
  <2>1. p = [i \in 1..Len(q) |-> p[i]]
    BY <1>1, <1>2 DEF Swept
  <2>2. p \in [1..Len(q) -> Row]
    BY <1>4, <2>1
  <2>3. p \in Seq(Row)
    BY <1>2, <2>2, SeqDef
  <2>. QED
    BY <1>2, <1>3, <2>3, LenProperties
<1>6. Faded(q, p)
  BY <1>4, <1>5 DEF Faded
<1>7. CurrentIn(p) = CurrentIn(q)
  BY <1>2, <1>3, <1>4 DEF CurrentIn, ActiveIn
<1>8. \A i \in CurrentIn(q) : i \in 1..Len(q)
  BY <1>2 DEF CurrentIn, ActiveIn
<1>9. FactIn(p) = FactIn(q)
  <2>1. CASE CurrentIn(q) = {}
    BY <1>7, <2>1 DEF FactIn
  <2>2. CASE CurrentIn(q) # {}
    <3>1. PICK i \in CurrentIn(q) : i = (CHOOSE n \in CurrentIn(q) : TRUE)
      BY <2>2
    <3>2. p[i].value = q[i].value
      BY <1>4, <1>8
    <3>. QED
      BY <1>7, <2>2, <3>1, <3>2 DEF FactIn
  <2>. QED
    BY <2>1, <2>2
<1>10. \A i \in ActiveIn(q) : Locked(k, i) => i \in ActiveIn(p)
  BY <1>2, <1>3, <1>4 DEF ActiveIn
<1>. QED
  BY <1>1, <1>6, <1>9, <1>10

LEMMA FactType ==
  ASSUME MemoryInv, NEW k \in Keys
  PROVE  FactIn(rows[k]) \in {NoValue} \cup Values /\ FactIn(rows[k]) \in {NoValue, mirror[k]}
<1>1. rows[k] \in Seq(Row) /\ Chain(rows[k]) /\ mirror[k] \in Values \cup {NoValue}
  BY DEF MemoryInv, RowsOK
<1>2. CASE CurrentIn(rows[k]) = {}
  BY <1>2 DEF FactIn
<1>3. CASE CurrentIn(rows[k]) # {}
  <2>1. PICK i \in CurrentIn(rows[k]) : TRUE
    BY <1>3
  <2>2. FactIn(rows[k]) = rows[k][i].value
    BY <1>1, FactOfCurrent
  <2>3. rows[k][i].value = mirror[k]
    BY DEF CurrentIn, MemoryInv, RowsOK
  <2>. QED
    BY <1>1, <2>2, <2>3
<1>. QED
  BY <1>2, <1>3

LEMMA MigrateStep ==
  ASSUME MemoryInv, Migrate
  PROVE  Good
<1>1. PICK K : K = {k \in Keys : mirror[k] # NoValue /\ Active(k) = {}}
  OBVIOUS
<1>2. /\ \A k \in K : Len(rows[k]) < MaxRows /\ k \in Keys
      /\ rows' = [k \in Keys |->
           IF k \in K
           THEN Append(rows[k], [value |-> mirror[k], kind |-> "legacy", conf |-> 100,
                                 status |-> "active", version |-> 1, supersedes |-> 0,
                                 until |-> "never"])
           ELSE rows[k]]
      /\ UNCHANGED <<mirror, op, done, cand, run, holder>>
  BY <1>1 DEF Migrate
<1>3. ASSUME NEW k \in K
      PROVE  /\ rows'[k] \in Seq(Row) /\ Len(rows'[k]) <= MaxRows /\ Chain(rows'[k])
             /\ DOMAIN rows[k] \subseteq DOMAIN rows'[k]
             /\ \A i \in ActiveIn(rows'[k]) : rows'[k][i].value = mirror[k]
             /\ FactIn(rows'[k]) = mirror[k]
             /\ ActiveIn(rows[k]) = {}
  <2>1. PICK q, x : /\ q = rows[k]
                    /\ x = [value |-> mirror[k], kind |-> "legacy", conf |-> 100,
                            status |-> "active", version |-> 1, supersedes |-> 0,
                            until |-> "never"]
    OBVIOUS
  <2>2. /\ k \in Keys /\ mirror[k] \in Values /\ q \in Seq(Row) /\ Chain(q)
        /\ ActiveIn(q) = {} /\ Len(q) < MaxRows /\ Len(q) \in Nat /\ MaxRows \in Nat
    BY <1>1, <1>2, <2>1, FactIs, LenProperties, MemoryAssumption DEF MemoryInv, RowsOK
  <2>3. 1 \in 1..MaxRows /\ 0 \in 0..MaxRows /\ 100 \in 0..100
    BY <2>2
  <2>4. /\ x \in Row /\ x.value = mirror[k] /\ x.status = "active" /\ x.version = 1
        /\ x.supersedes = 0 /\ x.until # "past"
    BY <2>1, <2>2, <2>3 DEF Row, RowStatus, Kinds
  <2>5. PICK p : p = Append(q, x)
    OBVIOUS
  <2>6. rows'[k] = p
    BY <1>2, <2>1, <2>2, <2>5
  <2>7. /\ p \in Seq(Row) /\ Len(p) = Len(q) + 1 /\ p[Len(q) + 1] = x
        /\ DOMAIN q \subseteq DOMAIN p
    BY <2>2, <2>4, <2>5, Appended
  <2>8. Chain(p) /\ ActiveIn(p) = {Len(q) + 1}
    BY <2>2, <2>4, <2>5, FreshRow
  <2>9. CurrentIn(p) = {Len(q) + 1}
    BY <2>4, <2>7, <2>8 DEF CurrentIn
  <2>10. FactIn(p) = mirror[k]
    BY <2>4, <2>7, <2>8, <2>9, FactOfCurrent
  <2>11. Len(p) <= MaxRows
    BY <2>2, <2>7
  <2>. QED
    BY <2>1, <2>2, <2>4, <2>6, <2>7, <2>8, <2>10, <2>11
<1>4. \A k \in Keys \ K : rows'[k] = rows[k]
  BY <1>2
<1>5. RowsOK'
  <2>1. rows' \in [Keys -> Seq(Row)]
    <3>1. \A k \in Keys : rows'[k] \in Seq(Row)
      BY <1>3, <1>4 DEF MemoryInv, RowsOK
    <3>2. rows' = [k \in Keys |-> rows'[k]]
      BY <1>2
    <3>. QED
      BY <3>1, <3>2
  <2>2. \A k \in Keys : /\ Len(rows'[k]) <= MaxRows
                        /\ Chain(rows'[k])
                        /\ \A i \in ActiveIn(rows'[k]) : rows'[k][i].value = mirror[k]
    BY <1>3, <1>4 DEF MemoryInv, RowsOK
  <2>. QED
    BY <1>2, <2>1, <2>2 DEF MemoryInv, RowsOK
<1>6. CallsOK'
  <2>1. \A c \in Clients : op[c].key \in Keys
    BY DEF MemoryInv, CallsOK, Calls
  <2>2. \A c \in Clients : Holding(c) => op[c].cur \in ActiveIn(rows'[op[c].key])
    BY <1>3, <1>4, <2>1 DEF MemoryInv, CallsOK
  <2>3. \A c \in Clients : op[c].phase = "waiting" => op[c].cur \in DOMAIN rows'[op[c].key]
    BY <1>3, <1>4, <2>1 DEF MemoryInv, CallsOK
  <2>. QED
    BY <1>2, <2>2, <2>3 DEF MemoryInv, CallsOK, Holding
<1>7. JobsOK'
  BY <1>2 DEF MemoryInv, JobsOK
<1>8. \A k \in Keys : /\ FactIn(rows'[k]) \in {FactIn(rows[k]), mirror[k]}
                      /\ FactIn(rows'[k]) \in Values \cup {NoValue}
  BY <1>3, <1>4, FactType DEF MemoryInv, RowsOK
<1>9. [c \in Clients |-> OpenCall(c)]' = [c \in Clients |-> OpenCall(c)]
  BY <1>2 DEF OpenCall, Answered
<1>10. Store!Restore
  BY <1>2, <1>8, <1>9, FactIs, FactNext DEF Store!Restore
<1>11. Abstract
  BY <1>10 DEF Abstract, Store!Next
<1>. QED
  BY <1>5, <1>6, <1>7, <1>11 DEF Good

-----------------------------------------------------------------------------
(* The extraction job                                                      *)

LEMMA RunStep ==
  ASSUME JobsOK, CallsOK, NEW j \in Jobs, NEW x, RunOK(x), run' = [run EXCEPT ![j] = x],
         \A i \in Jobs : i # j => op'[i] = op[i],
         op'[j].phase # "none" <=> x.at = "applying",
         done' \in [Messages -> {"none", "failed", "completed"}],
         cand' \in [Messages -> [Keys -> [{"upsert", "forget"} ->
           {"none", "pending", "applied", "settled"}]]],
         holder' \in Jobs \cup {NoJob}
  PROVE  JobsOK'
<1>1. run'[j] = x /\ \A i \in Jobs : i # j => run'[i] = run[i]
  BY DEF JobsOK
<1>2. run' = [i \in Jobs |-> run'[i]]
  BY DEF JobsOK
<1>3. \A i \in Jobs : RunOK(run'[i])
  BY <1>1 DEF JobsOK
<1>4. \A i \in Jobs : op'[i].phase # "none" <=> run'[i].at = "applying"
  BY <1>1 DEF JobsOK
<1>. QED
  BY <1>2, <1>3, <1>4 DEF JobsOK

(* A step of a run that leaves the provider alone.                         *)
LEMMA RunOnlyStep ==
  ASSUME MemoryInv, NEW j \in Jobs, NEW x, RunOK(x), run' = [run EXCEPT ![j] = x],
         UNCHANGED <<rows, mirror, op>>, run[j].at # "applying", x.at # "applying",
         done' \in [Messages -> {"none", "failed", "completed"}],
         cand' \in [Messages -> [Keys -> [{"upsert", "forget"} ->
           {"none", "pending", "applied", "settled"}]]],
         holder' \in Jobs \cup {NoJob}
  PROVE  Good
<1>1. RowsOK' /\ CallsOK'
  BY DEF MemoryInv, RowsOK, CallsOK, Holding
<1>2. JobsOK'
  <2>1. op'[j].phase # "none" <=> x.at = "applying"
    BY DEF MemoryInv, JobsOK
  <2>. QED
    BY <2>1, RunStep DEF MemoryInv
<1>3. SameFacts /\ \A c \in Clients : OpenCall(c)' = OpenCall(c)
  BY DEF SameFacts, OpenCall, Answered
<1>. QED
  BY <1>1, <1>2, <1>3, Invisible DEF Good

LEMMA JobType ==
  ASSUME MemoryInv, NEW j \in Jobs
  PROVE  /\ RunOK(run[j])
         /\ done \in [Messages -> {"none", "failed", "completed"}]
         /\ cand \in [Messages -> [Keys -> [{"upsert", "forget"} ->
              {"none", "pending", "applied", "settled"}]]]
         /\ holder \in Jobs \cup {NoJob}
         /\ op[j].phase # "none" <=> run[j].at = "applying"
         /\ j \in Clients
BY DEF MemoryInv, JobsOK, Clients

LEMMA CandType ==
  ASSUME MemoryInv, NEW j \in Jobs, run[j].at \in {"queued", "applying", "decided"}
  PROVE  Cand(j) \in run[j].d /\ Cand(j) \in Offered /\ Cand(j) \in Candidates
<1>1. run[j].d # {} /\ run[j].d \subseteq Offered
  BY JobType DEF RunOK
<1>. QED
  BY <1>1, OfferedAssumption DEF Cand

LEMMA NextMessageStep ==
  ASSUME MemoryInv, NEW j \in Jobs, NextMessage(j), run[j].at # "applying",
         UNCHANGED <<rows, mirror, op, cand, holder>>,
         done' \in [Messages -> {"none", "failed", "completed"}]
  PROVE  Good
<1>1. PICK x : x = [Off EXCEPT !.at = "message", !.todo = Tail(run[j].todo)]
  OBVIOUS
<1>2. RunOK(x) /\ x.at = "message"
  BY <1>1 DEF Off, RunOK, Stages
<1>3. run' = [run EXCEPT ![j] = x]
  BY <1>1 DEF NextMessage
<1>. QED
  BY <1>2, <1>3, JobType, RunOnlyStep

LEMMA DecideStep ==
  ASSUME MemoryInv, NEW j \in Jobs, NEW st \in {"applied", "settled"}, Decide(j, st)
  PROVE  /\ RunOK(run'[j]) \/ run[j].d = {}
         /\ run' = [run EXCEPT ![j] = run'[j]] /\ run'[j].at = "decided"
<1>1. PICK x, y : y = run[j] /\ x = [y EXCEPT !.at = "decided", !.status = st]
  OBVIOUS
<1>2. run' = [run EXCEPT ![j] = x]
  BY <1>1 DEF Decide
<1>3. run'[j] = x
  BY <1>2 DEF MemoryInv, JobsOK
<1>4. RunOK(y)
  BY <1>1, JobType
<1>5. /\ x.at = "decided" /\ x.status = st /\ x.d = y.d
      /\ x = [at |-> x.at, todo |-> x.todo, d |-> x.d, status |-> x.status]
  BY <1>1, <1>4 DEF RunOK
<1>. QED
  BY <1>1, <1>2, <1>3, <1>4, <1>5 DEF RunOK, Stages

LEMMA CandEdit ==
  ASSUME MemoryInv, NEW m, NEW k, NEW o, NEW v,
         cand' = [cand EXCEPT ![m][k][o] = v],
         m \in Messages /\ k \in Keys /\ o \in {"upsert", "forget"} =>
           v \in {"none", "pending", "applied", "settled"}
  PROVE  cand' \in [Messages -> [Keys -> [{"upsert", "forget"} ->
           {"none", "pending", "applied", "settled"}]]]
<1>1. PICK S : S = {"none", "pending", "applied", "settled"}
  OBVIOUS
<1>2. PICK O : O = {"upsert", "forget"}
  OBVIOUS
<1>3. cand \in [Messages -> [Keys -> [O -> S]]]
  BY <1>1, <1>2 DEF MemoryInv, JobsOK
<1>4. CASE m \in Messages
  <2>1. PICK f : f = cand[m]
    OBVIOUS
  <2>2. PICK g : g = [f EXCEPT ![k][o] = v]
    OBVIOUS
  <2>3. f \in [Keys -> [O -> S]]
    BY <1>3, <1>4, <2>1
  <2>4. g \in [Keys -> [O -> S]]
    <3>1. CASE k \in Keys
      <4>1. PICK e, h : e = f[k] /\ h = [e EXCEPT ![o] = v]
        OBVIOUS
      <4>2. o \in O => v \in S
        BY <1>1, <1>2, <1>4, <3>1
      <4>3. e \in [O -> S]
        BY <2>3, <3>1, <4>1
      <4>4. h \in [O -> S]
        BY <4>1, <4>2, <4>3
      <4>5. g = [f EXCEPT ![k] = h]
        BY <2>2, <4>1
      <4>. QED
        BY <2>3, <4>4, <4>5
    <3>2. CASE k \notin Keys
      BY <2>2, <2>3, <3>2
    <3>. QED
      BY <3>1, <3>2
  <2>5. cand' = [cand EXCEPT ![m] = g]
    BY <2>1, <2>2
  <2>. QED
    BY <1>1, <1>2, <1>3, <2>4, <2>5
<1>5. CASE m \notin Messages
  BY <1>1, <1>2, <1>3, <1>5
<1>. QED
  BY <1>4, <1>5

LEMMA ExtractStep ==
  ASSUME MemoryInv, NEW j \in Jobs, NEW d \in Offered, Extract(j, d)
  PROVE  Good
<1>1. PICK x, y : y = run[j] /\ x = [y EXCEPT !.at = "queued", !.d = {d}]
  OBVIOUS
<1>2. run' = [run EXCEPT ![j] = x] /\ run[j].at = "message"
  BY <1>1 DEF Extract, AtMessage
<1>3. RunOK(x) /\ x.at = "queued"
  <2>1. RunOK(y)
    BY <1>1, JobType
  <2>2. /\ x.at = "queued" /\ x.d = {d} /\ x.status = y.status /\ x.todo = y.todo
        /\ x = [at |-> x.at, todo |-> x.todo, d |-> x.d, status |-> x.status]
    BY <1>1, <2>1 DEF RunOK
  <2>. QED
    BY <2>1, <2>2 DEF RunOK, Stages
<1>4. PICK m, k, o : m = Head(run[j].todo) /\ k = d.key /\ o = Operation(d)
  OBVIOUS
<1>5. PICK v : v = IF cand[m][k][o] = "none" THEN "pending" ELSE cand[m][k][o]
  OBVIOUS
<1>6. cand' = [cand EXCEPT ![m][k][o] = v]
  BY <1>4, <1>5 DEF Extract
<1>7. m \in Messages /\ k \in Keys /\ o \in {"upsert", "forget"} =>
        v \in {"none", "pending", "applied", "settled"}
  BY <1>5 DEF MemoryInv, JobsOK
<1>. QED
  <2>1. cand' \in [Messages -> [Keys -> [{"upsert", "forget"} ->
          {"none", "pending", "applied", "settled"}]]]
    BY <1>6, <1>7, CandEdit
  <2>. QED
    BY <1>2, <1>3, <2>1, JobType, RunOnlyStep DEF Extract

LEMMA MarkDecisionStep ==
  ASSUME MemoryInv, NEW j \in Jobs, MarkDecision(j)
  PROVE  Good
<1>1. PICK x : x = [Off EXCEPT !.at = "marked", !.todo = run[j].todo]
  OBVIOUS
<1>2. RunOK(x) /\ x.at = "marked"
  BY <1>1 DEF Off, RunOK, Stages
<1>3. run' = [run EXCEPT ![j] = x] /\ run[j].at = "decided"
  BY <1>1 DEF MarkDecision
<1>4. PICK m, k, o, v : /\ m = Head(run[j].todo) /\ k = Cand(j).key /\ o = Operation(Cand(j))
                        /\ v = run[j].status
  OBVIOUS
<1>5. cand' = [cand EXCEPT ![m][k][o] = v]
  BY <1>4 DEF MarkDecision
<1>6. v \in {"applied", "settled"}
  BY <1>3, <1>4, JobType DEF RunOK
<1>. QED
  <2>1. cand' \in [Messages -> [Keys -> [{"upsert", "forget"} ->
          {"none", "pending", "applied", "settled"}]]]
    BY <1>5, <1>6, CandEdit
  <2>. QED
    BY <1>2, <1>3, <2>1, JobType, RunOnlyStep DEF MarkDecision

LEMMA SettleStep ==
  ASSUME MemoryInv, NEW j \in Jobs, run[j].at = "queued", Decide(j, "settled"),
         UNCHANGED <<rows, mirror, op, done, cand, holder>>
  PROVE  Good
<1>1. run[j].d # {}
  BY JobType DEF RunOK
<1>2. PICK st \in {"applied", "settled"} : st = "settled"
  OBVIOUS
<1>3. RunOK(run'[j]) /\ run' = [run EXCEPT ![j] = run'[j]] /\ run'[j].at = "decided"
  BY <1>1, <1>2, DecideStep
<1>4. PICK x : x = run'[j]
  OBVIOUS
<1>5. RunOK(x) /\ run' = [run EXCEPT ![j] = x] /\ x.at = "decided"
  BY <1>3, <1>4
<1>. QED
  BY <1>5, JobType, RunOnlyStep

LEMMA ResolveStep ==
  ASSUME MemoryInv, NEW j \in Jobs, Resolve(j)
  PROVE  Good
<1>1. run[j].at = "queued" /\ UNCHANGED <<rows, mirror, done, cand, holder>>
  BY DEF Resolve
<1>2. CASE Decide(j, "settled") /\ op' = op
  BY <1>1, <1>2, SettleStep
<1>3. CASE /\ Step(j, "applying")
           /\ LET d == Cand(j) IN
              op' = [op EXCEPT ![j] = Asking(d.key, d.value, "automatic", d.conf, d.ttl)]
  <2>1. PICK d \in Candidates : d = Cand(j)
    BY <1>1, CandType
  <2>2. PICK kind \in Kinds : kind = "automatic"
    BY DEF Kinds
  <2>3. PICK x : x = Asking(d.key, d.value, kind, d.conf, d.ttl)
    OBVIOUS
  <2>4. d.key \in Keys /\ d.value \in Values \cup {NoValue} /\ d.conf \in 0..100
        /\ d.ttl \in BOOLEAN
    BY DEF Candidates
  <2>5. x \in Calls /\ x.phase = "asked"
    <3>1. PICK y \in Calls : y = NoOp
      BY NoOpIsACall
    <3>2. x = [y EXCEPT !.phase = "asked", !.key = d.key, !.value = d.value, !.kind = kind,
                        !.conf = d.conf, !.ttl = d.ttl]
      BY <2>3, <3>1 DEF Asking
    <3>. QED
      BY <2>4, <3>2 DEF Calls, Phases
  <2>6. op' = [op EXCEPT ![j] = x]
    BY <1>3, <2>1, <2>2, <2>3
  <2>7. j \in Clients /\ op[j].phase = "none"
    BY <1>1, JobType
  <2>8. RowsOK' /\ CallsOK'
    BY <1>1, <2>5, <2>6, <2>7, OnlyTheCall DEF Quiet
  <2>9. PICK z, y : y = run[j] /\ z = [y EXCEPT !.at = "applying"]
    OBVIOUS
  <2>10. run' = [run EXCEPT ![j] = z]
    BY <1>3, <2>9 DEF Step
  <2>11. RunOK(z) /\ z.at = "applying"
    <3>1. RunOK(y) /\ y.at = "queued"
      BY <1>1, <2>9, JobType
    <3>2. /\ z.at = "applying" /\ z.d = y.d
          /\ z = [at |-> z.at, todo |-> z.todo, d |-> z.d, status |-> z.status]
      BY <2>9, <3>1 DEF RunOK
    <3>. QED
      BY <3>1, <3>2 DEF RunOK, Stages
  <2>12. op'[j] = x /\ \A i \in Jobs : i # j => op'[i] = op[i]
    BY <2>6, <2>7 DEF MemoryInv, CallsOK, Clients
  <2>13. JobsOK'
    BY <1>1, <2>5, <2>10, <2>11, <2>12, JobType, RunStep DEF MemoryInv
  <2>14. SameFacts /\ Quiet(op[j]) /\ ~Quiet(x)
    BY <1>1, <2>5, <2>7 DEF SameFacts, Quiet
  <2>15. Abstract
    BY <1>1, <2>5, <2>6, <2>7, <2>14, AskIs DEF MemoryInv
  <2>. QED
    BY <2>8, <2>13, <2>15 DEF Good
<1>. QED
  BY <1>2, <1>3 DEF Resolve

(* The job has read the answer of its call, or its process is gone.        *)
LEMMA HangUpStep ==
  ASSUME MemoryInv, NEW j \in Jobs, NEW x, RunOK(x), run' = [run EXCEPT ![j] = x],
         op' = [op EXCEPT ![j] = NoOp], x.at # "applying",
         UNCHANGED <<rows, mirror, done, cand>>, holder' \in Jobs \cup {NoJob}
  PROVE  Good
<1>1. NoOp \in Calls /\ NoOp.phase = "none" /\ j \in Clients
  BY NoOpIsACall, JobType
<1>2. NoOp = [NoOp EXCEPT !.phase = NoOp.phase]
  BY <1>1 DEF Calls
<1>3. RowsOK' /\ CallsOK'
  BY <1>1, <1>2, OnlyTheCall
<1>4. op'[j] = NoOp /\ \A i \in Jobs : i # j => op'[i] = op[i]
  BY <1>1 DEF MemoryInv, CallsOK, Clients
<1>5. JobsOK'
  BY <1>1, <1>4, JobType, RunStep DEF MemoryInv
<1>6. Abstract
  BY <1>1, LeaveIs DEF SameFacts, MemoryInv
<1>. QED
  BY <1>3, <1>5, <1>6 DEF Good

LEMMA AppliedStep ==
  ASSUME MemoryInv, NEW j \in Jobs, Applied(j)
  PROVE  Good
<1>1. PICK st \in {"applied", "settled"} : Decide(j, st)
  <2>1. PICK st : st = IF op[j].phase = "changed" THEN "applied" ELSE "settled"
    OBVIOUS
  <2>. QED
    BY <2>1 DEF Applied
<1>2. run[j].d # {}
  BY JobType DEF RunOK, Applied
<1>3. PICK x : x = run'[j]
  OBVIOUS
<1>4. RunOK(x) /\ run' = [run EXCEPT ![j] = x] /\ x.at = "decided"
  BY <1>1, <1>2, <1>3, DecideStep
<1>. QED
  BY <1>4, JobType, HangUpStep DEF Applied

LEMMA StartRunStep ==
  ASSUME MemoryInv, NEW j \in Jobs, StartRun(j)
  PROVE  Good
<1>1. PICK todo : run' = [run EXCEPT ![j] = [Off EXCEPT !.at = "message", !.todo = todo]]
  BY DEF StartRun
<1>2. PICK x : x = [Off EXCEPT !.at = "message", !.todo = todo]
  OBVIOUS
<1>3. RunOK(x) /\ x.at = "message" /\ run' = [run EXCEPT ![j] = x]
  BY <1>1, <1>2 DEF Off, RunOK, Stages
<1>4. /\ rows' = [k \in Keys |-> Swept(k)] /\ holder' = j /\ run[j].at = "off"
      /\ UNCHANGED <<mirror, op, done, cand>>
  BY DEF StartRun
<1>5. \A k \in Keys : Faded(rows[k], rows'[k]) /\ FactIn(rows'[k]) = FactIn(rows[k])
  BY <1>4, SweptRows
<1>6. \A c \in Clients : Holding(c) => op[c].cur \in ActiveIn(rows'[op[c].key])
  <2>1. ASSUME NEW c \in Clients, Holding(c)
        PROVE  op[c].cur \in ActiveIn(rows'[op[c].key])
    <3>1. op[c].key \in Keys /\ op[c].cur \in ActiveIn(rows[op[c].key])
      BY <2>1 DEF MemoryInv, CallsOK, Calls
    <3>2. Locked(op[c].key, op[c].cur)
      BY <2>1 DEF Locked, LockedBy, Holding
    <3>. QED
      BY <1>4, <3>1, <3>2, SweptRows
  <2>. QED
    BY <2>1
<1>7. rows' = [k \in Keys |-> rows'[k]]
  BY <1>4
<1>8. RowsOK' /\ CallsOK'
  BY <1>4, <1>5, <1>6, <1>7, FadeStep
<1>9. op'[j].phase # "none" <=> x.at = "applying"
  BY <1>3, <1>4, JobType
<1>10. JobsOK'
  BY <1>3, <1>4, <1>9, JobType, RunStep DEF MemoryInv
<1>11. SameFacts /\ \A c \in Clients : OpenCall(c)' = OpenCall(c)
  BY <1>4, <1>5 DEF SameFacts, OpenCall, Answered
<1>. QED
  BY <1>4, <1>8, <1>10, <1>11, Invisible DEF Good

LEMMA OffIsARun == RunOK(Off) /\ Off.at = "off"
BY DEF Off, RunOK, Stages

LEMMA JobStepStep ==
  ASSUME MemoryInv, NEW j \in Jobs, JobStep(j)
  PROVE  Good
<1>1. CASE SkipMessage(j)
  BY <1>1, JobType, NextMessageStep DEF SkipMessage, AtMessage
<1>2. CASE NothingExtracted(j)
  <2>1. done' \in [Messages -> {"none", "failed", "completed"}]
    BY <1>2, JobType DEF NothingExtracted
  <2>. QED
    BY <1>2, <2>1, NextMessageStep DEF NothingExtracted, AtMessage
<1>3. CASE \E d \in Offered : Extract(j, d)
  BY <1>3, ExtractStep
<1>4. CASE RefuseUnread(j)
  BY <1>4, SettleStep DEF RefuseUnread
<1>5. CASE Resolve(j)
  BY <1>5, ResolveStep
<1>6. CASE Applied(j)
  BY <1>6, AppliedStep
<1>7. CASE MarkDecision(j)
  BY <1>7, MarkDecisionStep
<1>8. CASE ExtractionCompleted(j)
  <2>1. done' \in [Messages -> {"none", "failed", "completed"}]
    BY <1>8, JobType DEF ExtractionCompleted
  <2>. QED
    BY <1>8, <2>1, NextMessageStep DEF ExtractionCompleted
<1>9. CASE ExtractionFailed(j)
  <2>1. done' \in [Messages -> {"none", "failed", "completed"}]
    BY <1>9, JobType DEF ExtractionFailed
  <2>2. run[j].at # "applying"
    BY <1>9 DEF ExtractionFailed, AtMessage
  <2>. QED
    BY <1>9, <2>1, <2>2, NextMessageStep DEF ExtractionFailed
<1>10. CASE EndRun(j)
  <2>1. holder' \in Jobs \cup {NoJob}
    BY <1>10, JobType DEF EndRun, Released
  <2>. QED
    BY <1>10, <2>1, OffIsARun, JobType, RunOnlyStep DEF EndRun
<1>. QED
  BY <1>1, <1>2, <1>3, <1>4, <1>5, <1>6, <1>7, <1>8, <1>9, <1>10 DEF JobStep

LEMMA CrashStep ==
  ASSUME MemoryInv, NEW j \in Jobs, Crash(j)
  PROVE  Good
<1>1. holder' \in Jobs \cup {NoJob}
  BY JobType DEF Crash, Released
<1>. QED
  BY <1>1, OffIsARun, HangUpStep DEF Crash

LEMMA LoseLockStep ==
  ASSUME MemoryInv, NEW j \in Jobs, LoseLock(j)
  PROVE  Good
<1>2. RowsOK' /\ CallsOK'
  BY DEF LoseLock, MemoryInv, RowsOK, CallsOK, Holding
<1>3. JobsOK'
  BY DEF LoseLock, MemoryInv, JobsOK
<1>4. SameFacts /\ UNCHANGED mirror /\ \A c \in Clients : OpenCall(c)' = OpenCall(c)
  BY DEF LoseLock, SameFacts, OpenCall, Answered
<1>. QED
  BY <1>2, <1>3, <1>4, Invisible DEF Good

-----------------------------------------------------------------------------
LEMMA MemoryInit == Init => MemoryInv
<1>. SUFFICES ASSUME Init PROVE MemoryInv
  OBVIOUS
<1>1. RowsOK
  <2>1. \A k \in Keys : rows[k] = <<>>
    BY DEF Init
  <2>2. <<>> \in Seq(Row) /\ Len(<<>>) = 0 /\ DOMAIN <<>> = {}
    BY EmptySeq
  <2>3. rows \in [Keys -> Seq(Row)]
    BY <2>2 DEF Init
  <2>4. Chain(<<>>) /\ ActiveIn(<<>>) = {} /\ Len(<<>>) <= MaxRows
    BY <2>2, MemoryAssumption DEF Chain, ActiveIn
  <2>. QED
    BY <2>1, <2>3, <2>4 DEF Init, RowsOK
<1>2. CallsOK
  <2>1. NoOp \in Calls /\ NoOp.phase = "none" /\ NoOp = [NoOp EXCEPT !.phase = NoOp.phase]
    BY NoOpIsACall DEF Calls
  <2>. QED
    BY <2>1 DEF Init, CallsOK, Holding
<1>3. JobsOK
  BY OffIsARun, NoOpIsACall DEF Init, JobsOK, Clients
<1>. QED
  BY <1>1, <1>2, <1>3 DEF MemoryInv

LEMMA StoreInit ==
  ASSUME Init
  PROVE  Store!Init
<1>1. \A k \in Keys : FactIn(rows[k]) = NoValue
  <2>1. \A k \in Keys : rows[k] = <<>>
    BY DEF Init
  <2>2. CurrentIn(<<>>) = {}
    BY EmptySeq DEF CurrentIn, ActiveIn
  <2>. QED
    BY <2>1, <2>2 DEF FactIn
<1>2. \A c \in Clients : OpenCall(c) = Store!Idle
  BY NoOpIsACall DEF Init, OpenCall, Store!Idle
<1>. QED
  BY <1>1, <1>2, FactIs DEF Init, Store!Init

LEMMA MemoryNext ==
  ASSUME MemoryInv, [Next]_vars
  PROVE  Good
<1>1. CASE UNCHANGED vars
  <2>1. UNCHANGED <<rows, mirror, op, done, cand, run, holder>>
    BY <1>1 DEF vars
  <2>2. RowsOK' /\ CallsOK' /\ JobsOK'
    BY <2>1 DEF MemoryInv, RowsOK, CallsOK, Holding, JobsOK
  <2>3. SameFacts /\ \A c \in Clients : OpenCall(c)' = OpenCall(c)
    BY <2>1 DEF SameFacts, OpenCall, Answered
  <2>. QED
    BY <2>1, <2>2, <2>3, Invisible DEF Good
<1>2. CASE \E c \in Clients : Provider(c) \/ ProviderError(c)
  BY <1>2, LookStep, WokenStep, RememberStep, RememberSameStep, ForgetStep, ProviderErrorStep
  DEF Provider
<1>3. CASE \E u \in Users, k \in Keys, v \in Values : SaveUserMemory(u, k, v)
  BY <1>3, SaveStep
<1>4. CASE \E k \in Keys : Elapse(k)
  BY <1>4, ElapseStep
<1>5. CASE Migrate
  BY <1>5, MigrateStep
<1>6. CASE \E j \in Jobs : StartRun(j) \/ JobStep(j) \/ Crash(j) \/ LoseLock(j)
  BY <1>6, StartRunStep, JobStepStep, CrashStep, LoseLockStep
<1>. QED
  BY <1>1, <1>2, <1>3, <1>4, <1>5, <1>6 DEF Next

THEOREM MemoryInvariant == Spec => []MemoryInv
<1>1. MemoryInv /\ [Next]_vars => MemoryInv'
  BY MemoryNext DEF Good, MemoryInv
<1>. QED
  BY MemoryInit, <1>1, PTL DEF Spec

(* The tables of memories, candidates and messages, the provider's calls   *)
(* and the runs of the job keep their shape; a job is in a call only while *)
(* it applies a candidate.                                                 *)
THEOREM TypeCorrect == Spec => []TypeOK
<1>1. MemoryInv => TypeOK
  <2>. SUFFICES ASSUME MemoryInv PROVE TypeOK
    OBVIOUS
  <2>1. \A k \in Keys : Len(rows[k]) <= MaxRows /\ ToSet(rows[k]) \subseteq Row
    <3>1. ASSUME NEW k \in Keys
          PROVE  Len(rows[k]) <= MaxRows /\ ToSet(rows[k]) \subseteq Row
      <4>1. rows[k] \in Seq(Row) /\ Len(rows[k]) <= MaxRows
        BY DEF MemoryInv, RowsOK
      <4>2. \A i \in DOMAIN rows[k] : rows[k][i] \in Row
        BY <4>1, LenProperties, ElementOfSeq
      <4>. QED
        BY <4>1, <4>2 DEF ToSet
    <3>. QED
      BY <3>1
  <2>. QED
    BY <2>1 DEF TypeOK, MemoryInv, RowsOK, CallsOK, Calls, JobsOK, RunOK
<1>. QED
  BY MemoryInvariant, <1>1, PTL

(* remember, forget and the unique index of memory_items keep the rows of  *)
(* a key chains of versions, whoever waits for whose row lock.             *)
THEOREM VersionsAreChained == Spec => []VersionsChain
<1>1. MemoryInv => VersionsChain
  <2>. SUFFICES ASSUME MemoryInv, NEW k \in Keys
                PROVE  /\ Cardinality(Active(k)) <= 1
                       /\ \A i \in DOMAIN rows[k] :
                            LET s == rows[k][i].supersedes IN
                            /\ s # 0 => /\ s < i
                                        /\ rows[k][s].status = "superseded"
                                        /\ rows[k][i].version = rows[k][s].version + 1
                            /\ rows[k][i].status = "superseded" =>
                                 Cardinality({n \in DOMAIN rows[k] :
                                                rows[k][n].supersedes = i}) = 1
    BY DEF VersionsChain
  <2>1. Chain(rows[k]) /\ Active(k) = ActiveIn(rows[k])
    BY FactIs DEF MemoryInv, RowsOK
  <2>2. Cardinality(Active(k)) <= 1
    <3>1. CASE Active(k) = {}
      BY <3>1, FS_EmptySet
    <3>2. CASE Active(k) # {}
      <4>1. PICK i : i \in ActiveIn(rows[k])
        BY <2>1, <3>2
      <4>2. Active(k) = {i}
        BY <2>1, <4>1 DEF Chain, ActiveIn
      <4>3. Cardinality(Active(k)) = 1
        BY <4>2, FS_Singleton
      <4>. QED
        BY <4>3
    <3>. QED
      BY <3>1, <3>2
  <2>3. ASSUME NEW i \in DOMAIN rows[k], rows[k][i].status = "superseded"
        PROVE  Cardinality({n \in DOMAIN rows[k] : rows[k][n].supersedes = i}) = 1
    <3>1. PICK n \in DOMAIN rows[k] : rows[k][n].supersedes = i
      BY <2>1, <2>3 DEF Chain
    <3>2. i # 0
      <4>1. rows[k] \in Seq(Row)
        BY DEF MemoryInv, RowsOK
      <4>2. i \in 1..Len(rows[k])
        BY <4>1, LenProperties
      <4>. QED
        BY <4>2
    <3>3. \A m \in DOMAIN rows[k] : rows[k][m].supersedes = i => m = n
      BY <2>1, <3>1, <3>2 DEF Chain
    <3>4. {m \in DOMAIN rows[k] : rows[k][m].supersedes = i} = {n}
      BY <3>1, <3>3
    <3>. QED
      BY <3>4, FS_Singleton
  <2>4. \A i \in DOMAIN rows[k] : rows[k][i].supersedes # 0 =>
          /\ rows[k][i].supersedes < i
          /\ rows[k][rows[k][i].supersedes].status = "superseded"
          /\ rows[k][i].version = rows[k][rows[k][i].supersedes].version + 1
    BY <2>1 DEF Chain
  <2>. QED
    BY <2>2, <2>3, <2>4
<1>. QED
  BY MemoryInvariant, <1>1, PTL

(* NativePgMemoryProvider, its old table and db_migrate.py implement the   *)
(* abstract store of facts: every step is one of the store's, or is not    *)
(* seen by its callers.                                                    *)
THEOREM KeepsFacts == Spec => FactSpec
<1>1. MemoryInv /\ [Next]_vars => Abstract
  BY MemoryNext DEF Good
<1>2. Init => Store!Init
  BY StoreInit
<1>. QED
  BY MemoryInvariant, <1>1, <1>2, PTL DEF Spec, FactSpec, Store!Spec, Abstract, StoreVars

=============================================================================
