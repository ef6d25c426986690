----------------------------- MODULE RunsProofs -----------------------------
(***************************************************************************)
(* Proofs about Conversations and about Runs, which puts the console of    *)
(* the control plane beside it, for any number of turns, sessions, stored  *)
(* messages and console runs.                                              *)
(*                                                                         *)
(* The inductive invariant says what Strapi holds of a turn at each place, *)
(* who holds the lock of a session or how it was lost, what a stream's     *)
(* queue may contain by then, and that the keys of a web page are those of *)
(* its first answers.                                                      *)
(***************************************************************************)
EXTENDS Runs, SequenceTheorems, FiniteSetTheorems, WellFoundedInduction, TLAPS

Outcomes == {"fine", "unsaved", "raised"}

(* Between the lock and the unlock.                                        *)
Busy == {"reading", "thinking", "saving", "session", "user", "assistant",
         "saved", "leaving"}
Over == {"leaving", "left", "done"}

ShapeOK ==
  /\ at \in [Turns -> Places]
  /\ outcome \in [Turns -> Outcomes]
  /\ holder \in [Sessions -> Locking \cup {NoTurn}]
  /\ lost \subseteq Sessions
  /\ rows \subseteq Sessions
  /\ found \in [Turns -> BOOLEAN]
  /\ msgs \in Seq(Keys)
  /\ seen \in [Turns -> Seq(Keys)]
  /\ events \in [Turns -> Seq(Events)]
  /\ page \in [Sessions -> [history : Seq(Keys), ids : Seq(Keys \cup {NoKey})]]
  /\ faults \in 0..MaxFaults

SeenOK == \A t \in Turns :
  Len(seen[t]) <= Limit /\ ToSet(seen[t]) \subseteq ToSet(msgs)

(* What Strapi has of a turn.                                              *)
Stored(t) ==
  /\ <<t, "user">> \in ToSet(msgs) => at[t] \in {"assistant", "saved"} \cup Over
  /\ <<t, "assistant">> \in ToSet(msgs) => at[t] \in {"saved"} \cup Over
  /\ at[t] = "assistant" => <<t, "user">> \in ToSet(msgs)
  /\ at[t] = "saved" => t \in Streams /\ <<t, "assistant">> \in ToSet(msgs)
  /\ at[t] \in Roles => SessionOf[t] \in rows

MessagesOK ==
  /\ IsInjective(msgs)
  /\ \A t \in Turns : Stored(t)
  /\ AnswerHasQuestion

LocksOK ==
  /\ \A t \in Turns : at[t] = "waiting" => t \in Locking
  /\ \A s \in Sessions : holder[s] # NoTurn =>
       SessionOf[holder[s]] = s /\ at[holder[s]] \in Busy
  /\ \A t \in Locking : at[t] \in Busy =>
       holder[SessionOf[t]] = t \/ SessionOf[t] \in lost

(* What a stream has been told by the time its turn is where it is.        *)
Told(t) ==
  /\ at[t] \notin Over => ToSet(events[t]) \subseteq {"progress"} /\ outcome[t] = "fine"
  /\ at[t] \in {"leaving", "left"} => ToSet(events[t]) \subseteq {"progress", "final"}
  /\ at[t] \in {"leaving", "left"} /\ outcome[t] = "fine" => "final" \in ToSet(events[t])
  /\ at[t] = "leaving" /\ "final" \in ToSet(events[t]) => outcome[t] = "fine"
  /\ at[t] = "left" /\ "final" \in ToSet(events[t]) /\ outcome[t] # "fine" =>
       SessionOf[t] \in lost

StreamsOK == StreamTellsTruth /\ \A t \in Streams : Told(t)

(* A page has no more keys than answers.                                   *)
AnswersAt(history) == {i \in DOMAIN history : history[i][2] = "assistant"}

PageGood(history, ids) ==
  /\ Len(ids) <= Cardinality(AnswersAt(history))
  /\ \A i \in DOMAIN history : FeedbackMessageId(history, ids, i) \in {history[i], NoKey}

PagesGood == \A s \in Sessions : PageGood(page[s].history, page[s].ids)

TurnsInv ==
  /\ ShapeOK
  /\ SeenOK
  /\ MessagesOK
  /\ LocksOK
  /\ StreamsOK
  /\ ChatTurnsSerial
  /\ PagesGood

(* The console: a run is on record before the runner hears of it, and the   *)
(* responses to decisions name no row of agent_runs.                       *)
RecordStatus == {"none", "running", "failed", "completed", "pending_approval"}
HandlerStatus == {"idle", "created", "calling", "asking", "closed"}
ApprovalStatus == {"none", "pending", "approved", "rejected", "executed"}

RunOK(t) ==
  /\ handler[t] # "idle" => record[t] # "none"
  /\ at[t] # "idle" => handler[t] # "idle"
  /\ record[t] = "pending_approval" => approval[t] # "none"
  /\ record[t] = "completed" => at[t] = "done" /\ approval[t] = "none"

ReplyOK(t) == reply[t] # NoReply => reply[t].id \in {GatewayId(t), NoId}

ConsoleOK ==
  /\ record \in [Console -> RecordStatus]
  /\ handler \in [Console -> HandlerStatus]
  /\ approval \in [Console -> ApprovalStatus]
  /\ DOMAIN reply = Console
  /\ \A t \in Console : RunOK(t)
  /\ \A t \in Console : ReplyOK(t)

----------------------------------------------------------------------------
(* Filters.  Rank counts the places up to i, so that the k-th place of P is *)
(* the one of rank k.                                                      *)

LEMMA Least ==
  ASSUME NEW T, T \subseteq Nat, T # {}
  PROVE  \E x \in T : \A y \in T : x <= y
<1>1. PICK R : R = OpToRel(<, Nat)
  OBVIOUS
<1>2. IsWellFoundedOn(R, Nat)
  BY <1>1, NatLessThanWellFounded
<1>3. PICK x \in T : \A y \in T : ~(<<y, x>> \in R)
  BY <1>2, WFMin
<1>4. \A m, n \in Nat : n < m => <<n, m>> \in R
  BY <1>1 DEF OpToRel
<1>5. \A y \in T : ~(y < x) /\ x \in Nat /\ y \in Nat
  BY <1>3, <1>4
<1>. QED
  BY <1>5

LEMMA PlacesFinite ==
  ASSUME NEW N \in Nat, NEW P, P \subseteq 1..N
  PROVE  /\ IsFiniteSet(P) /\ Cardinality(P) \in Nat
         /\ \A i : /\ IsFiniteSet(P \cap (1..i))
                   /\ Rank(P, i) \in Nat /\ Rank(P, i) <= Cardinality(P)
<1>1. IsFiniteSet(1..N)
  BY FS_Interval
<1>2. IsFiniteSet(P) /\ Cardinality(P) \in Nat
  BY <1>1, FS_Subset, FS_CardinalityType
<1>3. ASSUME NEW i
      PROVE  /\ IsFiniteSet(P \cap (1..i))
             /\ Rank(P, i) \in Nat /\ Rank(P, i) <= Cardinality(P)
  <2>1. P \cap (1..i) \in SUBSET P
    OBVIOUS
  <2>. QED
    BY <1>2, <2>1, FS_Subset, FS_CardinalityType DEF Rank
<1>. QED
  BY <1>2, <1>3

LEMMA RankStep ==
  ASSUME NEW N \in Nat, NEW P, P \subseteq 1..N, NEW i \in Nat \ {0}
  PROVE  Rank(P, i) = IF i \in P THEN Rank(P, i - 1) + 1 ELSE Rank(P, i - 1)
<1>1. PICK Q : Q = P \cap (1..(i - 1))
  OBVIOUS
<1>2. IsFiniteSet(Q) /\ Cardinality(Q) = Rank(P, i - 1) /\ i \notin Q
  BY <1>1, PlacesFinite DEF Rank
<1>3. CASE i \in P
  <2>1. P \cap (1..i) = Q \cup {i}
    BY <1>1, <1>3
  <2>. QED
    BY <1>2, <1>3, <2>1, FS_AddElement DEF Rank
<1>4. CASE i \notin P
  <2>1. P \cap (1..i) = Q
    BY <1>1, <1>4
  <2>. QED
    BY <1>2, <1>4, <2>1 DEF Rank
<1>. QED
  BY <1>3, <1>4

LEMMA RankGrows ==
  ASSUME NEW N \in Nat, NEW P, P \subseteq 1..N, NEW i \in Nat, NEW j \in P, i < j
  PROVE  Rank(P, i) < Rank(P, j)
<1>0. \A n : Rank(P, n) \in Nat
  BY PlacesFinite
<1>1. j \in Nat \ {0} /\ i <= j - 1
  OBVIOUS
<1>2. P \cap (1..i) \in SUBSET (P \cap (1..(j - 1)))
  BY <1>1
<1>3. Rank(P, i) <= Rank(P, j - 1)
  BY <1>2, PlacesFinite, FS_Subset DEF Rank
<1>4. Rank(P, j) = Rank(P, j - 1) + 1
  BY <1>1, RankStep
<1>. QED
  BY <1>0, <1>3, <1>4

LEMMA RankRange ==
  ASSUME NEW N \in Nat, NEW P, P \subseteq 1..N, NEW i \in P
  PROVE  Rank(P, i) \in 1..Cardinality(P)
<1>0. /\ Cardinality(P) \in Nat
      /\ \A n : Rank(P, n) \in Nat /\ Rank(P, n) <= Cardinality(P)
  BY PlacesFinite
<1>1. 0 \in Nat /\ 0 < i
  OBVIOUS
<1>2. Rank(P, 0) < Rank(P, i)
  BY <1>1, RankGrows
<1>. QED
  BY <1>0, <1>2

LEMMA RankApart ==
  ASSUME NEW N \in Nat, NEW P, P \subseteq 1..N, NEW i \in P, NEW j \in P,
         Rank(P, i) = Rank(P, j)
  PROVE  i = j
<1>0. \A n : Rank(P, n) \in Nat
  BY PlacesFinite
<1>1. i \in Nat /\ j \in Nat
  OBVIOUS
<1>2. ~(i < j)
  <2>. SUFFICES ASSUME i < j PROVE FALSE
    OBVIOUS
  <2>1. Rank(P, i) < Rank(P, j)
    BY <1>1, RankGrows
  <2>. QED
    BY <1>0, <2>1
<1>3. ~(j < i)
  <2>. SUFFICES ASSUME j < i PROVE FALSE
    OBVIOUS
  <2>1. Rank(P, j) < Rank(P, i)
    BY <1>1, RankGrows
  <2>. QED
    BY <1>0, <2>1
<1>. QED
  BY <1>1, <1>2, <1>3

LEMMA EveryRank ==
  ASSUME NEW N \in Nat, NEW P, P \subseteq 1..N, NEW k \in 1..Cardinality(P)
  PROVE  \E i \in P : Rank(P, i) = k
<1>0. /\ Cardinality(P) \in Nat
      /\ \A n : Rank(P, n) \in Nat /\ Rank(P, n) <= Cardinality(P)
  BY PlacesFinite
<1>1. PICK T : T = {i \in Nat : Rank(P, i) >= k}
  OBVIOUS
<1>2. Rank(P, N) = Cardinality(P)
  <2>1. P \cap (1..N) = P
    OBVIOUS
  <2>. QED
    BY <2>1 DEF Rank
<1>3. N \in T /\ k \in Nat /\ k # 0
  BY <1>0, <1>1, <1>2
<1>4. PICK i \in T : \A n \in T : i <= n
  BY <1>1, <1>3, Least
<1>5. i \in Nat /\ Rank(P, i) \in Nat /\ Rank(P, i) >= k
  BY <1>0, <1>1
<1>6. i # 0
  <2>1. P \cap (1..0) = {}
    OBVIOUS
  <2>2. Rank(P, 0) = 0
    BY <2>1, FS_EmptySet DEF Rank
  <2>. QED
    BY <1>3, <1>5, <2>2
<1>7. i - 1 \in Nat /\ i - 1 \notin T
  BY <1>4, <1>5, <1>6
<1>8. Rank(P, i - 1) < k /\ Rank(P, i - 1) \in Nat
  BY <1>0, <1>1, <1>3, <1>7
<1>9. Rank(P, i) = IF i \in P THEN Rank(P, i - 1) + 1 ELSE Rank(P, i - 1)
  BY <1>5, <1>6, RankStep
<1>. QED
  BY <1>3, <1>5, <1>8, <1>9

(* What a filter gives: as many elements as there are places, each of them *)
(* at its rank.                                                            *)
LEMMA Filtered ==
  ASSUME NEW T, NEW q \in Seq(T), NEW P, P \subseteq DOMAIN q
  PROVE  /\ AtPlaces(q, P) \in Seq(T)
         /\ Len(AtPlaces(q, P)) = Cardinality(P) /\ Cardinality(P) \in Nat
         /\ \A i \in P : /\ Rank(P, i) \in 1..Cardinality(P)
                         /\ AtPlaces(q, P)[Rank(P, i)] = q[i]
<1>1. PICK N \in Nat : N = Len(q) /\ P \subseteq 1..N
  BY LenProperties
<1>2. Cardinality(P) \in Nat
  BY <1>1, PlacesFinite
<1>3. PICK n \in Nat : n = Cardinality(P)
  BY <1>2
<1>4. PICK f : f = [k \in 1..n |-> CHOOSE i \in P : Rank(P, i) = k]
  OBVIOUS
<1>5. \A k \in 1..n : f[k] \in P /\ Rank(P, f[k]) = k
  <2>. SUFFICES ASSUME NEW k \in 1..n PROVE f[k] \in P /\ Rank(P, f[k]) = k
    OBVIOUS
  <2>1. \E i \in P : Rank(P, i) = k
    BY <1>1, <1>3, EveryRank
  <2>2. f[k] = CHOOSE i \in P : Rank(P, i) = k
    BY <1>4
  <2>. QED
    BY <2>1, <2>2
<1>6. PICK p : p = AtPlaces(q, P)
  OBVIOUS
<1>7. DOMAIN p = 1..n /\ \A k \in 1..n : p[k] = q[f[k]]
  BY <1>3, <1>4, <1>6 DEF AtPlaces
<1>8. \A k \in 1..n : p[k] \in T
  BY <1>5, <1>7, ElementOfSeq
<1>9. p = [k \in 1..n |-> p[k]]
  BY <1>3, <1>6, <1>7 DEF AtPlaces
<1>10. p \in [1..n -> T]
  BY <1>8, <1>9
<1>11. p \in Seq(T)
  BY <1>10, IsASeq
<1>12. Len(p) = n
  BY <1>7, <1>11, LenProperties
<1>13. ASSUME NEW i \in P
       PROVE  Rank(P, i) \in 1..n /\ p[Rank(P, i)] = q[i]
  <2>1. PICK k : k = Rank(P, i)
    OBVIOUS
  <2>2. k \in 1..n
    BY <1>1, <1>3, <2>1, RankRange
  <2>3. f[k] \in P /\ Rank(P, f[k]) = Rank(P, i)
    BY <1>5, <2>1, <2>2
  <2>4. f[k] = i
    BY <1>1, <2>3, RankApart
  <2>. QED
    BY <1>7, <2>1, <2>2, <2>4
<1>. QED
  BY <1>3, <1>6, <1>11, <1>12, <1>13

----------------------------------------------------------------------------
(* Messages and histories.                                                 *)

LEMMA Appended ==
  ASSUME NEW T, NEW q \in Seq(T), NEW e \in T
  PROVE  /\ Append(q, e) \in Seq(T) /\ Len(q) \in Nat
         /\ DOMAIN q = 1..Len(q) /\ DOMAIN Append(q, e) = 1..(Len(q) + 1)
         /\ \A i \in 1..Len(q) : Append(q, e)[i] = q[i]
         /\ Append(q, e)[Len(q) + 1] = e
         /\ ToSet(Append(q, e)) = ToSet(q) \cup {e}
<1>1. PICK n \in Nat : n = Len(q) /\ DOMAIN q = 1..n
  BY LenProperties
<1>2. PICK p \in Seq(T) : p = Append(q, e)
  BY AppendProperties
<1>3. /\ Len(p) = n + 1 /\ p[n + 1] = e
      /\ \A i \in 1..n : p[i] = q[i]
  BY <1>1, <1>2, AppendProperties
<1>4. DOMAIN p = 1..(n + 1)
  BY <1>2, <1>3, LenProperties
<1>5. ToSet(p) = ToSet(q) \cup {e}
  <2>1. ASSUME NEW x \in ToSet(p) PROVE x \in ToSet(q) \cup {e}
    <3>1. PICK i \in 1..(n + 1) : x = p[i]
      BY <1>4 DEF ToSet
    <3>2. CASE i = n + 1
      BY <1>3, <3>1, <3>2
    <3>3. CASE i \in 1..n
      BY <1>1, <1>3, <3>1, <3>3 DEF ToSet
    <3>. QED
      BY <3>1, <3>2, <3>3
  <2>2. ASSUME NEW x \in ToSet(q) PROVE x \in ToSet(p)
    <3>1. PICK i \in 1..n : x = q[i]
      BY <1>1 DEF ToSet
    <3>2. i \in 1..(n + 1) /\ x = p[i]
      BY <1>3, <3>1
    <3>. QED
      BY <1>4, <3>2 DEF ToSet
  <2>3. e \in ToSet(p)
    BY <1>3, <1>4 DEF ToSet
  <2>. QED
    BY <2>1, <2>2, <2>3
<1>. QED
  BY <1>1, <1>2, <1>3, <1>4, <1>5

LEMMA PlaceIs ==
  ASSUME NEW N \in Nat, DOMAIN msgs = 1..N, IsInjective(msgs), NEW i \in 1..N
  PROVE  Place(msgs[i]) = i
BY DEF Place, IsInjective

LEMMA LastOnes ==
  ASSUME NEW T, NEW q \in Seq(T), NEW a \in Nat, NEW k \in Nat, Len(q) = a + k,
         NEW r, r = SubSeq(q, a + 1, Len(q))
  PROVE  r \in Seq(T) /\ Len(r) = k /\ \A i \in 1..k : r[i] = q[a + i]
<1>1. PICK b \in Int : b = a + 1
  OBVIOUS
<1>2. PICK L \in Int : L = Len(q)
  OBVIOUS
<1>3. r = SubSeq(q, b, L)
  BY <1>1, <1>2
<1>4. \A i \in 1..L : q[i] \in T
  BY <1>2, ElementOfSeq
<1>5. \A i \in b..L : q[i] \in T
  BY <1>1, <1>4
<1>6. /\ r \in Seq(T) /\ Len(r) = IF b <= L THEN L - b + 1 ELSE 0
      /\ \A i \in 1..(L - b + 1) : r[i] = q[b + i - 1]
  BY <1>3, <1>5, SubSeqProperties
<1>7. L - b + 1 = k /\ (b <= L <=> k # 0)
  BY <1>1, <1>2
<1>8. \A i \in 1..k : b + i - 1 = a + i
  BY <1>1
<1>. QED
  BY <1>6, <1>7, <1>8

(* The window: what it leaves out of a session is older than its last      *)
(* message.                                                                *)
LEMMA Recents ==
  ASSUME NEW s \in Sessions, msgs \in Seq(Keys)
  PROVE  /\ Recent(s) \in Seq(Keys) /\ Len(Recent(s)) \in Nat /\ Len(Recent(s)) <= Limit
         /\ ToSet(Recent(s)) \subseteq ToSet(msgs)
         /\ IsInjective(msgs) =>
              \A m \in ToSet(msgs) : SessionOf[m[1]] = s =>
                \/ m \in ToSet(Recent(s))
                \/ \E n \in ToSet(Recent(s)) : Place(m) < Place(n)
<1>1. PICK N \in Nat : N = Len(msgs) /\ DOMAIN msgs = 1..N
  BY LenProperties
<1>2. PICK P : P = {i \in DOMAIN msgs : SessionOf[msgs[i][1]] = s}
  OBVIOUS
<1>3. P \subseteq 1..N
  BY <1>1, <1>2
<1>4. PICK all \in Seq(Keys) :
        /\ all = AtPlaces(msgs, P) /\ Len(all) = Cardinality(P) /\ Cardinality(P) \in Nat
        /\ \A i \in P : Rank(P, i) \in 1..Cardinality(P) /\ all[Rank(P, i)] = msgs[i]
  <2>1. P \subseteq DOMAIN msgs
    BY <1>2
  <2>2. /\ AtPlaces(msgs, P) \in Seq(Keys)
        /\ Len(AtPlaces(msgs, P)) = Cardinality(P) /\ Cardinality(P) \in Nat
        /\ \A i \in P : /\ Rank(P, i) \in 1..Cardinality(P)
                        /\ AtPlaces(msgs, P)[Rank(P, i)] = msgs[i]
    BY <2>1, Filtered
  <2>. QED
    BY <2>2
<1>5. PICK L \in Nat : L = Len(all) /\ L = Cardinality(P)
  BY <1>4
<1>6. \A i \in P : Rank(P, i) \in 1..L /\ all[Rank(P, i)] = msgs[i]
  BY <1>4, <1>5
<1>7. Limit \in Nat \ {0}
  BY ConversationsAssumption
<1>8. PICK k \in Nat : k = IF L < Limit THEN L ELSE Limit
  BY <1>7
<1>9. PICK a \in Nat : a = L - k /\ k <= L /\ k <= Limit /\ (L # 0 => k # 0)
  <2>1. k <= L /\ k <= Limit /\ (L # 0 => k # 0)
    BY <1>7, <1>8
  <2>2. L - k \in Nat
    BY <2>1
  <2>. QED
    BY <2>1, <2>2
<1>10. PICK r : r = SubSeq(all, a + 1, L)
  OBVIOUS
<1>11. r = Recent(s)
  BY <1>1, <1>2, <1>4, <1>5, <1>8, <1>9, <1>10 DEF Recent, Of
<1>12. Len(all) = a + k
  BY <1>5, <1>9
<1>13. r \in Seq(Keys) /\ Len(r) = k /\ \A i \in 1..k : r[i] = all[a + i]
  <2>1. r = SubSeq(all, a + 1, Len(all))
    BY <1>5, <1>10
  <2>. QED
    BY <1>12, <2>1, LastOnes
<1>14. DOMAIN r = 1..k
  BY <1>13, LenProperties
<1>15. ASSUME NEW x \in ToSet(r) PROVE x \in ToSet(msgs)
  <2>1. PICK i \in 1..k : x = r[i]
    BY <1>14, <1>15 DEF ToSet
  <2>2. a + i \in 1..Cardinality(P)
    BY <1>5, <1>9
  <2>3. PICK j \in P : Rank(P, j) = a + i
    BY <1>1, <1>3, <2>2, EveryRank
  <2>4. j \in DOMAIN msgs /\ x = msgs[j]
    BY <1>2, <1>6, <1>13, <2>1, <2>3
  <2>. QED
    BY <2>4 DEF ToSet
<1>16. ASSUME IsInjective(msgs), NEW m \in ToSet(msgs), SessionOf[m[1]] = s,
              m \notin ToSet(r)
       PROVE  \E n \in ToSet(r) : Place(m) < Place(n)
  <2>1. PICK i \in P : m = msgs[i]
    BY <1>1, <1>2, <1>16 DEF ToSet
  <2>2. PICK x \in 1..L : x = Rank(P, i) /\ all[x] = m
    BY <1>6, <2>1
  <2>3. x <= a
    <3>. SUFFICES ASSUME x > a PROVE FALSE
      OBVIOUS
    <3>1. x - a \in 1..k /\ a + (x - a) = x
      BY <1>9
    <3>2. r[x - a] = m
      BY <1>13, <2>2, <3>1
    <3>. QED
      BY <1>14, <1>16, <3>1, <3>2 DEF ToSet
  <2>4. k \in 1..k /\ a + k = L /\ L \in 1..Cardinality(P)
    BY <1>5, <1>9, <2>2
  <2>5. PICK j \in P : Rank(P, j) = L
    BY <1>3, <2>4, EveryRank
  <2>6. r[k] = msgs[j]
    BY <1>6, <1>13, <2>4, <2>5
  <2>7. i \in 1..N /\ j \in 1..N
    BY <1>3
  <2>8. i < j
    <3>. SUFFICES ASSUME ~(i < j) PROVE FALSE
      OBVIOUS
    <3>1. CASE i = j
      BY <1>9, <2>2, <2>3, <2>4, <2>5, <3>1
    <3>2. CASE j < i
      <4>0. j \in Nat
        BY <2>7
      <4>1. Rank(P, j) < Rank(P, i)
        BY <1>1, <1>3, <3>2, <4>0, RankGrows
      <4>. QED
        BY <2>2, <2>5, <4>1
    <3>. QED
      BY <2>7, <3>1, <3>2
  <2>9. Place(m) = i /\ Place(msgs[j]) = j
    BY <1>1, <1>16, <2>1, <2>7, PlaceIs
  <2>10. msgs[j] \in ToSet(r)
    BY <1>14, <2>4, <2>6 DEF ToSet
  <2>. QED
    BY <2>8, <2>9, <2>10
<1>. QED
  BY <1>9, <1>11, <1>13, <1>15, <1>16

----------------------------------------------------------------------------
(* The page.  The number of answers up to an item is the item's rank among *)
(* the answers.                                                            *)

Histories == Seq(Keys)
KeyLists == Seq(Keys \cup {NoKey})

LEMMA AnswersOf ==
  ASSUME NEW h \in Histories
  PROVE  /\ Answers(h) \in Histories
         /\ Len(Answers(h)) = Cardinality(AnswersAt(h))
         /\ Cardinality(AnswersAt(h)) \in Nat
         /\ \A i \in AnswersAt(h) : Answers(h)[Rank(AnswersAt(h), i)] = h[i]
<1>1. AnswersAt(h) \subseteq DOMAIN h /\ h \in Seq(Keys)
  BY DEF AnswersAt, Histories
<1>2. Answers(h) = AtPlaces(h, AnswersAt(h))
  BY DEF Answers, AnswersAt
<1>. QED
  BY <1>1, <1>2, Filtered DEF Histories

LEMMA CountedAnswers ==
  ASSUME NEW h \in Histories, NEW i \in DOMAIN h
  PROVE  /\ Len(Answers(SubSeq(h, 1, i))) = Rank(AnswersAt(h), i)
         /\ Rank(AnswersAt(h), i) \in Nat
         /\ Rank(AnswersAt(h), i) <= Cardinality(AnswersAt(h))
         /\ i \in AnswersAt(h) => Rank(AnswersAt(h), i) # 0
<1>1. PICK N \in Nat : N = Len(h) /\ DOMAIN h = 1..N /\ h \in Seq(Keys)
  BY LenProperties DEF Histories
<1>2. i \in Nat /\ 1 <= i /\ i <= N
  BY <1>1
<1>3. \A j \in 1..i : h[j] \in Keys
  <2>1. \A j \in 1..N : h[j] \in Keys
    BY <1>1, ElementOfSeq
  <2>. QED
    BY <1>2, <2>1
<1>4. PICK p : p = SubSeq(h, 1, i)
  OBVIOUS
<1>5. /\ p \in Seq(Keys) /\ Len(p) = IF 1 <= i THEN i - 1 + 1 ELSE 0
      /\ \A j \in 1..(i - 1 + 1) : p[j] = h[1 + j - 1]
  BY <1>2, <1>3, <1>4, SubSeqProperties
<1>6. Len(p) = i /\ \A j \in 1..i : p[j] = h[j]
  BY <1>2, <1>5
<1>7. DOMAIN p = 1..i
  BY <1>5, <1>6, LenProperties
<1>8. AnswersAt(p) = AnswersAt(h) \cap (1..i)
  BY <1>1, <1>2, <1>6, <1>7 DEF AnswersAt
<1>9. Len(Answers(p)) = Cardinality(AnswersAt(p))
  BY <1>5, AnswersOf DEF Histories
<1>10. AnswersAt(h) \subseteq 1..N
  BY <1>1 DEF AnswersAt
<1>11. /\ Rank(AnswersAt(h), i) \in Nat
       /\ Rank(AnswersAt(h), i) <= Cardinality(AnswersAt(h))
  BY <1>1, <1>10, PlacesFinite
<1>12. ASSUME i \in AnswersAt(h) PROVE Rank(AnswersAt(h), i) # 0
  <2>1. Rank(AnswersAt(h), i) \in 1..Cardinality(AnswersAt(h))
    BY <1>1, <1>10, <1>12, RankRange
  <2>. QED
    BY <1>11, <2>1
<1>. QED
  BY <1>4, <1>8, <1>9, <1>11, <1>12 DEF Rank

(* The key that a click gets.                                              *)
LEMMA ClickGets ==
  ASSUME NEW h \in Histories, NEW ids \in KeyLists, NEW i \in DOMAIN h
  PROVE  FeedbackMessageId(h, ids, i) =
           IF h[i][2] # "assistant" \/ Rank(AnswersAt(h), i) > Len(ids)
           THEN NoKey ELSE ids[Rank(AnswersAt(h), i)]
BY CountedAnswers DEF FeedbackMessageId

LEMMA NothingShown ==
  ASSUME NEW h, NEW ids, DOMAIN h = {}, Len(ids) = 0
  PROVE  PageGood(h, ids)
<1>1. AnswersAt(h) = {}
  BY DEF AnswersAt
<1>2. Cardinality(AnswersAt(h)) = 0
  BY <1>1, FS_EmptySet
<1>3. Len(ids) <= Cardinality(AnswersAt(h))
  BY <1>2
<1>. QED
  BY <1>3 DEF PageGood

LEMMA EmptyPage == PageGood(<<>>, <<>>)
<1>1. DOMAIN <<>> = {} /\ Len(<<>>) = 0
  OBVIOUS
<1>. QED
  BY <1>1, NothingShown

LEMMA ReloadedPage ==
  ASSUME NEW h \in Histories
  PROVE  Answers(h) \in KeyLists /\ PageGood(h, Answers(h))
<1>1. PICK ids : ids = Answers(h)
  OBVIOUS
<1>2. /\ ids \in Histories /\ Len(ids) = Cardinality(AnswersAt(h)) /\ Len(ids) \in Nat
      /\ \A i \in AnswersAt(h) : ids[Rank(AnswersAt(h), i)] = h[i]
  BY <1>1, AnswersOf
<1>3. ids \in KeyLists
  <2>1. Keys \subseteq Keys \cup {NoKey}
    OBVIOUS
  <2>. QED
    BY <1>2, <2>1, SeqMonotonic DEF Histories, KeyLists
<1>4. ASSUME NEW i \in DOMAIN h
      PROVE  FeedbackMessageId(h, ids, i) \in {h[i], NoKey}
  <2>1. CASE h[i][2] # "assistant"
    BY <1>3, <2>1, ClickGets
  <2>2. CASE h[i][2] = "assistant"
    <3>1. i \in AnswersAt(h)
      BY <1>4, <2>2 DEF AnswersAt
    <3>2. ids[Rank(AnswersAt(h), i)] = h[i]
      BY <1>2, <3>1
    <3>. QED
      BY <1>3, <3>2, ClickGets
  <2>. QED
    BY <2>1, <2>2
<1>. QED
  BY <1>1, <1>2, <1>3, <1>4 DEF PageGood

LEMMA AppendedHistory ==
  ASSUME NEW h \in Histories, NEW m \in Keys
  PROVE  /\ Append(h, m) \in Histories
         /\ Cardinality(AnswersAt(h)) \in Nat
         /\ Len(h) \in Nat /\ DOMAIN h = 1..Len(h)
         /\ DOMAIN Append(h, m) = 1..(Len(h) + 1)
         /\ Append(h, m)[Len(h) + 1] = m
         /\ \A i \in DOMAIN h : Append(h, m)[i] = h[i]
         /\ \A i \in DOMAIN h : Rank(AnswersAt(Append(h, m)), i) = Rank(AnswersAt(h), i)
         /\ Cardinality(AnswersAt(Append(h, m))) =
              IF m[2] = "assistant" THEN Cardinality(AnswersAt(h)) + 1
              ELSE Cardinality(AnswersAt(h))
         /\ Rank(AnswersAt(Append(h, m)), Len(h) + 1) = Cardinality(AnswersAt(Append(h, m)))
<1>1. PICK g : g = Append(h, m)
  OBVIOUS
<1>2. PICK N \in Nat : N = Len(h)
  BY LenProperties DEF Histories
<1>3. /\ DOMAIN h = 1..N /\ DOMAIN g = 1..(N + 1) /\ g \in Histories
      /\ g[N + 1] = m /\ \A i \in 1..N : g[i] = h[i]
  BY <1>1, <1>2, Appended DEF Histories
<1>4. PICK A : A = AnswersAt(h)
  OBVIOUS
<1>5. PICK B : B = AnswersAt(g)
  OBVIOUS
<1>6. B = IF m[2] = "assistant" THEN A \cup {N + 1} ELSE A
  BY <1>3, <1>4, <1>5 DEF AnswersAt
<1>7. A \subseteq 1..N /\ N + 1 \notin A
  BY <1>3, <1>4 DEF AnswersAt
<1>8. \A i \in 1..N : B \cap (1..i) = A \cap (1..i)
  BY <1>6
<1>9. IsFiniteSet(A) /\ Cardinality(A) \in Nat
  BY <1>7, PlacesFinite
<1>10. Cardinality(A \cup {N + 1}) = Cardinality(A) + 1
  BY <1>7, <1>9, FS_AddElement
<1>11. B \cap (1..(N + 1)) = B
  BY <1>3, <1>5 DEF AnswersAt
<1>. QED
  BY <1>1, <1>2, <1>3, <1>4, <1>5, <1>6, <1>8, <1>9, <1>10, <1>11 DEF Rank

LEMMA AppendedQuestion ==
  ASSUME NEW h \in Histories, NEW ids \in KeyLists, NEW m \in Keys,
         m[2] # "assistant", PageGood(h, ids)
  PROVE  PageGood(Append(h, m), ids)
<1>1. PICK g \in Histories : g = Append(h, m)
  BY AppendedHistory
<1>2. Len(ids) <= Cardinality(AnswersAt(g))
  BY <1>1, AppendedHistory DEF PageGood
<1>3. ASSUME NEW i \in DOMAIN g
      PROVE  FeedbackMessageId(g, ids, i) \in {g[i], NoKey}
  <2>1. CASE i \in DOMAIN h
    <3>1. g[i] = h[i] /\ Rank(AnswersAt(g), i) = Rank(AnswersAt(h), i)
      BY <1>1, <2>1, AppendedHistory
    <3>2. FeedbackMessageId(g, ids, i) = FeedbackMessageId(h, ids, i)
      BY <1>3, <2>1, <3>1, ClickGets
    <3>. QED
      BY <2>1, <3>1, <3>2 DEF PageGood
  <2>2. CASE i = Len(h) + 1
    <3>1. g[i][2] # "assistant"
      BY <1>1, <2>2, AppendedHistory
    <3>. QED
      BY <1>3, <3>1, ClickGets
  <2>3. i \in DOMAIN h \/ i = Len(h) + 1
    <3>1. Len(h) \in Nat /\ DOMAIN h = 1..Len(h) /\ DOMAIN g = 1..(Len(h) + 1)
      BY <1>1, AppendedHistory
    <3>. QED
      BY <1>3, <3>1
  <2>. QED
    BY <2>1, <2>2, <2>3
<1>. QED
  BY <1>1, <1>2, <1>3 DEF PageGood

LEMMA AppendedAnswer ==
  ASSUME NEW h \in Histories, NEW ids \in KeyLists, NEW m \in Keys,
         m[2] = "assistant", PageGood(h, ids)
  PROVE  PageGood(Append(h, m), Append(ids, NoKey)) /\ Append(ids, NoKey) \in KeyLists
<1>1. PICK g \in Histories : g = Append(h, m)
  BY AppendedHistory
<1>2. PICK c \in Nat : c = Cardinality(AnswersAt(h)) /\ c + 1 = Cardinality(AnswersAt(g))
  BY <1>1, AppendedHistory
<1>3. PICK js : js = Append(ids, NoKey)
  OBVIOUS
<1>4. PICK n \in Nat : n = Len(ids) /\ n <= c
  BY <1>2, LenProperties DEF PageGood, KeyLists
<1>5. /\ js \in KeyLists /\ Len(js) = n + 1 /\ js[n + 1] = NoKey
      /\ \A k \in 1..n : js[k] = ids[k]
  <2>1. NoKey \in Keys \cup {NoKey}
    OBVIOUS
  <2>. QED
    BY <1>3, <1>4, <2>1, AppendProperties DEF KeyLists
<1>6. ASSUME NEW i \in DOMAIN g
      PROVE  FeedbackMessageId(g, js, i) \in {g[i], NoKey}
  <2>1. CASE i \in DOMAIN h
    <3>1. g[i] = h[i] /\ Rank(AnswersAt(g), i) = Rank(AnswersAt(h), i)
      BY <1>1, <2>1, AppendedHistory
    <3>2. PICK k \in Nat : k = Rank(AnswersAt(h), i) /\ (i \in AnswersAt(h) => k # 0)
      BY <2>1, CountedAnswers
    <3>3. FeedbackMessageId(g, js, i) =
            IF g[i][2] # "assistant" \/ k > n + 1 THEN NoKey ELSE js[k]
      BY <1>5, <1>6, <3>1, <3>2, ClickGets
    <3>4. FeedbackMessageId(h, ids, i) =
            IF h[i][2] # "assistant" \/ k > n THEN NoKey ELSE ids[k]
      BY <1>4, <2>1, <3>2, ClickGets
    <3>5. FeedbackMessageId(h, ids, i) \in {h[i], NoKey}
      BY <2>1 DEF PageGood
    <3>6. CASE h[i][2] # "assistant" \/ k > n
      BY <1>5, <3>1, <3>2, <3>3, <3>6
    <3>7. CASE h[i][2] = "assistant" /\ k <= n
      <4>1. i \in AnswersAt(h)
        BY <2>1, <3>7 DEF AnswersAt
      <4>2. k \in 1..n
        BY <3>2, <3>7, <4>1
      <4>3. js[k] = ids[k]
        BY <1>5, <4>2
      <4>. QED
        BY <3>1, <3>3, <3>4, <3>5, <3>7, <4>2, <4>3
    <3>. QED
      BY <3>2, <3>6, <3>7
  <2>2. CASE i = Len(h) + 1
    <3>1. Rank(AnswersAt(g), i) = c + 1
      BY <1>1, <1>2, <2>2, AppendedHistory
    <3>2. FeedbackMessageId(g, js, i) =
            IF g[i][2] # "assistant" \/ c + 1 > n + 1 THEN NoKey ELSE js[c + 1]
      BY <1>5, <1>6, <3>1, ClickGets
    <3>. QED
      BY <1>4, <1>5, <3>2
  <2>3. i \in DOMAIN h \/ i = Len(h) + 1
    <3>1. Len(h) \in Nat /\ DOMAIN h = 1..Len(h) /\ DOMAIN g = 1..(Len(h) + 1)
      BY <1>1, AppendedHistory
    <3>. QED
      BY <1>6, <3>1
  <2>. QED
    BY <2>1, <2>2, <2>3
<1>. QED
  BY <1>1, <1>2, <1>3, <1>4, <1>5, <1>6 DEF PageGood

----------------------------------------------------------------------------
(* A turn moves.  What the others and their sessions had they keep, so each *)
(* part of the invariant is preserved if the turn that moves keeps its own. *)

LEMMA Moved ==
  ASSUME ShapeOK, NEW t \in Turns, NEW place \in Places, Go(t, place)
  PROVE  /\ at' \in [Turns -> Places]
         /\ at'[t] = place
         /\ \A u \in Turns : u # t => at'[u] = at[u]
BY DEF ShapeOK, Go

LEMMA MessagesFrame ==
  ASSUME MessagesOK, NEW t \in Turns, UNCHANGED msgs, rows \subseteq rows',
         \A u \in Turns : u # t => at'[u] = at[u],
         Stored(t)'
  PROVE  MessagesOK'
<1>1. IsInjective(msgs)'
  BY DEF MessagesOK
<1>2. ASSUME NEW u \in Turns PROVE Stored(u)'
  <2>1. CASE u = t
    BY <2>1
  <2>2. CASE u # t
    <3>1. at'[u] = at[u] /\ Stored(u)
      BY <1>2, <2>2 DEF MessagesOK
    <3>. QED
      BY <3>1 DEF Stored
  <2>. QED
    BY <2>1, <2>2
<1>3. AnswerHasQuestion'
  BY DEF MessagesOK, AnswerHasQuestion
<1>. QED
  BY <1>1, <1>2, <1>3 DEF MessagesOK

LEMMA SeenFrame ==
  ASSUME SeenOK, UNCHANGED <<msgs, seen>>
  PROVE  SeenOK'
BY DEF SeenOK

LEMMA LocksFrame ==
  ASSUME ShapeOK, LocksOK, NEW t \in Turns, UNCHANGED holder, lost \subseteq lost',
         \A u \in Turns : u # t => at'[u] = at[u],
         at'[t] = "waiting" => t \in Locking,
         t \in Locking => (at[t] \in Busy <=> at'[t] \in Busy)
  PROVE  LocksOK'
<1>1. \A u \in Turns : u \in Locking => (at[u] \in Busy <=> at'[u] \in Busy)
  OBVIOUS
<1>2. \A u \in Turns : at'[u] = "waiting" => u \in Locking
  BY DEF LocksOK
<1>3. ASSUME NEW s \in Sessions, holder[s] # NoTurn
      PROVE  SessionOf[holder[s]] = s /\ at'[holder[s]] \in Busy
  <2>1. holder[s] \in Locking /\ holder[s] \in Turns
    BY <1>3 DEF ShapeOK, Locking
  <2>. QED
    BY <1>1, <1>3, <2>1 DEF LocksOK
<1>4. ASSUME NEW u \in Locking, at'[u] \in Busy
      PROVE  holder[SessionOf[u]] = u \/ SessionOf[u] \in lost'
  BY <1>1, <1>4 DEF LocksOK, Locking
<1>. QED
  BY <1>2, <1>3, <1>4 DEF LocksOK

LEMMA StreamsFrame ==
  ASSUME StreamsOK, NEW t \in Turns, UNCHANGED events,
         ToSet(msgs) \subseteq ToSet(msgs'), lost \subseteq lost',
         \A u \in Turns : u # t => at'[u] = at[u] /\ outcome'[u] = outcome[u],
         t \in Streams => Told(t)'
  PROVE  StreamsOK'
<1>1. StreamTellsTruth'
  BY DEF StreamsOK, StreamTellsTruth
<1>2. ASSUME NEW u \in Streams PROVE Told(u)'
  <2>1. CASE u = t
    BY <1>2, <2>1
  <2>2. CASE u # t
    <3>1. at'[u] = at[u] /\ outcome'[u] = outcome[u] /\ Told(u)
      BY <1>2, <2>2 DEF StreamsOK, Streams
    <3>. QED
      BY <3>1 DEF Told
  <2>. QED
    BY <2>1, <2>2
<1>. QED
  BY <1>1, <1>2 DEF StreamsOK

Working == {"thinking", "saving", "session", "user", "assistant", "saved"}

LEMMA SerialFrame ==
  ASSUME ChatTurnsSerial, NEW t \in Turns, UNCHANGED <<msgs, seen>>, lost \subseteq lost',
         \A u \in Turns : u # t => at'[u] = at[u],
         t \in Locking /\ at'[t] \in Working => at[t] \in Working
  PROVE  ChatTurnsSerial'
<1>1. \A u \in Turns : u \in Locking /\ at'[u] \in Working => at[u] \in Working
  OBVIOUS
<1>2. Locking \subseteq Turns
  BY DEF Locking
<1>. QED
  BY <1>1, <1>2 DEF ChatTurnsSerial, Working, Place

LEMMA PagesFrame ==
  ASSUME PagesGood, UNCHANGED page
  PROVE  PagesGood'
BY DEF PagesGood, PageGood, AnswersAt, FeedbackMessageId, NoKey

LEMMA Kinds ==
  /\ Locking \subseteq Turns /\ Streams \subseteq Locking /\ Pages \subseteq Locking
  /\ NoTurn \notin Turns
  /\ \A t \in Turns : SessionOf[t] \in Sessions /\ ExitPlace(t) \in {"leaving", "left"}
  /\ \A t \in Turns : ExitPlace(t) = "leaving" <=> t \in Locking
BY ConversationsAssumption DEF Locking, Streams, Pages, ExitPlace

----------------------------------------------------------------------------
(* Steps that only move a turn, or move it and say how it ended.           *)

PageType == [Sessions -> [history : Seq(Keys), ids : Seq(Keys \cup {NoKey})]]

LEMMA QuietStep ==
  ASSUME TurnsInv, NEW t \in Turns, UNCHANGED <<holder, lost, msgs, seen, events>>,
         at' \in [Turns -> Places], \A u \in Turns : u # t => at'[u] = at[u],
         outcome' \in [Turns -> Outcomes],
         \A u \in Turns : u # t => outcome'[u] = outcome[u],
         rows \subseteq rows', rows' \subseteq Sessions,
         found' \in [Turns -> BOOLEAN], faults' \in 0..MaxFaults,
         page' \in PageType, PagesGood',
         Stored(t)',
         at'[t] = "waiting" => t \in Locking,
         t \in Locking => (at[t] \in Busy <=> at'[t] \in Busy),
         t \in Streams => Told(t)',
         t \in Locking /\ at'[t] \in Working => at[t] \in Working
  PROVE  TurnsInv'
<1>1. ShapeOK'
  BY DEF TurnsInv, ShapeOK, PageType
<1>2. SeenOK'
  BY SeenFrame DEF TurnsInv
<1>3. MessagesOK'
  BY MessagesFrame DEF TurnsInv
<1>4. LocksOK'
  BY LocksFrame DEF TurnsInv
<1>5. StreamsOK'
  BY StreamsFrame DEF TurnsInv
<1>6. ChatTurnsSerial'
  BY SerialFrame DEF TurnsInv
<1>. QED
  BY <1>1, <1>2, <1>3, <1>4, <1>5, <1>6 DEF TurnsInv

LEMMA SamePages ==
  ASSUME TurnsInv, UNCHANGED page
  PROVE  page' \in PageType /\ PagesGood'
BY PagesFrame DEF TurnsInv, ShapeOK, PageType

LEMMA FaultIs ==
  ASSUME TurnsInv
  PROVE  /\ faults \in 0..MaxFaults
         /\ Fault => faults' \in 0..MaxFaults
BY ConversationsAssumption DEF TurnsInv, ShapeOK, Fault

LEMMA Parts ==
  ASSUME TurnsInv
  PROVE  /\ ShapeOK /\ outcome \in [Turns -> Outcomes]
         /\ rows \subseteq Sessions /\ found \in [Turns -> BOOLEAN]
         /\ \A t \in Turns : Stored(t)
         /\ \A t \in Streams : Told(t)
BY DEF TurnsInv, ShapeOK, MessagesOK, StreamsOK

LEMMA AnswerKeeps ==
  ASSUME TurnsInv, NEW t \in Turns, Answer(t)
  PROVE  TurnsInv'
<1>1. at[t] = "thinking" /\ Go(t, "saving") /\ "saving" \in Places
  BY DEF Answer, Places
<1>2. /\ at' \in [Turns -> Places] /\ at'[t] = "saving"
      /\ \A u \in Turns : u # t => at'[u] = at[u]
  BY <1>1, Moved, Parts
<1>3. UNCHANGED <<outcome, holder, lost, rows, found, msgs, seen, events, page, faults>>
  BY DEF Answer
<1>4. Stored(t)'
  BY <1>1, <1>2, <1>3, Parts DEF Stored, Roles, Over
<1>5. t \in Streams => Told(t)'
  BY <1>1, <1>2, <1>3, Parts DEF Told, Over
<1>6. page' \in PageType /\ PagesGood'
  BY <1>3, SamePages
<1>7. at[t] \in Busy /\ at'[t] \in Busy /\ at[t] \in Working /\ at'[t] # "waiting"
  BY <1>1, <1>2 DEF Busy, Working
<1>. QED
  BY <1>2, <1>3, <1>4, <1>5, <1>6, <1>7, Parts, FaultIs, QuietStep

LEMMA FindSessionKeeps ==
  ASSUME TurnsInv, NEW t \in Turns, FindSession(t)
  PROVE  TurnsInv'
<1>1. at[t] = "saving" /\ Go(t, "session") /\ "session" \in Places
  BY DEF FindSession, Places
<1>2. /\ at' \in [Turns -> Places] /\ at'[t] = "session"
      /\ \A u \in Turns : u # t => at'[u] = at[u]
  BY <1>1, Moved, Parts
<1>3. UNCHANGED <<outcome, holder, lost, rows, msgs, seen, events, page, faults>>
  BY DEF FindSession
<1>4. Stored(t)'
  BY <1>1, <1>2, <1>3, Parts DEF Stored, Roles, Over
<1>5. t \in Streams => Told(t)'
  BY <1>1, <1>2, <1>3, Parts DEF Told, Over
<1>6. page' \in PageType /\ PagesGood'
  BY <1>3, SamePages
<1>7. at[t] \in Busy /\ at'[t] \in Busy /\ at[t] \in Working /\ at'[t] # "waiting"
  BY <1>1, <1>2 DEF Busy, Working
<1>8. found' \in [Turns -> BOOLEAN]
  BY Parts DEF FindSession
<1>. QED
  BY <1>2, <1>3, <1>4, <1>5, <1>6, <1>7, <1>8, Parts, FaultIs, QuietStep

LEMMA SaveSessionKeeps ==
  ASSUME TurnsInv, NEW t \in Turns, SaveSession(t)
  PROVE  TurnsInv'
<1>1. at[t] = "session" /\ Go(t, "user") /\ "user" \in Places
  BY DEF SaveSession, Places
<1>2. /\ at' \in [Turns -> Places] /\ at'[t] = "user"
      /\ \A u \in Turns : u # t => at'[u] = at[u]
  BY <1>1, Moved, Parts
<1>3. /\ UNCHANGED <<outcome, holder, lost, msgs, seen, events, page, faults>>
      /\ rows' = rows \cup {SessionOf[t]}
  BY DEF SaveSession
<1>4. rows \subseteq rows' /\ rows' \subseteq Sessions /\ SessionOf[t] \in rows'
  BY <1>3, Kinds, Parts
<1>5. Stored(t)'
  BY <1>1, <1>2, <1>3, <1>4, Parts DEF Stored, Roles, Over
<1>6. t \in Streams => Told(t)'
  BY <1>1, <1>2, <1>3, Parts DEF Told, Over
<1>7. page' \in PageType /\ PagesGood'
  BY <1>3, SamePages
<1>8. at[t] \in Busy /\ at'[t] \in Busy /\ at[t] \in Working /\ at'[t] # "waiting"
  BY <1>1, <1>2 DEF Busy, Working
<1>9. found' \in [Turns -> BOOLEAN]
  BY Parts DEF SaveSession
<1>. QED
  BY <1>2, <1>3, <1>4, <1>5, <1>6, <1>7, <1>8, <1>9, Parts, FaultIs, QuietStep

(* A turn that fails before its answer is stored and told of.              *)
LEMMA GivenUp ==
  ASSUME TurnsInv, NEW t \in Turns, GiveUp(t),
         at[t] \in {"reading", "thinking", "saving", "session", "user", "assistant"},
         outcome' \in [Turns -> Outcomes], outcome'[t] # "fine",
         \A u \in Turns : u # t => outcome'[u] = outcome[u],
         faults' \in 0..MaxFaults, rows \subseteq rows', rows' \subseteq Sessions,
         UNCHANGED <<holder, lost, found, msgs, seen, events, page>>
  PROVE  TurnsInv'
<1>1. Go(t, ExitPlace(t)) /\ ExitPlace(t) \in {"leaving", "left"} /\ ExitPlace(t) \in Places
  BY Kinds DEF GiveUp, Places
<1>2. /\ at' \in [Turns -> Places] /\ at'[t] = ExitPlace(t)
      /\ \A u \in Turns : u # t => at'[u] = at[u]
  BY <1>1, Moved, Parts
<1>3. Stored(t)'
  BY <1>1, <1>2, Parts DEF Stored, Roles, Over
<1>4. t \in Streams => Told(t)'
  <2>. SUFFICES ASSUME t \in Streams PROVE Told(t)'
    OBVIOUS
  <2>1. ToSet(events[t]) \subseteq {"progress"}
    BY Parts DEF Told, Over
  <2>. QED
    BY <1>1, <1>2, <2>1 DEF Told, Over
<1>5. page' \in PageType /\ PagesGood'
  BY SamePages
<1>6. t \in Locking => at[t] \in Busy /\ at'[t] \in Busy
  BY <1>2, Kinds DEF Busy
<1>7. at'[t] # "waiting" /\ at'[t] \notin Working
  BY <1>1, <1>2 DEF Working
<1>. QED
  BY <1>2, <1>3, <1>4, <1>5, <1>6, <1>7, Parts, QuietStep

LEMMA AnswerFailsKeeps ==
  ASSUME TurnsInv, NEW t \in Turns, AnswerFails(t)
  PROVE  TurnsInv'
<1>1. /\ at[t] = "thinking" /\ Fault /\ GiveUp(t)
      /\ outcome' = [outcome EXCEPT ![t] = "raised"]
      /\ UNCHANGED <<holder, lost, rows, found, msgs, seen, events, page>>
  BY DEF AnswerFails
<1>2. /\ outcome' \in [Turns -> Outcomes] /\ outcome'[t] # "fine"
      /\ \A u \in Turns : u # t => outcome'[u] = outcome[u]
  BY <1>1, Parts DEF Outcomes
<1>3. rows \subseteq rows' /\ rows' \subseteq Sessions
  BY <1>1, Parts
<1>. QED
  BY <1>1, <1>2, <1>3, FaultIs, GivenUp

LEMMA LoadFailsKeeps ==
  ASSUME TurnsInv, NEW t \in Turns, LoadFails(t)
  PROVE  TurnsInv'
<1>1. /\ at[t] = "reading" /\ Fault
      /\ UNCHANGED <<holder, lost, rows, found, msgs, seen, events, page>>
  BY DEF LoadFails
<1>2. CASE t \in Locking
  <2>1. GiveUp(t) /\ outcome' = [outcome EXCEPT ![t] = "raised"]
    BY <1>2 DEF LoadFails
  <2>2. /\ outcome' \in [Turns -> Outcomes] /\ outcome'[t] # "fine"
        /\ \A u \in Turns : u # t => outcome'[u] = outcome[u]
    BY <2>1, Parts DEF Outcomes
  <2>3. rows \subseteq rows' /\ rows' \subseteq Sessions
    BY <1>1, Parts
  <2>. QED
    BY <1>1, <2>1, <2>2, <2>3, FaultIs, GivenUp
<1>3. CASE t \notin Locking
  <2>1. Go(t, "thinking") /\ UNCHANGED outcome /\ "thinking" \in Places
    BY <1>3 DEF LoadFails, Places
  <2>2. /\ at' \in [Turns -> Places] /\ at'[t] = "thinking"
        /\ \A u \in Turns : u # t => at'[u] = at[u]
    BY <2>1, Moved, Parts
  <2>3. Stored(t)'
    BY <1>1, <2>2, Parts DEF Stored, Roles, Over
  <2>4. t \notin Streams
    BY <1>3, Kinds
  <2>. QED
    BY <1>1, <1>3, <2>1, <2>2, <2>3, <2>4, SamePages, Parts, FaultIs, QuietStep
<1>. QED
  BY <1>2, <1>3

LEMMA NoNews ==
  ASSUME TurnsInv, NEW t \in Turns, NEW place \in Places, Go(t, place),
         UNCHANGED <<outcome, events>>,
         \/ at[t] = "left" /\ place = "done"
         \/ at[t] \notin Over /\ place \notin Over
  PROVE  t \in Streams => Told(t)'
<1>1. at'[t] = place
  BY Moved, Parts
<1>. QED
  BY <1>1, Parts DEF Told, Over

(* The page changes with what its turns do.                                *)
LEMMA PageIs ==
  ASSUME TurnsInv, NEW s \in Sessions
  PROVE  /\ page[s].history \in Histories /\ page[s].ids \in KeyLists
         /\ PageGood(page[s].history, page[s].ids)
BY DEF TurnsInv, ShapeOK, PagesGood, Histories, KeyLists

LEMMA NewPage ==
  ASSUME TurnsInv, NEW s \in Sessions, NEW h \in Histories, NEW ids \in KeyLists,
         PageGood(h, ids), page' \in PageType,
         page'[s].history = h /\ page'[s].ids = ids,
         \A r \in Sessions : r # s => page'[r] = page[r]
  PROVE  PagesGood'
<1>1. ASSUME NEW r \in Sessions
      PROVE  PageGood(page'[r].history, page'[r].ids)
  <2>1. CASE r = s
    BY <2>1
  <2>2. CASE r # s
    BY <1>1, <2>2, PageIs
  <2>. QED
    BY <2>1, <2>2
<1>2. ASSUME NEW r \in Sessions
      PROVE  PageGood(page[r].history, page[r].ids)'
  BY <1>1, <1>2 DEF PageGood, AnswersAt, FeedbackMessageId, NoKey, Answers, AtPlaces, Rank
<1>. QED
  BY <1>2 DEF PagesGood

LEMMA ReloadKeeps ==
  ASSUME TurnsInv, NEW s \in Sessions, page' = [page EXCEPT ![s] = Reloaded(s)]
  PROVE  page' \in PageType /\ PagesGood'
<1>1. PICK h \in Histories : h = Recent(s)
  BY Recents DEF TurnsInv, ShapeOK, Histories
<1>2. Answers(h) \in KeyLists /\ PageGood(h, Answers(h))
  BY ReloadedPage
<1>3. page' = [page EXCEPT ![s] = [history |-> h, ids |-> Answers(h)]]
  BY <1>1 DEF Reloaded
<1>4. page \in PageType
  BY DEF TurnsInv, ShapeOK, PageType
<1>5. /\ page' \in PageType /\ page'[s].history = h /\ page'[s].ids = Answers(h)
      /\ \A r \in Sessions : r # s => page'[r] = page[r]
  BY <1>2, <1>3, <1>4 DEF PageType, Histories, KeyLists
<1>. QED
  BY <1>2, <1>5, NewPage

LEMMA QuestionKeeps ==
  ASSUME TurnsInv, NEW s \in Sessions, NEW t \in Turns,
         page' = [page EXCEPT ![s].history = Append(@, <<t, "user">>)]
  PROVE  page' \in PageType /\ PagesGood'
<1>1. PICK m \in Keys : m = <<t, "user">>
  BY DEF Keys, Roles
<1>2. PICK h \in Histories : h = Append(page[s].history, m)
  BY PageIs, AppendedHistory
<1>3. PageGood(h, page[s].ids)
  BY <1>1, <1>2, PageIs, AppendedQuestion
<1>4. page \in PageType
  BY DEF TurnsInv, ShapeOK, PageType
<1>5. page' = [page EXCEPT ![s] = [@ EXCEPT !.history = h]]
  BY <1>1, <1>2, <1>4 DEF PageType
<1>6. /\ page' \in PageType /\ page'[s].history = h /\ page'[s].ids = page[s].ids
      /\ \A r \in Sessions : r # s => page'[r] = page[r]
  <2>. DEFINE R == [history : Seq(Keys), ids : Seq(Keys \cup {NoKey})]
  <2>1. PICK old \in R : old = page[s]
    BY <1>4 DEF PageType
  <2>2. PICK p : p = [old EXCEPT !.history = h]
    OBVIOUS
  <2>3. p \in R /\ p.history = h /\ p.ids = old.ids
    BY <2>2 DEF Histories
  <2>4. page' = [page EXCEPT ![s] = p]
    BY <1>5, <2>1, <2>2
  <2>5. page' \in PageType /\ page'[s] = p
    BY <1>4, <2>3, <2>4 DEF PageType
  <2>. QED
    BY <1>4, <2>1, <2>3, <2>4, <2>5 DEF PageType
<1>. QED
  BY <1>3, <1>6, PageIs, NewPage

LEMMA UnsavedKeeps ==
  ASSUME TurnsInv, NEW s \in Sessions, NEW t \in Turns,
         page' = [page EXCEPT ![s] = [history |-> Append(@.history, <<t, "assistant">>),
                                      ids |-> Append(@.ids, NoKey)]]
  PROVE  page' \in PageType /\ PagesGood'
<1>1. PICK m \in Keys : m = <<t, "assistant">>
  BY DEF Keys, Roles
<1>2. PICK h \in Histories : h = Append(page[s].history, m)
  BY PageIs, AppendedHistory
<1>3. PICK ids \in KeyLists : ids = Append(page[s].ids, NoKey)
  BY <1>1, PageIs, AppendedAnswer
<1>4. PageGood(h, ids)
  BY <1>1, <1>2, <1>3, PageIs, AppendedAnswer
<1>5. page \in PageType
  BY DEF TurnsInv, ShapeOK, PageType
<1>6. page' = [page EXCEPT ![s] = [history |-> h, ids |-> ids]]
  BY <1>1, <1>2, <1>3, <1>5 DEF PageType
<1>7. /\ page' \in PageType /\ page'[s].history = h /\ page'[s].ids = ids
      /\ \A r \in Sessions : r # s => page'[r] = page[r]
  <2>1. PICK p \in [history : Seq(Keys), ids : Seq(Keys \cup {NoKey})] :
          p = [history |-> h, ids |-> ids]
    BY DEF Histories, KeyLists
  <2>2. page' = [page EXCEPT ![s] = p]
    BY <1>6, <2>1
  <2>3. page' \in PageType /\ page'[s] = p
    BY <1>5, <2>2 DEF PageType
  <2>. QED
    BY <1>5, <2>1, <2>2, <2>3 DEF PageType
<1>. QED
  BY <1>4, <1>7, NewPage

LEMMA ArriveKeeps ==
  ASSUME TurnsInv, NEW t \in Turns, Arrive(t)
  PROVE  TurnsInv'
<1>1. PICK place \in Places : /\ place = IF t \in Locking THEN "waiting" ELSE "reading"
                              /\ Go(t, place)
  BY DEF Arrive, Places
<1>2. at[t] = "idle" /\ UNCHANGED <<outcome, holder, lost, rows, found, msgs, seen, events, faults>>
  BY DEF Arrive
<1>3. /\ at' \in [Turns -> Places] /\ at'[t] = place
      /\ \A u \in Turns : u # t => at'[u] = at[u]
  BY <1>1, Moved, Parts
<1>4. Stored(t)'
  BY <1>1, <1>2, <1>3, Parts DEF Stored, Roles, Over
<1>5. t \in Streams => Told(t)'
  BY <1>1, <1>2, NoNews DEF Over
<1>6. page' \in PageType /\ PagesGood'
  <2>1. CASE t \in Pages
    BY <2>1, Kinds, QuestionKeeps DEF Arrive
  <2>2. CASE t \notin Pages
    BY <2>2, SamePages DEF Arrive
  <2>. QED
    BY <2>1, <2>2
<1>7. /\ t \in Locking => at[t] \notin Busy /\ at'[t] \notin Busy
      /\ at'[t] \notin Working /\ (at'[t] = "waiting" => t \in Locking)
  BY <1>1, <1>2, <1>3 DEF Busy, Working
<1>. QED
  BY <1>2, <1>3, <1>4, <1>5, <1>6, <1>7, Parts, FaultIs, QuietStep

LEMMA ShowPageKeeps ==
  ASSUME TurnsInv, NEW t \in Turns, ShowPage(t)
  PROVE  TurnsInv'
<1>1. at[t] = "left" /\ Go(t, "done") /\ "done" \in Places /\ t \in Pages
  BY DEF ShowPage, Places
<1>2. UNCHANGED <<outcome, holder, lost, rows, found, msgs, seen, events>>
  BY DEF ShowPage
<1>3. /\ at' \in [Turns -> Places] /\ at'[t] = "done"
      /\ \A u \in Turns : u # t => at'[u] = at[u]
  BY <1>1, Moved, Parts
<1>4. Stored(t)'
  BY <1>1, <1>2, <1>3, Parts DEF Stored, Roles, Over
<1>5. t \in Streams => Told(t)'
  BY <1>1, <1>2, NoNews
<1>6. PICK s \in Sessions : s = SessionOf[t]
  BY Kinds
<1>7. \/ page' = [page EXCEPT ![s] = Reloaded(s)] /\ UNCHANGED faults
      \/ Fault /\ UNCHANGED page
      \/ /\ page' = [page EXCEPT ![s] = [history |-> Append(@.history, <<t, "assistant">>),
                                         ids |-> Append(@.ids, NoKey)]]
         /\ UNCHANGED faults
      \/ UNCHANGED <<page, faults>>
  BY <1>6 DEF ShowPage
<1>8. page' \in PageType /\ PagesGood' /\ faults' \in 0..MaxFaults
  BY <1>7, FaultIs, ReloadKeeps, UnsavedKeeps, SamePages
<1>9. /\ at[t] \notin Busy /\ at'[t] \notin Busy
      /\ at'[t] \notin Working /\ at'[t] # "waiting"
  BY <1>1, <1>3 DEF Busy, Working
<1>. QED
  BY <1>2, <1>3, <1>4, <1>5, <1>8, <1>9, Parts, QuietStep

LEMMA OpenPageKeeps ==
  ASSUME TurnsInv, NEW s \in Sessions, OpenPage(s)
  PROVE  TurnsInv'
<1>1. /\ page' = [page EXCEPT ![s] = Reloaded(s)]
      /\ UNCHANGED <<at, outcome, holder, lost, rows, found, msgs, seen, events, faults>>
  BY DEF OpenPage
<1>2. page' \in PageType /\ PagesGood'
  BY <1>1, ReloadKeeps
<1>3. ShapeOK'
  BY <1>1, <1>2 DEF TurnsInv, ShapeOK, PageType
<1>4. SeenOK' /\ LocksOK'
  BY <1>1 DEF TurnsInv, SeenOK, LocksOK
<1>5. MessagesOK'
  BY <1>1 DEF TurnsInv, MessagesOK, Stored, AnswerHasQuestion
<1>6. StreamsOK'
  BY <1>1 DEF TurnsInv, StreamsOK, StreamTellsTruth, Told
<1>7. ChatTurnsSerial'
  BY <1>1 DEF TurnsInv, ChatTurnsSerial, Place
<1>. QED
  BY <1>2, <1>3, <1>4, <1>5, <1>6, <1>7 DEF TurnsInv

----------------------------------------------------------------------------
(* Locks.                                                                  *)

LEMMA LockKeeps ==
  ASSUME TurnsInv, NEW t \in Turns, Lock(t)
  PROVE  TurnsInv'
<1>1. at[t] = "waiting" /\ Go(t, "reading") /\ "reading" \in Places
  BY DEF Lock, Places
<1>2. UNCHANGED <<outcome, lost, rows, found, msgs, seen, events, page, faults>>
  BY DEF Lock
<1>3. /\ at' \in [Turns -> Places] /\ at'[t] = "reading"
      /\ \A u \in Turns : u # t => at'[u] = at[u]
  BY <1>1, Moved, Parts
<1>4. PICK s \in Sessions : s = SessionOf[t]
  BY Kinds
<1>5. holder[s] = NoTurn /\ holder' = [holder EXCEPT ![s] = t]
  BY <1>4 DEF Lock
<1>6. t \in Locking /\ holder \in [Sessions -> Locking \cup {NoTurn}]
  BY <1>1 DEF TurnsInv, LocksOK, ShapeOK
<1>7. /\ holder' \in [Sessions -> Locking \cup {NoTurn}] /\ holder'[s] = t
      /\ \A r \in Sessions : r # s => holder'[r] = holder[r]
  BY <1>5, <1>6
<1>8. ShapeOK'
  BY <1>2, <1>3, <1>7 DEF TurnsInv, ShapeOK
<1>9. SeenOK'
  BY <1>2, SeenFrame DEF TurnsInv
<1>10. MessagesOK'
  <2>1. Stored(t)'
    BY <1>1, <1>2, <1>3, Parts DEF Stored, Roles, Over
  <2>. QED
    BY <1>2, <1>3, <2>1, MessagesFrame DEF TurnsInv
<1>11. LocksOK'
  <2>1. ASSUME NEW u \in Turns, at'[u] = "waiting" PROVE u \in Locking
    BY <1>3, <2>1 DEF TurnsInv, LocksOK
  <2>2. ASSUME NEW r \in Sessions, holder'[r] # NoTurn
        PROVE  SessionOf[holder'[r]] = r /\ at'[holder'[r]] \in Busy
    <3>1. CASE r = s
      BY <1>3, <1>4, <1>7, <3>1 DEF Busy
    <3>2. CASE r # s
      <4>1. /\ holder'[r] = holder[r] /\ holder[r] \in Turns
            /\ SessionOf[holder[r]] = r /\ at[holder[r]] \in Busy
        BY <1>6, <1>7, <2>2, <3>2, Kinds DEF TurnsInv, LocksOK
      <4>. QED
        BY <1>1, <1>3, <4>1 DEF Busy
    <3>. QED
      BY <3>1, <3>2
  <2>3. ASSUME NEW u \in Locking, at'[u] \in Busy
        PROVE  holder'[SessionOf[u]] = u \/ SessionOf[u] \in lost
    <3>1. CASE u = t
      BY <1>4, <1>7, <3>1
    <3>2. CASE u # t
      <4>1. u \in Turns /\ SessionOf[u] \in Sessions /\ u # NoTurn
        BY <2>3, Kinds
      <4>2. holder[SessionOf[u]] = u \/ SessionOf[u] \in lost
        BY <1>3, <2>3, <3>2, <4>1 DEF TurnsInv, LocksOK
      <4>. QED
        BY <1>5, <1>7, <4>1, <4>2
    <3>. QED
      BY <3>1, <3>2
  <2>. QED
    BY <1>2, <2>1, <2>2, <2>3 DEF LocksOK
<1>12. StreamsOK'
  <2>1. t \in Streams => Told(t)'
    BY <1>1, <1>2, NoNews DEF Over
  <2>. QED
    BY <1>2, <1>3, <2>1, StreamsFrame DEF TurnsInv
<1>13. ChatTurnsSerial'
  BY <1>2, <1>3, SerialFrame DEF TurnsInv, Working
<1>14. PagesGood'
  BY <1>2, SamePages
<1>. QED
  BY <1>8, <1>9, <1>10, <1>11, <1>12, <1>13, <1>14 DEF TurnsInv

LEMMA LoseLockKeeps ==
  ASSUME TurnsInv, NEW s \in Sessions, LoseLock(s)
  PROVE  TurnsInv'
<1>1. /\ holder' = [holder EXCEPT ![s] = NoTurn] /\ lost' = lost \cup {s} /\ Fault
      /\ UNCHANGED <<at, outcome, rows, found, msgs, seen, events, page>>
  BY DEF LoseLock
<1>2. holder \in [Sessions -> Locking \cup {NoTurn}] /\ lost \subseteq Sessions
  BY DEF TurnsInv, ShapeOK
<1>3. /\ holder' \in [Sessions -> Locking \cup {NoTurn}] /\ holder'[s] = NoTurn
      /\ \A r \in Sessions : r # s => holder'[r] = holder[r]
  BY <1>1, <1>2
<1>4. ShapeOK'
  <2>1. faults' \in 0..MaxFaults
    BY <1>1, FaultIs
  <2>2. lost' \subseteq Sessions
    BY <1>1, <1>2
  <2>. QED
    BY <1>1, <1>3, <2>1, <2>2 DEF TurnsInv, ShapeOK
<1>5. SeenOK'
  BY <1>1, SeenFrame DEF TurnsInv
<1>6. MessagesOK'
  BY <1>1 DEF TurnsInv, MessagesOK, Stored, AnswerHasQuestion
<1>7. LocksOK'
  <2>1. ASSUME NEW r \in Sessions, holder'[r] # NoTurn
        PROVE  SessionOf[holder'[r]] = r /\ at[holder'[r]] \in Busy
    BY <1>3, <2>1 DEF TurnsInv, LocksOK
  <2>2. ASSUME NEW u \in Locking, at[u] \in Busy
        PROVE  holder'[SessionOf[u]] = u \/ SessionOf[u] \in lost'
    <3>1. SessionOf[u] \in Sessions
      BY <2>2, Kinds
    <3>2. holder[SessionOf[u]] = u \/ SessionOf[u] \in lost
      BY <2>2 DEF TurnsInv, LocksOK
    <3>. QED
      BY <1>1, <1>3, <3>1, <3>2
  <2>. QED
    BY <1>1, <2>1, <2>2 DEF TurnsInv, LocksOK
<1>8. StreamsOK'
  BY <1>1 DEF TurnsInv, StreamsOK, StreamTellsTruth, Told
<1>9. ChatTurnsSerial'
  BY <1>1 DEF TurnsInv, ChatTurnsSerial, Place
<1>10. PagesGood'
  BY <1>1, SamePages
<1>. QED
  BY <1>4, <1>5, <1>6, <1>7, <1>8, <1>9, <1>10 DEF TurnsInv

----------------------------------------------------------------------------
(* What a turn has seen.                                                   *)

LEMMA NothingSeen ==
  ASSUME TurnsInv, NEW t \in Turns, UNCHANGED <<msgs, lost>>,
         seen' = [seen EXCEPT ![t] = <<>>], at'[t] \notin Working,
         \A u \in Turns : u # t => at'[u] = at[u]
  PROVE  seen' \in [Turns -> Seq(Keys)] /\ SeenOK' /\ ChatTurnsSerial'
<1>1. seen \in [Turns -> Seq(Keys)] /\ <<>> \in Seq(Keys)
  BY EmptySeq DEF TurnsInv, ShapeOK
<1>2. /\ seen' \in [Turns -> Seq(Keys)] /\ seen'[t] = <<>>
      /\ \A u \in Turns : u # t => seen'[u] = seen[u]
  BY <1>1
<1>3. SeenOK'
  <2>1. Len(<<>>) = 0 /\ ToSet(<<>>) = {} /\ 0 <= Limit
    BY ConversationsAssumption DEF ToSet
  <2>. QED
    BY <1>2, <2>1 DEF TurnsInv, SeenOK
<1>4. ChatTurnsSerial'
  <2>1. \A u \in Locking : at'[u] \in Working => u # t /\ at[u] = at'[u] /\ seen'[u] = seen[u]
    BY <1>2, Kinds
  <2>2. \A x : Place(x)' = Place(x)
    BY DEF Place
  <2>3. ASSUME NEW u \in Locking, NEW m \in ToSet(msgs), SessionOf[u] \notin lost,
               at'[u] \in Working, m[1] \in Locking \ {u}, SessionOf[m[1]] = SessionOf[u]
        PROVE  m \in ToSet(seen'[u]) \/ \E n \in ToSet(seen'[u]) : Place(m) < Place(n)
    <3>1. seen'[u] = seen[u] /\ at[u] \in Working
      BY <2>1, <2>3
    <3>. QED
      BY <2>3, <3>1 DEF TurnsInv, ChatTurnsSerial, Working
  <2>. QED
    BY <2>2, <2>3 DEF ChatTurnsSerial, Working
<1>. QED
  BY <1>2, <1>3, <1>4

LEMMA LoadKeeps ==
  ASSUME TurnsInv, NEW t \in Turns, Load(t)
  PROVE  TurnsInv'
<1>1. at[t] = "reading" /\ Go(t, "thinking") /\ "thinking" \in Places
  BY DEF Load, Places
<1>2. UNCHANGED <<outcome, holder, lost, rows, found, msgs, events, page, faults>>
  BY DEF Load
<1>3. /\ at' \in [Turns -> Places] /\ at'[t] = "thinking"
      /\ \A u \in Turns : u # t => at'[u] = at[u]
  BY <1>1, Moved, Parts
<1>4. PICK s \in Sessions : s = SessionOf[t]
  BY Kinds
<1>5. PICK r \in Seq(Keys) :
        /\ r = Recent(s) /\ Len(r) <= Limit /\ ToSet(r) \subseteq ToSet(msgs)
        /\ \A m \in ToSet(msgs) : SessionOf[m[1]] = s =>
             m \in ToSet(r) \/ \E n \in ToSet(r) : Place(m) < Place(n)
  <2>1. msgs \in Seq(Keys) /\ IsInjective(msgs)
    BY DEF TurnsInv, ShapeOK, MessagesOK
  <2>. QED
    BY <2>1, Recents
<1>6. /\ seen' \in [Turns -> Seq(Keys)] /\ seen'[t] = r
      /\ \A u \in Turns : u # t => seen'[u] = seen[u]
  <2>1. seen' = [seen EXCEPT ![t] = r] /\ seen \in [Turns -> Seq(Keys)]
    BY <1>4, <1>5 DEF Load, TurnsInv, ShapeOK
  <2>. QED
    BY <2>1
<1>7. ShapeOK'
  BY <1>2, <1>3, <1>6 DEF TurnsInv, ShapeOK
<1>8. SeenOK'
  BY <1>2, <1>5, <1>6 DEF TurnsInv, SeenOK
<1>9. MessagesOK'
  <2>1. Stored(t)'
    BY <1>1, <1>2, <1>3, Parts DEF Stored, Roles, Over
  <2>. QED
    BY <1>2, <1>3, <2>1, MessagesFrame DEF TurnsInv
<1>10. LocksOK'
  <2>1. at[t] \in Busy /\ at'[t] \in Busy /\ at'[t] # "waiting"
    BY <1>1, <1>3 DEF Busy
  <2>. QED
    BY <1>2, <1>3, <2>1, LocksFrame DEF TurnsInv
<1>11. StreamsOK'
  <2>1. t \in Streams => Told(t)'
    BY <1>1, <1>2, NoNews DEF Over
  <2>. QED
    BY <1>2, <1>3, <2>1, StreamsFrame DEF TurnsInv
<1>12. ChatTurnsSerial'
  <2>1. ASSUME NEW u \in Locking, NEW m \in ToSet(msgs), SessionOf[u] \notin lost,
               at'[u] \in Working, m[1] \in Locking \ {u}, SessionOf[m[1]] = SessionOf[u]
        PROVE  m \in ToSet(seen'[u]) \/ \E n \in ToSet(seen'[u]) : Place(m) < Place(n)
    <3>1. CASE u = t
      BY <1>4, <1>5, <1>6, <2>1, <3>1
    <3>2. CASE u # t
      <4>1. seen'[u] = seen[u] /\ at'[u] = at[u]
        BY <1>3, <1>6, <3>2, Kinds
      <4>. QED
        BY <2>1, <4>1 DEF TurnsInv, ChatTurnsSerial, Working
    <3>. QED
      BY <3>1, <3>2
  <2>2. \A x : Place(x)' = Place(x)
    BY <1>2 DEF Place
  <2>. QED
    BY <1>2, <2>1, <2>2 DEF ChatTurnsSerial, Working
<1>13. PagesGood'
  BY <1>2, SamePages
<1>. QED
  BY <1>7, <1>8, <1>9, <1>10, <1>11, <1>12, <1>13 DEF TurnsInv

LEMMA RespondKeeps ==
  ASSUME TurnsInv, NEW t \in Turns, Respond(t)
  PROVE  TurnsInv'
<1>1. /\ at[t] = "left" /\ Go(t, "done") /\ "done" \in Places
      /\ seen' = [seen EXCEPT ![t] = <<>>]
  BY DEF Respond, Places
<1>2. UNCHANGED <<outcome, holder, lost, rows, found, msgs, events, page, faults>>
  BY DEF Respond
<1>3. /\ at' \in [Turns -> Places] /\ at'[t] = "done"
      /\ \A u \in Turns : u # t => at'[u] = at[u]
  BY <1>1, Moved, Parts
<1>4. seen' \in [Turns -> Seq(Keys)] /\ SeenOK' /\ ChatTurnsSerial'
  BY <1>1, <1>2, <1>3, NothingSeen DEF Working
<1>5. ShapeOK'
  BY <1>2, <1>3, <1>4 DEF TurnsInv, ShapeOK
<1>6. MessagesOK'
  <2>1. Stored(t)'
    BY <1>1, <1>2, <1>3, Parts DEF Stored, Roles, Over
  <2>. QED
    BY <1>2, <1>3, <2>1, MessagesFrame DEF TurnsInv
<1>7. LocksOK'
  <2>1. at[t] \notin Busy /\ at'[t] \notin Busy /\ at'[t] # "waiting"
    BY <1>1, <1>3 DEF Busy
  <2>. QED
    BY <1>2, <1>3, <2>1, LocksFrame DEF TurnsInv
<1>8. StreamsOK'
  <2>1. t \in Streams => Told(t)'
    BY <1>1, <1>2, NoNews
  <2>. QED
    BY <1>2, <1>3, <2>1, StreamsFrame DEF TurnsInv
<1>9. PagesGood'
  BY <1>2, SamePages
<1>. QED
  BY <1>4, <1>5, <1>6, <1>7, <1>8, <1>9 DEF TurnsInv

(* The unlock fails only if the lock's connection broke.                   *)
LEMMA LeaveKeeps ==
  ASSUME TurnsInv, NEW t \in Turns, Leave(t)
  PROVE  TurnsInv'
<1>1. /\ at[t] = "leaving" /\ Go(t, "left") /\ "left" \in Places
      /\ seen' = [seen EXCEPT ![t] = <<>>]
  BY DEF Leave, Places
<1>2. UNCHANGED <<lost, rows, found, msgs, events, page, faults>>
  BY DEF Leave
<1>3. /\ at' \in [Turns -> Places] /\ at'[t] = "left"
      /\ \A u \in Turns : u # t => at'[u] = at[u]
  BY <1>1, Moved, Parts
<1>4. PICK s \in Sessions : s = SessionOf[t]
  BY Kinds
<1>5. \/ holder[s] = t /\ holder' = [holder EXCEPT ![s] = NoTurn] /\ UNCHANGED outcome
      \/ holder[s] # t /\ outcome' = [outcome EXCEPT ![t] = "raised"] /\ UNCHANGED holder
  BY <1>4 DEF Leave
<1>6. holder \in [Sessions -> Locking \cup {NoTurn}]
  BY DEF TurnsInv, ShapeOK
<1>7. /\ holder' \in [Sessions -> Locking \cup {NoTurn}] /\ holder'[s] # t
      /\ \A r \in Sessions :
           \/ holder'[r] = holder[r]
           \/ holder'[r] = NoTurn /\ holder[r] = t
  <2>0. t # NoTurn
    BY Kinds
  <2>1. CASE holder[s] = t
    <3>1. holder' = [holder EXCEPT ![s] = NoTurn]
      BY <1>5, <2>1
    <3>. QED
      BY <1>6, <2>0, <2>1, <3>1
  <2>2. CASE holder[s] # t
    BY <1>5, <1>6, <2>2
  <2>. QED
    BY <2>1, <2>2
<1>8. /\ outcome' \in [Turns -> Outcomes]
      /\ \A u \in Turns : u # t => outcome'[u] = outcome[u]
      /\ UNCHANGED outcome \/ holder[s] # t
  BY <1>5, Parts DEF Outcomes
<1>9. seen' \in [Turns -> Seq(Keys)] /\ SeenOK' /\ ChatTurnsSerial'
  BY <1>1, <1>2, <1>3, NothingSeen DEF Working
<1>10. ShapeOK'
  BY <1>2, <1>3, <1>7, <1>8, <1>9 DEF TurnsInv, ShapeOK
<1>11. MessagesOK'
  <2>1. Stored(t)'
    BY <1>1, <1>2, <1>3, Parts DEF Stored, Roles, Over
  <2>. QED
    BY <1>2, <1>3, <2>1, MessagesFrame DEF TurnsInv
<1>12. LocksOK'
  <2>1. ASSUME NEW u \in Turns, at'[u] = "waiting" PROVE u \in Locking
    BY <1>3, <2>1 DEF TurnsInv, LocksOK
  <2>2. ASSUME NEW r \in Sessions, holder'[r] # NoTurn
        PROVE  SessionOf[holder'[r]] = r /\ at'[holder'[r]] \in Busy
    <3>1. holder'[r] = holder[r] /\ holder[r] \in Turns
      BY <1>6, <1>7, <2>2, Kinds
    <3>2. SessionOf[holder[r]] = r /\ at[holder[r]] \in Busy
      BY <2>2, <3>1 DEF TurnsInv, LocksOK
    <3>3. holder[r] # t
      BY <1>4, <1>7, <3>1, <3>2
    <3>. QED
      BY <1>3, <3>1, <3>2, <3>3
  <2>3. ASSUME NEW u \in Locking, at'[u] \in Busy
        PROVE  holder'[SessionOf[u]] = u \/ SessionOf[u] \in lost
    <3>1. u \in Turns /\ SessionOf[u] \in Sessions /\ u # t
      BY <1>3, <2>3, Kinds DEF Busy
    <3>2. holder[SessionOf[u]] = u \/ SessionOf[u] \in lost
      BY <1>3, <2>3, <3>1 DEF TurnsInv, LocksOK
    <3>. QED
      BY <1>7, <3>1, <3>2
  <2>. QED
    BY <1>2, <2>1, <2>2, <2>3 DEF LocksOK
<1>13. StreamsOK'
  <2>1. ASSUME t \in Streams PROVE Told(t)'
    <3>1. t \in Locking /\ at[t] \in Busy
      BY <1>1, <2>1, Kinds DEF Busy
    <3>2. holder[s] = t \/ s \in lost
      BY <1>4, <3>1 DEF TurnsInv, LocksOK
    <3>3. Told(t)
      BY <2>1, Parts
    <3>4. QED
      <4>1. ToSet(events[t]) \subseteq {"progress", "final"}
        BY <1>1, <3>3 DEF Told
      <4>2. /\ outcome[t] = "fine" => "final" \in ToSet(events[t])
            /\ "final" \in ToSet(events[t]) => outcome[t] = "fine"
        BY <1>1, <3>3 DEF Told
      <4>3. outcome' = outcome \/ (s \in lost /\ outcome'[t] = "raised")
        BY <1>5, <3>2, Parts
      <4>. QED
        BY <1>2, <1>3, <1>4, <4>1, <4>2, <4>3 DEF Told, Over
  <2>. QED
    BY <1>2, <1>3, <1>8, <2>1, StreamsFrame DEF TurnsInv
<1>14. PagesGood'
  BY <1>2, SamePages
<1>. QED
  BY <1>9, <1>10, <1>11, <1>12, <1>13, <1>14 DEF TurnsInv

----------------------------------------------------------------------------
(* What a stream is told.                                                  *)

Truth(t) ==
  /\ \A i \in DOMAIN events[t] : events[t][i] = "end" => i = Len(events[t])
  /\ "final" \in ToSet(events[t]) => <<t, "assistant">> \in ToSet(msgs)
  /\ "end" \in ToSet(events[t]) =>
       "final" \in ToSet(events[t]) \/ "error" \in ToSet(events[t])
  /\ {"error", "final"} \subseteq ToSet(events[t]) => SessionOf[t] \in lost

LEMMA HeardFrame ==
  ASSUME StreamsOK, NEW t \in Streams, UNCHANGED <<outcome, msgs, lost>>,
         \A u \in Turns : u # t => at'[u] = at[u] /\ events'[u] = events[u],
         Truth(t)', Told(t)'
  PROVE  StreamsOK'
<1>1. ASSUME NEW u \in Streams PROVE Truth(u)' /\ Told(u)'
  <2>1. CASE u = t
    BY <2>1
  <2>2. CASE u # t
    <3>1. at'[u] = at[u] /\ events'[u] = events[u]
      BY <1>1, <2>2 DEF Streams
    <3>2. Told(u) /\ Truth(u)
      BY <1>1 DEF StreamsOK, StreamTellsTruth, Truth
    <3>. QED
      BY <3>1, <3>2 DEF Told, Truth
  <2>. QED
    BY <2>1, <2>2
<1>2. StreamTellsTruth'
  BY <1>1 DEF StreamTellsTruth, Truth
<1>. QED
  BY <1>1, <1>2 DEF StreamsOK

(* An event that is not the end mark follows events that are not.          *)
LEMMA Heard ==
  ASSUME TurnsInv, NEW t \in Streams, NEW e \in Events \ {"end"},
         events' = [events EXCEPT ![t] = Append(@, e)],
         "end" \notin ToSet(events[t])
  PROVE  /\ events' \in [Turns -> Seq(Events)]
         /\ \A u \in Turns : u # t => events'[u] = events[u]
         /\ ToSet(events'[t]) = ToSet(events[t]) \cup {e}
         /\ \A i \in DOMAIN events'[t] : events'[t][i] = "end" => i = Len(events'[t])
<1>1. t \in Turns /\ events \in [Turns -> Seq(Events)]
  BY DEF Streams, TurnsInv, ShapeOK
<1>2. PICK q \in Seq(Events) : q = events[t]
  BY <1>1
<1>3. PICK p \in Seq(Events) : p = Append(q, e) /\ ToSet(p) = ToSet(q) \cup {e}
  <2>1. e \in Events
    OBVIOUS
  <2>2. Append(q, e) \in Seq(Events) /\ ToSet(Append(q, e)) = ToSet(q) \cup {e}
    BY <2>1, Appended
  <2>. QED
    BY <2>2
<1>4. events' = [events EXCEPT ![t] = p]
  BY <1>1, <1>2, <1>3
<1>5. /\ events' \in [Turns -> Seq(Events)] /\ events'[t] = p
      /\ \A u \in Turns : u # t => events'[u] = events[u]
  BY <1>1, <1>4
<1>6. "end" \notin ToSet(p)
  BY <1>2, <1>3
<1>7. \A i \in DOMAIN p : p[i] # "end"
  BY <1>6 DEF ToSet
<1>. QED
  BY <1>2, <1>3, <1>5, <1>7

LEMMA EmitKeeps ==
  ASSUME TurnsInv, NEW t \in Turns, Emit(t)
  PROVE  TurnsInv'
<1>1. t \in Streams /\ at[t] = "thinking" /\ "progress" \in Events \ {"end"}
  BY DEF Emit, Events
<1>2. /\ UNCHANGED <<at, outcome, holder, lost, rows, found, msgs, seen, page, faults>>
      /\ events' = [events EXCEPT ![t] = Append(@, "progress")]
  BY DEF Emit
<1>3. ToSet(events[t]) \subseteq {"progress"} /\ outcome[t] = "fine"
  BY <1>1, Parts DEF Told, Over
<1>4. /\ events' \in [Turns -> Seq(Events)]
      /\ \A u \in Turns : u # t => events'[u] = events[u]
      /\ ToSet(events'[t]) = ToSet(events[t]) \cup {"progress"}
      /\ \A i \in DOMAIN events'[t] : events'[t][i] = "end" => i = Len(events'[t])
  BY <1>1, <1>2, <1>3, Heard
<1>5. ToSet(events'[t]) \subseteq {"progress"}
  BY <1>3, <1>4
<1>6. StreamsOK'
  <2>1. Told(t)'
    BY <1>1, <1>2, <1>3, <1>5 DEF Told, Over
  <2>2. Truth(t)'
    BY <1>2, <1>4, <1>5 DEF Truth
  <2>. QED
    BY <1>1, <1>2, <1>4, <2>1, <2>2, HeardFrame DEF TurnsInv
<1>7. ShapeOK'
  BY <1>2, <1>4 DEF TurnsInv, ShapeOK
<1>8. SeenOK' /\ LocksOK'
  BY <1>2 DEF TurnsInv, SeenOK, LocksOK
<1>9. MessagesOK'
  BY <1>2 DEF TurnsInv, MessagesOK, Stored, AnswerHasQuestion
<1>10. ChatTurnsSerial'
  BY <1>2, SerialFrame DEF TurnsInv
<1>11. PagesGood'
  BY <1>2, SamePages
<1>. QED
  BY <1>6, <1>7, <1>8, <1>9, <1>10, <1>11 DEF TurnsInv

LEMMA FinishKeeps ==
  ASSUME TurnsInv, NEW t \in Turns, Finish(t)
  PROVE  TurnsInv'
<1>1. at[t] = "saved" /\ Go(t, "leaving") /\ "leaving" \in Places /\ "final" \in Events \ {"end"}
  BY DEF Finish, Places, Events
<1>2. /\ UNCHANGED <<outcome, holder, lost, rows, found, msgs, seen, page, faults>>
      /\ events' = [events EXCEPT ![t] = Append(@, "final")]
  BY DEF Finish
<1>3. /\ at' \in [Turns -> Places] /\ at'[t] = "leaving"
      /\ \A u \in Turns : u # t => at'[u] = at[u]
  BY <1>1, Moved, Parts
<1>4. t \in Streams /\ <<t, "assistant">> \in ToSet(msgs)
  BY <1>1, Parts DEF Stored
<1>5. ToSet(events[t]) \subseteq {"progress"} /\ outcome[t] = "fine"
  BY <1>1, <1>4, Parts DEF Told, Over
<1>6. /\ events' \in [Turns -> Seq(Events)]
      /\ \A u \in Turns : u # t => events'[u] = events[u]
      /\ ToSet(events'[t]) = ToSet(events[t]) \cup {"final"}
      /\ \A i \in DOMAIN events'[t] : events'[t][i] = "end" => i = Len(events'[t])
  BY <1>1, <1>2, <1>4, <1>5, Heard
<1>7. ToSet(events'[t]) \subseteq {"progress", "final"} /\ "final" \in ToSet(events'[t])
  BY <1>5, <1>6
<1>8. StreamsOK'
  <2>1. Told(t)'
    BY <1>2, <1>3, <1>5, <1>7 DEF Told, Over
  <2>2. Truth(t)'
    BY <1>2, <1>4, <1>6, <1>7 DEF Truth
  <2>. QED
    BY <1>2, <1>3, <1>4, <1>6, <2>1, <2>2, HeardFrame DEF TurnsInv
<1>9. ShapeOK'
  BY <1>2, <1>3, <1>6 DEF TurnsInv, ShapeOK
<1>10. SeenOK'
  BY <1>2, SeenFrame DEF TurnsInv
<1>11. MessagesOK'
  <2>1. Stored(t)'
    BY <1>1, <1>2, <1>3, Parts DEF Stored, Roles, Over
  <2>. QED
    BY <1>2, <1>3, <2>1, MessagesFrame DEF TurnsInv
<1>12. LocksOK'
  <2>1. at[t] \in Busy /\ at'[t] \in Busy /\ at'[t] # "waiting"
    BY <1>1, <1>3 DEF Busy
  <2>. QED
    BY <1>2, <1>3, <2>1, LocksFrame DEF TurnsInv
<1>13. ChatTurnsSerial'
  <2>1. at[t] \in Working
    BY <1>1 DEF Working
  <2>. QED
    BY <1>2, <1>3, <2>1, SerialFrame DEF TurnsInv
<1>14. PagesGood'
  BY <1>2, SamePages
<1>. QED
  BY <1>8, <1>9, <1>10, <1>11, <1>12, <1>13, <1>14 DEF TurnsInv

(* The end mark, after an error or not.                                    *)
LEMMA Ended ==
  ASSUME NEW q \in Seq(Events), NEW d \in {<<"end">>, <<"error", "end">>},
         "end" \notin ToSet(q)
  PROVE  /\ q \o d \in Seq(Events)
         /\ ToSet(q \o d) \subseteq ToSet(q) \cup {"error", "end"}
         /\ ToSet(q) \subseteq ToSet(q \o d)
         /\ "error" \in ToSet(q \o d) => "error" \in ToSet(q) \/ d = <<"error", "end">>
         /\ d = <<"error", "end">> => "error" \in ToSet(q \o d)
         /\ \A i \in DOMAIN (q \o d) : (q \o d)[i] = "end" => i = Len(q \o d)
<1>1. PICK n \in Nat : n = Len(q) /\ DOMAIN q = 1..n
  BY LenProperties
<1>2. d \in Seq(Events) /\ Len(d) \in {1, 2} /\ d[Len(d)] = "end"
      /\ (Len(d) = 2 <=> d = <<"error", "end">>) /\ (Len(d) = 2 => d[1] = "error")
  <2>1. "end" \in Events /\ "error" \in Events
    BY DEF Events
  <2>2. CASE d = <<"end">>
    BY <2>1, <2>2
  <2>3. CASE d = <<"error", "end">>
    BY <2>1, <2>3
  <2>. QED
    BY <2>2, <2>3
<1>3. PICK k \in {1, 2} : k = Len(d)
  BY <1>2
<1>4. PICK p : p = q \o d
  OBVIOUS
<1>5. /\ p \in Seq(Events) /\ Len(p) = n + k
      /\ \A i \in 1..(n + k) : p[i] = IF i <= n THEN q[i] ELSE d[i - n]
  BY <1>1, <1>2, <1>3, <1>4, ConcatProperties
<1>6. DOMAIN p = 1..(n + k)
  BY <1>5, LenProperties
<1>7. \A i \in 1..n : i \in 1..(n + k) /\ p[i] = q[i] /\ q[i] \in ToSet(q) /\ q[i] # "end"
  BY <1>1, <1>5 DEF ToSet
<1>8. p[n + k] = "end" /\ (k = 2 => p[n + 1] = "error") /\ n + 1 \in 1..(n + k)
  BY <1>2, <1>3, <1>5
<1>9. \A i \in 1..(n + k) : i \in 1..n \/ i = n + k \/ (i = n + 1 /\ k = 2)
  OBVIOUS
<1>10. \A i \in DOMAIN p : p[i] = "end" => i = Len(p)
  BY <1>5, <1>6, <1>7, <1>8, <1>9
<1>11. ToSet(p) \subseteq ToSet(q) \cup {"error", "end"}
  BY <1>6, <1>7, <1>8, <1>9 DEF ToSet
<1>12. ToSet(q) \subseteq ToSet(p)
  <2>. SUFFICES ASSUME NEW x \in ToSet(q) PROVE x \in ToSet(p)
    OBVIOUS
  <2>1. PICK i \in 1..n : x = q[i]
    BY <1>1 DEF ToSet
  <2>2. i \in DOMAIN p /\ x = p[i]
    BY <1>6, <1>7, <2>1
  <2>. QED
    BY <2>2 DEF ToSet
<1>13. "error" \in ToSet(p) => "error" \in ToSet(q) \/ k = 2
  <2>. SUFFICES ASSUME "error" \in ToSet(p), k # 2 PROVE "error" \in ToSet(q)
    OBVIOUS
  <2>1. PICK i \in 1..(n + k) : p[i] = "error"
    BY <1>6 DEF ToSet
  <2>2. i \in 1..n
    BY <1>8, <1>9, <2>1
  <2>. QED
    BY <1>7, <2>1, <2>2
<1>14. k = 2 => "error" \in ToSet(p)
  BY <1>6, <1>8 DEF ToSet
<1>. QED
  BY <1>2, <1>3, <1>4, <1>5, <1>10, <1>11, <1>12, <1>13, <1>14

LEMMA EndWorkerKeeps ==
  ASSUME TurnsInv, NEW t \in Turns, EndWorker(t)
  PROVE  TurnsInv'
<1>1. at[t] = "left" /\ Go(t, "done") /\ "done" \in Places /\ t \in Streams
  BY DEF EndWorker, Places
<1>2. UNCHANGED <<outcome, holder, lost, rows, found, msgs, seen, page, faults>>
  BY DEF EndWorker
<1>3. /\ at' \in [Turns -> Places] /\ at'[t] = "done"
      /\ \A u \in Turns : u # t => at'[u] = at[u]
  BY <1>1, Moved, Parts
<1>4. PICK d \in {<<"end">>, <<"error", "end">>} :
        /\ d = IF outcome[t] = "fine" THEN <<"end">> ELSE <<"error", "end">>
        /\ events' = [events EXCEPT ![t] = @ \o d]
  BY DEF EndWorker
<1>5. events \in [Turns -> Seq(Events)]
  BY DEF TurnsInv, ShapeOK
<1>6. PICK q \in Seq(Events) : q = events[t]
  BY <1>5
<1>7. /\ ToSet(q) \subseteq {"progress", "final"}
      /\ outcome[t] = "fine" => "final" \in ToSet(q)
      /\ "final" \in ToSet(q) /\ outcome[t] # "fine" => SessionOf[t] \in lost
  BY <1>1, <1>6, Parts DEF Told
<1>8. PICK p \in Seq(Events) :
        /\ p = q \o d /\ ToSet(p) \subseteq ToSet(q) \cup {"error", "end"}
        /\ ToSet(q) \subseteq ToSet(p)
        /\ "error" \in ToSet(p) => "error" \in ToSet(q) \/ d = <<"error", "end">>
        /\ d = <<"error", "end">> => "error" \in ToSet(p)
        /\ \A i \in DOMAIN p : p[i] = "end" => i = Len(p)
  BY <1>7, Ended
<1>9. /\ events' \in [Turns -> Seq(Events)] /\ events'[t] = p
      /\ \A u \in Turns : u # t => events'[u] = events[u]
  <2>1. events' = [events EXCEPT ![t] = p]
    BY <1>4, <1>5, <1>6, <1>8
  <2>. QED
    BY <1>5, <2>1
<1>10. "final" \in ToSet(p) => "final" \in ToSet(q)
  BY <1>8
<1>11. <<"end">> # <<"error", "end">>
  <2>1. <<"end">>[1] # <<"error", "end">>[1]
    OBVIOUS
  <2>. QED
    BY <2>1
<1>12. "error" \in ToSet(p) => outcome[t] # "fine"
  BY <1>4, <1>7, <1>8, <1>11
<1>13. "final" \in ToSet(p) \/ "error" \in ToSet(p)
  BY <1>4, <1>7, <1>8
<1>14. StreamsOK'
  <2>1. Told(t)'
    BY <1>3 DEF Told, Over
  <2>2. <<t, "assistant">> \in ToSet(msgs) \/ "final" \notin ToSet(q)
    BY <1>1, <1>6 DEF TurnsInv, StreamsOK, StreamTellsTruth
  <2>3. Truth(t)'
    BY <1>2, <1>7, <1>8, <1>9, <1>10, <1>12, <1>13, <2>2 DEF Truth
  <2>. QED
    BY <1>1, <1>2, <1>3, <1>9, <2>1, <2>3, HeardFrame DEF TurnsInv
<1>15. ShapeOK'
  BY <1>2, <1>3, <1>9 DEF TurnsInv, ShapeOK
<1>16. SeenOK'
  BY <1>2, SeenFrame DEF TurnsInv
<1>17. MessagesOK'
  <2>1. Stored(t)'
    BY <1>1, <1>2, <1>3, Parts DEF Stored, Roles, Over
  <2>. QED
    BY <1>2, <1>3, <2>1, MessagesFrame DEF TurnsInv
<1>18. LocksOK'
  <2>1. at[t] \notin Busy /\ at'[t] \notin Busy /\ at'[t] # "waiting"
    BY <1>1, <1>3 DEF Busy
  <2>. QED
    BY <1>2, <1>3, <2>1, LocksFrame DEF TurnsInv
<1>19. ChatTurnsSerial'
  <2>1. at'[t] \notin Working
    BY <1>3 DEF Working
  <2>. QED
    BY <1>2, <1>3, <2>1, SerialFrame DEF TurnsInv
<1>20. PagesGood'
  BY <1>2, SamePages
<1>. QED
  BY <1>14, <1>15, <1>16, <1>17, <1>18, <1>19, <1>20 DEF TurnsInv

----------------------------------------------------------------------------
(* A message is stored.  A locking turn that stores one holds the lock of   *)
(* its session, so that no other locking turn is at work there.            *)

(* A message is stored, by a turn that goes on or one that gives up.       *)
LEMMA Added ==
  ASSUME TurnsInv, NEW t \in Turns, NEW role \in Roles, NEW place \in Places,
         role = at[t], msgs' = Append(msgs, <<t, role>>), Go(t, place),
         \/ role = "user" /\ place = "assistant"
         \/ role = "assistant" /\ t \in Streams /\ place = "saved"
         \/ place = ExitPlace(t),
         outcome' \in [Turns -> Outcomes],
         \A u \in Turns : u # t => outcome'[u] = outcome[u],
         t \in Streams => Told(t)',
         faults' \in 0..MaxFaults,
         UNCHANGED <<holder, lost, rows, found, seen, events, page>>
  PROVE  TurnsInv'
<1>1. role \in Roles /\ role = at[t] /\ msgs' = Append(msgs, <<t, role>>)
  OBVIOUS
<1>2. UNCHANGED <<holder, lost, rows, found, seen, events, page>>
  OBVIOUS
<1>3. /\ place \in Places /\ Go(t, place)
      /\ \/ role = "user" /\ place = "assistant"
         \/ role = "assistant" /\ t \in Streams /\ place = "saved"
         \/ place \in {"leaving", "left"} /\ (place = "leaving" <=> t \in Locking)
  BY Kinds
<1>4. /\ at' \in [Turns -> Places] /\ at'[t] = place
      /\ \A u \in Turns : u # t => at'[u] = at[u]
  BY <1>3, Moved, Parts
<1>5. PICK m \in Keys : m = <<t, role>>
  BY DEF Keys
<1>6. msgs \in Seq(Keys) /\ msgs' = Append(msgs, m)
  BY <1>1, <1>5 DEF TurnsInv, ShapeOK
<1>7. PICK n \in Nat : n = Len(msgs)
  BY <1>6, LenProperties
<1>8. /\ msgs' \in Seq(Keys) /\ DOMAIN msgs = 1..n /\ DOMAIN msgs' = 1..(n + 1)
      /\ \A i \in 1..n : msgs'[i] = msgs[i]
      /\ msgs'[n + 1] = m
      /\ ToSet(msgs') = ToSet(msgs) \cup {m}
  BY <1>6, <1>7, Appended
<1>9. m \notin ToSet(msgs)
  BY <1>1, <1>5, Parts DEF Stored, Roles, Over
<1>10. ShapeOK'
  BY <1>2, <1>4, <1>8 DEF TurnsInv, ShapeOK
<1>11. SeenOK'
  BY <1>2, <1>8 DEF TurnsInv, SeenOK
<1>12. IsInjective(msgs')
  <2>. SUFFICES ASSUME NEW i \in 1..(n + 1), NEW j \in 1..(n + 1), msgs'[i] = msgs'[j]
                PROVE  i = j
    BY <1>8 DEF IsInjective
  <2>1. \A k \in 1..n : msgs[k] # m
    BY <1>8, <1>9 DEF ToSet
  <2>2. \A k \in 1..(n + 1) : k \in 1..n \/ k = n + 1
    OBVIOUS
  <2>3. CASE i \in 1..n /\ j \in 1..n
    BY <1>8, <2>3 DEF TurnsInv, MessagesOK, IsInjective
  <2>. QED
    BY <1>8, <2>1, <2>2, <2>3
<1>13. MessagesOK'
  <2>1. ASSUME NEW u \in Turns PROVE Stored(u)'
    <3>1. CASE u = t
      <4>1. CASE role = "user"
        <5>1. <<t, "assistant">> # m /\ <<t, "user">> = m
          BY <1>5, <4>1
        <5>2. Stored(t) /\ at[t] = "user"
          BY <1>1, <4>1, Parts
        <5>3. at'[t] \in {"assistant", "leaving", "left"}
          BY <1>3, <1>4, <4>1
        <5>. QED
          BY <1>2, <1>8, <3>1, <5>1, <5>2, <5>3 DEF Stored, Roles, Over
      <4>2. CASE role = "assistant"
        <5>1. <<t, "assistant">> = m
          BY <1>5, <4>2
        <5>2. at'[t] \in {"saved", "leaving", "left"} /\ (at'[t] = "saved" => t \in Streams)
          BY <1>3, <1>4, <4>2, Kinds
        <5>. QED
          BY <1>8, <3>1, <5>1, <5>2 DEF Stored, Roles, Over
      <4>. QED
        BY <4>1, <4>2 DEF Roles
    <3>2. CASE u # t
      <4>1. <<u, "user">> # m /\ <<u, "assistant">> # m
        BY <1>5, <3>2
      <4>2. at'[u] = at[u] /\ Stored(u)
        BY <1>4, <2>1, <3>2, Parts
      <4>. QED
        BY <1>2, <1>8, <4>1, <4>2 DEF Stored
    <3>. QED
      BY <3>1, <3>2
  <2>2. ASSUME NEW i \in 1..(n + 1), msgs'[i][2] = "assistant"
        PROVE  /\ SessionOf[msgs'[i][1]] \in rows
               /\ \E j \in 1..(i - 1) : msgs'[j] = <<msgs'[i][1], "user">>
    <3>1. CASE i \in 1..n
      <4>1. msgs'[i] = msgs[i]
        BY <1>8, <3>1
      <4>2. /\ SessionOf[msgs[i][1]] \in rows
            /\ \E j \in 1..(i - 1) : msgs[j] = <<msgs[i][1], "user">>
        BY <1>8, <2>2, <3>1, <4>1 DEF TurnsInv, MessagesOK, AnswerHasQuestion
      <4>3. \A j \in 1..(i - 1) : msgs'[j] = msgs[j]
        BY <1>8, <3>1
      <4>. QED
        BY <4>1, <4>2, <4>3
    <3>2. CASE i = n + 1
      <4>1. msgs'[i] = m /\ m[1] = t /\ m[2] = role
        BY <1>5, <1>8, <3>2
      <4>2. at[t] = "assistant"
        BY <1>1, <2>2, <4>1
      <4>3. SessionOf[t] \in rows /\ <<t, "user">> \in ToSet(msgs)
        BY <4>2, Parts DEF Stored, Roles
      <4>4. PICK j \in 1..n : msgs[j] = <<t, "user">>
        BY <1>8, <4>3 DEF ToSet
      <4>5. j \in 1..(i - 1) /\ msgs'[j] = <<t, "user">>
        BY <1>8, <3>2, <4>4
      <4>. QED
        BY <4>1, <4>3, <4>5
    <3>3. i \in 1..n \/ i = n + 1
      BY <2>2
    <3>. QED
      BY <3>1, <3>2, <3>3
  <2>3. AnswerHasQuestion'
    BY <1>2, <1>8, <2>2 DEF AnswerHasQuestion
  <2>. QED
    BY <1>12, <2>1, <2>3 DEF MessagesOK
<1>14. LocksOK'
  <2>1. t \in Locking => at[t] \in Busy /\ at'[t] \in Busy
    BY <1>1, <1>3, <1>4, Kinds DEF Busy, Roles
  <2>2. at'[t] # "waiting"
    BY <1>3, <1>4, Kinds
  <2>. QED
    BY <1>2, <1>4, <2>1, <2>2, LocksFrame DEF TurnsInv
<1>15. StreamsOK'
  BY <1>2, <1>4, <1>8, StreamsFrame DEF TurnsInv
<1>16. ChatTurnsSerial'
  <2>1. \A x \in ToSet(msgs) : Place(x)' = Place(x)
    <3>. SUFFICES ASSUME NEW x \in ToSet(msgs) PROVE Place(x)' = Place(x)
      OBVIOUS
    <3>1. PICK i \in 1..n : x = msgs[i]
      BY <1>8 DEF ToSet
    <3>2. \A k \in DOMAIN msgs : msgs[k] = x <=> k = i
      BY <1>8, <3>1 DEF TurnsInv, MessagesOK, IsInjective
    <3>3. i \in DOMAIN msgs' /\ msgs'[i] = x
      BY <1>8, <3>1
    <3>4. \A k \in DOMAIN msgs' : msgs'[k] = x <=> k = i
      BY <1>12, <3>3 DEF IsInjective
    <3>5. Place(x) = i
      BY <1>8, <3>2 DEF Place
    <3>6. Place(x)' = i
      BY <3>3, <3>4 DEF Place
    <3>. QED
      BY <3>5, <3>6
  <2>2. ASSUME NEW u \in Locking, NEW x \in ToSet(msgs'), SessionOf[u] \notin lost,
               at'[u] \in Working, x[1] \in Locking \ {u}, SessionOf[x[1]] = SessionOf[u]
        PROVE  x \in ToSet(seen[u]) \/ \E y \in ToSet(seen[u]) : Place(x)' < Place(y)'
    <3>1. u \in Turns /\ at[u] \in Working
      <4>1. u \in Turns /\ at[t] \in Working
        BY <1>1, <2>2, Kinds DEF Working, Roles
      <4>. QED
        BY <1>4, <2>2, <4>1
    <3>2. x # m
      <4>. SUFFICES ASSUME x = m PROVE FALSE
        OBVIOUS
      <4>1. t \in Locking /\ t # u /\ SessionOf[t] = SessionOf[u]
        BY <1>5, <2>2
      <4>2. at[t] \in Busy /\ at[u] \in Busy
        BY <1>1, <3>1 DEF Busy, Working, Roles
      <4>3. holder[SessionOf[t]] = t /\ holder[SessionOf[u]] = u
        BY <2>2, <4>1, <4>2 DEF TurnsInv, LocksOK
      <4>. QED
        BY <4>1, <4>3
    <3>3. x \in ToSet(msgs)
      BY <1>8, <2>2, <3>2
    <3>4. x \in ToSet(seen[u]) \/ \E y \in ToSet(seen[u]) : Place(x) < Place(y)
      BY <2>2, <3>1, <3>3 DEF TurnsInv, ChatTurnsSerial, Working
    <3>5. ToSet(seen[u]) \subseteq ToSet(msgs)
      BY <3>1 DEF TurnsInv, SeenOK
    <3>. QED
      BY <2>1, <3>3, <3>4, <3>5
  <2>. QED
    BY <1>2, <2>2 DEF ChatTurnsSerial, Working
<1>17. PagesGood'
  BY <1>2, SamePages
<1>. QED
  BY <1>10, <1>11, <1>13, <1>14, <1>15, <1>16, <1>17 DEF TurnsInv

LEMMA SaveMessageKeeps ==
  ASSUME TurnsInv, NEW t \in Turns, SaveMessage(t)
  PROVE  TurnsInv'
<1>1. PICK role \in Roles : role = at[t] /\ msgs' = Append(msgs, <<t, role>>)
  BY DEF SaveMessage
<1>2. UNCHANGED <<outcome, holder, lost, rows, found, seen, events, page, faults>>
  BY DEF SaveMessage
<1>3. PICK place \in Places :
        /\ place = IF role = "user" THEN "assistant"
                   ELSE IF t \in Streams THEN "saved" ELSE ExitPlace(t)
        /\ Go(t, place)
  BY <1>1, Kinds DEF SaveMessage, Places
<1>4. \/ role = "user" /\ place = "assistant"
      \/ role = "assistant" /\ t \in Streams /\ place = "saved"
      \/ place = ExitPlace(t)
  BY <1>3 DEF Roles
<1>5. ASSUME t \in Streams PROVE Told(t)'
  <2>1. place \notin Over /\ at[t] \notin Over
    BY <1>1, <1>3, <1>5 DEF Over, Roles
  <2>. QED
    BY <1>2, <1>3, <1>5, <2>1, NoNews
<1>. QED
  BY <1>1, <1>2, <1>3, <1>4, <1>5, Added, Parts, FaultIs

(* Also a request that fails may store its message.                        *)
LEMMA SaveFailsKeeps ==
  ASSUME TurnsInv, NEW t \in Turns, SaveFails(t)
  PROVE  TurnsInv'
<1>1. PICK how \in {"unsaved", "raised"} : outcome' = [outcome EXCEPT ![t] = how]
  BY DEF SaveFails
<1>2. /\ at[t] \in {"saving", "session", "user", "assistant"} /\ GiveUp(t)
      /\ Fault \/ UNCHANGED faults
      /\ UNCHANGED <<holder, lost, found, seen, events, page>>
  BY DEF SaveFails, Roles
<1>3. /\ outcome' \in [Turns -> Outcomes] /\ outcome'[t] # "fine"
      /\ \A u \in Turns : u # t => outcome'[u] = outcome[u]
  BY <1>1, Parts DEF Outcomes
<1>4. faults' \in 0..MaxFaults
  BY <1>2, FaultIs
<1>5. CASE UNCHANGED msgs /\ (UNCHANGED rows \/ rows' = rows \cup {SessionOf[t]})
  <2>1. rows \subseteq rows' /\ rows' \subseteq Sessions
    BY <1>5, Kinds, Parts
  <2>. QED
    BY <1>2, <1>3, <1>4, <1>5, <2>1, GivenUp
<1>6. CASE at[t] \in Roles /\ msgs' = Append(msgs, <<t, at[t]>>) /\ UNCHANGED rows
  <2>1. Go(t, ExitPlace(t)) /\ ExitPlace(t) \in {"leaving", "left"} /\ ExitPlace(t) \in Places
    BY <1>2, Kinds DEF GiveUp, Places
  <2>2. at'[t] = ExitPlace(t)
    BY <2>1, Moved, Parts
  <2>3. ASSUME t \in Streams PROVE Told(t)'
    <3>1. ToSet(events[t]) \subseteq {"progress"}
      BY <1>2, <2>3, Parts DEF Told, Over
    <3>. QED
      BY <1>2, <1>3, <2>1, <2>2, <3>1 DEF Told, Over
  <2>. QED
    BY <1>2, <1>3, <1>4, <1>6, <2>1, <2>3, Added
<1>. QED
  BY <1>5, <1>6 DEF SaveFails, CarriedOut


----------------------------------------------------------------------------
(* All steps.                                                              *)

LEMMA TurnsStart == Init => TurnsInv
<1>. SUFFICES ASSUME Init PROVE TurnsInv
  OBVIOUS
<1>1. /\ <<>> \in Seq(Keys) /\ <<>> \in Seq(Events) /\ <<>> \in Seq(Keys \cup {NoKey})
      /\ Len(<<>>) = 0 /\ ToSet(<<>>) = {} /\ DOMAIN <<>> = {}
  BY EmptySeq DEF ToSet
<1>2. ShapeOK
  <2>1. 0 \in 0..MaxFaults /\ "idle" \in Places /\ "fine" \in Outcomes
    BY ConversationsAssumption DEF Places, Outcomes
  <2>2. page \in PageType
    BY <1>1 DEF Init, PageType
  <2>. QED
    BY <1>1, <2>1, <2>2 DEF Init, ShapeOK, PageType
<1>3. SeenOK
  BY <1>1, ConversationsAssumption DEF Init, SeenOK
<1>4. MessagesOK
  BY <1>1 DEF Init, MessagesOK, IsInjective, Stored, AnswerHasQuestion, Roles
<1>5. LocksOK
  BY Kinds DEF Init, LocksOK, Busy
<1>6. StreamsOK
  <2>1. ASSUME NEW t \in Streams
        PROVE  events[t] = <<>> /\ at[t] = "idle" /\ outcome[t] = "fine"
    BY <2>1 DEF Init, Streams
  <2>2. StreamTellsTruth
    BY <1>1, <2>1 DEF StreamTellsTruth
  <2>. QED
    BY <1>1, <2>1, <2>2 DEF StreamsOK, Told, Over
<1>7. ChatTurnsSerial
  BY <1>1 DEF Init, ChatTurnsSerial
<1>8. PagesGood
  BY EmptyPage DEF Init, PagesGood
<1>. QED
  BY <1>2, <1>3, <1>4, <1>5, <1>6, <1>7, <1>8 DEF TurnsInv

LEMMA WorkKeeps ==
  ASSUME TurnsInv, NEW t \in Turns, Work(t)
  PROVE  TurnsInv'
BY LockKeeps, LoadKeeps, LoadFailsKeeps, EmitKeeps, AnswerKeeps, AnswerFailsKeeps,
   FindSessionKeeps, SaveSessionKeeps, SaveMessageKeeps, SaveFailsKeeps, FinishKeeps,
   LeaveKeeps, RespondKeeps, EndWorkerKeeps, ShowPageKeeps DEF Work

LEMMA TurnsIdle ==
  ASSUME TurnsInv, UNCHANGED vars
  PROVE  TurnsInv'
<1>1. UNCHANGED <<at, outcome, holder, lost, rows, found, msgs, seen, events, page, faults>>
  BY DEF vars
<1>2. ShapeOK' /\ SeenOK' /\ LocksOK'
  BY <1>1 DEF TurnsInv, ShapeOK, SeenOK, LocksOK
<1>3. MessagesOK'
  BY <1>1 DEF TurnsInv, MessagesOK, Stored, AnswerHasQuestion
<1>4. StreamsOK'
  BY <1>1 DEF TurnsInv, StreamsOK, StreamTellsTruth, Told
<1>5. ChatTurnsSerial'
  BY <1>1 DEF TurnsInv, ChatTurnsSerial, Place
<1>6. PagesGood'
  BY <1>1, SamePages
<1>. QED
  BY <1>2, <1>3, <1>4, <1>5, <1>6 DEF TurnsInv

LEMMA TurnsStep ==
  ASSUME TurnsInv, [Next]_vars
  PROVE  TurnsInv'
<1>1. ASSUME NEW t \in Turns, Arrive(t) \/ Work(t) PROVE TurnsInv'
  BY <1>1, ArriveKeeps, WorkKeeps
<1>2. ASSUME NEW s \in Sessions, LoseLock(s) \/ OpenPage(s) PROVE TurnsInv'
  BY <1>2, LoseLockKeeps, OpenPageKeeps
<1>. QED
  BY <1>1, <1>2, TurnsIdle DEF Next

LEMMA TurnsTyped == TurnsInv => TypeOK
<1>. SUFFICES ASSUME TurnsInv PROVE TypeOK
  OBVIOUS
<1>1. \A s \in Sessions : page[s].history \in Seq(Keys) /\ page[s].ids \in Seq(Keys \cup {NoKey})
  BY DEF TurnsInv, ShapeOK
<1>2. \A s \in Sessions : holder[s] # NoTurn =>
        SessionOf[holder[s]] = s /\ at[holder[s]] \notin {"idle", "waiting", "left", "done"}
  BY DEF TurnsInv, LocksOK, Busy
<1>3. IsInjective(msgs) /\ \A t \in Turns : Len(seen[t]) <= Limit
  BY DEF TurnsInv, MessagesOK, SeenOK
<1>. QED
  BY <1>1, <1>2, <1>3 DEF TurnsInv, ShapeOK, TypeOK, Outcomes

LEMMA PageRates == PagesGood => PageRatesWhatItShows
BY DEF PagesGood, PageGood, PageRatesWhatItShows

LEMMA TurnsAlways == Spec => []TurnsInv
<1>1. TurnsInv /\ [Next]_vars => TurnsInv'
  BY TurnsStep
<1>. QED
  BY <1>1, TurnsStart, PTL DEF Spec

(* The variables of the turns stay in their types; a lock is held by a turn *)
(* of its session that has taken it and not given it back.                 *)
THEOREM TurnsAreTyped == Spec => []TypeOK
BY TurnsAlways, TurnsTyped, PTL

(* Whichever request of a save fails and whoever saves in between, a stored *)
(* answer comes after its own question, in a session with a row.           *)
THEOREM AnswersFollowQuestions == Spec => []AnswerHasQuestion
<1>1. TurnsInv => AnswerHasQuestion
  BY DEF TurnsInv, MessagesOK
<1>. QED
  BY <1>1, TurnsAlways, PTL

(* Unless a lock connection broke, what a turn of the chat API or the page  *)
(* has not read of the other locking turns is older than its window.       *)
THEOREM LockedTurnsSerial == Spec => []ChatTurnsSerial
<1>1. TurnsInv => ChatTurnsSerial
  BY DEF TurnsInv
<1>. QED
  BY <1>1, TurnsAlways, PTL

(* The events of a stream tell what became of its turn.                    *)
THEOREM StreamsTellTruth == Spec => []StreamTellsTruth
<1>1. TurnsInv => StreamTellsTruth
  BY DEF TurnsInv, StreamsOK
<1>. QED
  BY <1>1, TurnsAlways, PTL

(* A click on the page rates the answer clicked, or nothing.               *)
THEOREM ClicksRateTheirAnswer == Spec => []PageRatesWhatItShows
<1>1. TurnsInv => PageRatesWhatItShows
  BY PageRates DEF TurnsInv
<1>. QED
  BY <1>1, TurnsAlways, PTL

----------------------------------------------------------------------------
(* The console.  Its steps are steps of a turn or leave the turns alone.    *)

LEMMA ConsoleStepsAreTurns ==
  ASSUME [ConsoleNext]_<<vars, consoleVars>>
  PROVE  [Next]_vars
<1>0. Console \subseteq Turns
  BY RunsAssumption
<1>1. ASSUME NEW t \in Console, Handle(t) PROVE [Next]_vars
  <2>1. CASE CallRunner(t)
    BY <1>0, <2>1 DEF CallRunner, Next
  <2>2. CASE AskApproval(t)
    BY <1>0, <2>2 DEF AskApproval, Next, Work
  <2>3. CASE CreateRun(t) \/ CallFails(t) \/ TakeResult(t)
    BY <2>3 DEF CreateRun, CallFails, TakeResult
  <2>4. CASE (\E d \in {"approved", "rejected"} : Decide(t, d)) \/ WriteDecision(t)
    BY <2>4 DEF Decide, WriteDecision
  <2>. QED
    BY <1>1, <2>1, <2>2, <2>3, <2>4 DEF Handle
<1>2. ASSUME NEW t \in Turns, Work(t) PROVE [Next]_vars
  BY <1>2 DEF Next
<1>3. ASSUME NEW t \in Turns \ Console, Arrive(t) PROVE [Next]_vars
  BY <1>3 DEF Next
<1>4. ASSUME NEW s \in Sessions, LoseLock(s) \/ OpenPage(s) PROVE [Next]_vars
  BY <1>4 DEF Next
<1>. QED
  BY <1>1, <1>2, <1>3, <1>4 DEF ConsoleNext

(* The turns that the console starts are turns like others: the runs of the *)
(* control plane implement the specification of the chat service.          *)
THEOREM ConsoleImplementsTurns == ConsoleSpec => Spec
<1>1. ConsoleInit => Init
  BY DEF ConsoleInit
<1>2. [ConsoleNext]_<<vars, consoleVars>> => [Next]_vars
  BY ConsoleStepsAreTurns
<1>. QED
  BY <1>1, <1>2, PTL DEF ConsoleSpec, Spec

(* A turn at work has begun and not ended; the others stay where they are. *)
LEMMA WorkPlaces ==
  ASSUME TurnsInv, NEW t \in Turns, Work(t)
  PROVE  /\ at[t] \notin {"idle", "done"}
         /\ \A u \in Turns : u # t => at'[u] = at[u]
<1>1. at \in [Turns -> Places]
  BY DEF TurnsInv, ShapeOK
<1>2. CASE Lock(t) \/ Load(t) \/ LoadFails(t) \/ Emit(t) \/ Answer(t) \/ AnswerFails(t)
  BY <1>1, <1>2 DEF Lock, Load, LoadFails, Emit, Answer, AnswerFails, GiveUp, Go
<1>3. CASE FindSession(t) \/ SaveSession(t) \/ SaveMessage(t) \/ SaveFails(t)
  BY <1>1, <1>3 DEF FindSession, SaveSession, SaveMessage, SaveFails, GiveUp, Go, Roles
<1>4. CASE Finish(t) \/ Leave(t) \/ Respond(t) \/ EndWorker(t) \/ ShowPage(t)
  BY <1>1, <1>4 DEF Finish, Leave, Respond, EndWorker, ShowPage, Go
<1>. QED
  BY <1>2, <1>3, <1>4 DEF Work

(* What the control plane reads from a response.                           *)
LEMMA ResultIs ==
  ASSUME NEW t \in Console
  PROVE  ResultStatus(t) = IF approval[t] # "none" THEN "pending_approval" ELSE "completed"
<1>1. CASE approval[t] # "none"
  BY <1>1 DEF ResultStatus, ParsedStatus, GatewayStatus, PendingStatuses
<1>2. CASE approval[t] = "none"
  <2>1. GatewayStatus(t) = "completed"
    BY <1>2 DEF GatewayStatus
  <2>. QED
    BY <1>2, <2>1 DEF ResultStatus, ParsedStatus, PendingStatuses
<1>. QED
  BY <1>1, <1>2

LEMMA ConsoleStart == ConsoleInit => ConsoleOK
BY RunsAssumption DEF ConsoleInit, Init, ConsoleOK, RunOK, ReplyOK,
   RecordStatus, HandlerStatus, ApprovalStatus

(* A step of one run leaves the others' rows, handlers and approvals alone. *)
LEMMA RunFrame ==
  ASSUME ConsoleOK, NEW t \in Console,
         record' \in [Console -> RecordStatus], handler' \in [Console -> HandlerStatus],
         approval' \in [Console -> ApprovalStatus], DOMAIN reply' = Console,
         \A u \in Console : u # t => /\ record'[u] = record[u] /\ handler'[u] = handler[u]
                                     /\ approval'[u] = approval[u] /\ reply'[u] = reply[u]
                                     /\ at'[u] = at[u],
         RunOK(t)', ReplyOK(t)'
  PROVE  ConsoleOK'
<1>1. ASSUME NEW u \in Console, u # t PROVE RunOK(u)' /\ ReplyOK(u)'
  <2>1. RunOK(u) /\ ReplyOK(u)
    BY <1>1 DEF ConsoleOK
  <2>. QED
    BY <1>1, <2>1 DEF RunOK, ReplyOK, GatewayId, NoId
<1>. QED
  BY <1>1 DEF ConsoleOK

LEMMA CreateRunKeeps ==
  ASSUME ConsoleOK, NEW t \in Console, CreateRun(t)
  PROVE  ConsoleOK'
<1>1. /\ handler[t] = "idle" /\ UNCHANGED <<at, approval, reply>>
      /\ handler' = [handler EXCEPT ![t] = "created"]
      /\ record' = [record EXCEPT ![t] = "running"]
  BY DEF CreateRun, vars
<1>2. RunOK(t) /\ ReplyOK(t)
  BY DEF ConsoleOK
<1>3. /\ handler' \in [Console -> HandlerStatus] /\ handler'[t] = "created"
      /\ record' \in [Console -> RecordStatus] /\ record'[t] = "running"
      /\ \A u \in Console : u # t => record'[u] = record[u] /\ handler'[u] = handler[u]
  BY <1>1 DEF ConsoleOK, HandlerStatus, RecordStatus
<1>4. RunOK(t)' /\ ReplyOK(t)'
  BY <1>1, <1>2, <1>3 DEF RunOK, ReplyOK, GatewayId, NoId
<1>5. approval' \in [Console -> ApprovalStatus] /\ DOMAIN reply' = Console
  BY <1>1 DEF ConsoleOK
<1>. QED
  BY <1>1, <1>3, <1>4, <1>5, RunFrame

LEMMA CallRunnerKeeps ==
  ASSUME TurnsInv, ConsoleOK, NEW t \in Console, CallRunner(t)
  PROVE  ConsoleOK'
<1>1. /\ handler[t] = "created" /\ at[t] = "idle" /\ UNCHANGED <<record, approval, reply>>
      /\ handler' = [handler EXCEPT ![t] = "calling"]
      /\ \E place \in Places : Go(t, place)
  BY DEF CallRunner, Arrive, Places
<1>2. \A u \in Console : u # t => at'[u] = at[u]
  BY <1>1, RunsAssumption, Parts, Moved
<1>3. RunOK(t) /\ ReplyOK(t)
  BY DEF ConsoleOK
<1>4. /\ handler' \in [Console -> HandlerStatus] /\ handler'[t] = "calling"
      /\ \A u \in Console : u # t => handler'[u] = handler[u]
  BY <1>1 DEF ConsoleOK, HandlerStatus
<1>5. RunOK(t)' /\ ReplyOK(t)'
  BY <1>1, <1>3, <1>4 DEF RunOK, ReplyOK, GatewayId, NoId
<1>6. /\ record' \in [Console -> RecordStatus] /\ approval' \in [Console -> ApprovalStatus]
      /\ DOMAIN reply' = Console
  BY <1>1 DEF ConsoleOK
<1>. QED
  BY <1>1, <1>2, <1>4, <1>5, <1>6, RunFrame

LEMMA AskApprovalKeeps ==
  ASSUME TurnsInv, ConsoleOK, NEW t \in Console, AskApproval(t)
  PROVE  ConsoleOK'
<1>1. /\ at[t] = "thinking" /\ UNCHANGED <<record, handler, reply>>
      /\ approval' = [approval EXCEPT ![t] = "pending"]
      /\ Go(t, "saving") /\ "saving" \in Places
  BY DEF AskApproval, Answer, Places
<1>2. \A u \in Console : u # t => at'[u] = at[u]
  BY <1>1, RunsAssumption, Parts, Moved
<1>3. RunOK(t) /\ ReplyOK(t)
  BY DEF ConsoleOK
<1>4. /\ approval' \in [Console -> ApprovalStatus] /\ approval'[t] = "pending"
      /\ \A u \in Console : u # t => approval'[u] = approval[u]
  BY <1>1 DEF ConsoleOK, ApprovalStatus
<1>5. RunOK(t)' /\ ReplyOK(t)'
  BY <1>1, <1>3, <1>4 DEF RunOK, ReplyOK, GatewayId, NoId
<1>6. /\ record' \in [Console -> RecordStatus] /\ handler' \in [Console -> HandlerStatus]
      /\ DOMAIN reply' = Console
  BY <1>1 DEF ConsoleOK
<1>. QED
  BY <1>1, <1>2, <1>4, <1>5, <1>6, RunFrame

LEMMA CallFailsKeeps ==
  ASSUME ConsoleOK, NEW t \in Console, CallFails(t)
  PROVE  ConsoleOK'
<1>1. /\ handler[t] \in {"created", "calling"} /\ UNCHANGED <<at, approval, reply>>
      /\ handler' = [handler EXCEPT ![t] = "closed"]
      /\ record' \in {record, [record EXCEPT ![t] = "failed"]}
  BY DEF CallFails, vars
<1>2. RunOK(t) /\ ReplyOK(t)
  BY DEF ConsoleOK
<1>3. /\ handler' \in [Console -> HandlerStatus] /\ handler'[t] = "closed"
      /\ record' \in [Console -> RecordStatus] /\ record'[t] \in {record[t], "failed"}
      /\ \A u \in Console : u # t => record'[u] = record[u] /\ handler'[u] = handler[u]
  BY <1>1 DEF ConsoleOK, HandlerStatus, RecordStatus
<1>4. RunOK(t)' /\ ReplyOK(t)'
  BY <1>1, <1>2, <1>3 DEF RunOK, ReplyOK, GatewayId, NoId
<1>5. approval' \in [Console -> ApprovalStatus] /\ DOMAIN reply' = Console
  BY <1>1 DEF ConsoleOK
<1>. QED
  BY <1>1, <1>3, <1>4, <1>5, RunFrame

LEMMA TakeResultKeeps ==
  ASSUME ConsoleOK, NEW t \in Console, TakeResult(t)
  PROVE  ConsoleOK'
<1>1. /\ handler[t] = "calling" /\ at[t] = "done" /\ UNCHANGED <<at, approval, reply>>
  BY DEF TakeResult, vars
<1>2. RunOK(t) /\ ReplyOK(t)
  BY DEF ConsoleOK
<1>3. PICK place \in {"closed", "asking"} : handler' = [handler EXCEPT ![t] = place]
  BY DEF TakeResult
<1>4. /\ handler' \in [Console -> HandlerStatus] /\ handler'[t] = place
      /\ \A u \in Console : u # t => handler'[u] = handler[u]
  BY <1>3 DEF ConsoleOK, HandlerStatus
<1>5. PICK status : status = ResultStatus(t) /\ status \in RecordStatus
        /\ status = IF approval[t] # "none" THEN "pending_approval" ELSE "completed"
  BY ResultIs DEF RecordStatus
<1>6. \/ record' = record
      \/ record' = [u \in Console |-> IF u = t THEN status ELSE record[u]]
  <2>1. \A u \in Console : PlatformId(u) = PlatformId(t) <=> u = t
    BY DEF PlatformId
  <2>. QED
    BY <1>5, <2>1 DEF TakeResult, UpdateRun
<1>7. /\ record' \in [Console -> RecordStatus] /\ record'[t] \in {record[t], status}
      /\ \A u \in Console : u # t => record'[u] = record[u]
  BY <1>5, <1>6 DEF ConsoleOK
<1>8. RunOK(t)' /\ ReplyOK(t)'
  BY <1>1, <1>2, <1>4, <1>5, <1>7 DEF RunOK, ReplyOK, GatewayId, NoId
<1>9. approval' \in [Console -> ApprovalStatus] /\ DOMAIN reply' = Console
  BY <1>1 DEF ConsoleOK
<1>. QED
  BY <1>1, <1>4, <1>7, <1>8, <1>9, RunFrame

LEMMA DecideKeeps ==
  ASSUME ConsoleOK, NEW t \in Console, NEW d \in {"approved", "rejected"}, Decide(t, d)
  PROVE  ConsoleOK'
<1>1. handler[t] = "asking" /\ UNCHANGED <<at, record, handler>> /\ approval[t] # "none"
  BY DEF Decide, vars
<1>2. RunOK(t) /\ ReplyOK(t)
  BY DEF ConsoleOK
<1>3. PICK a \in {"approved", "rejected", "executed"} : approval' = [approval EXCEPT ![t] = a]
  BY DEF Decide
<1>4. /\ approval' \in [Console -> ApprovalStatus] /\ approval'[t] = a
      /\ \A u \in Console : u # t => approval'[u] = approval[u]
  BY <1>3 DEF ConsoleOK, ApprovalStatus
<1>5. \/ UNCHANGED reply
      \/ reply' = [reply EXCEPT ![t] = [id |-> ResponseId(t, d), status |-> "completed"]]
  BY DEF Decide, Reply
<1>6. ResponseId(t, d) \in {GatewayId(t), NoId}
  BY DEF ResponseId
<1>7. /\ DOMAIN reply' = Console /\ ReplyOK(t)'
      /\ \A u \in Console : u # t => reply'[u] = reply[u]
  BY <1>2, <1>5, <1>6 DEF ConsoleOK, ReplyOK, GatewayId, NoId
<1>8. RunOK(t)'
  BY <1>1, <1>2, <1>4 DEF RunOK
<1>9. record' \in [Console -> RecordStatus] /\ handler' \in [Console -> HandlerStatus]
  BY <1>1 DEF ConsoleOK
<1>. QED
  BY <1>1, <1>4, <1>7, <1>8, <1>9, RunFrame

LEMMA WriteDecisionKeeps ==
  ASSUME ConsoleOK, NEW t \in Console, WriteDecision(t)
  PROVE  ConsoleOK'
<1>1. /\ reply[t] # NoReply /\ UNCHANGED <<at, handler, approval>>
      /\ reply' = [reply EXCEPT ![t] = NoReply]
      /\ UpdateRun(reply[t].id, reply[t].status)
  BY DEF WriteDecision, vars
<1>2. RunOK(t) /\ ReplyOK(t)
  BY DEF ConsoleOK
<1>3. \A u \in Console : PlatformId(u) # reply[t].id
  BY <1>1, <1>2 DEF ReplyOK, PlatformId, GatewayId, NoId
<1>4. record' \in [Console -> RecordStatus] /\ \A u \in Console : record'[u] = record[u]
  BY <1>1, <1>3 DEF ConsoleOK, UpdateRun
<1>5. /\ DOMAIN reply' = Console /\ reply'[t] = NoReply
      /\ \A u \in Console : u # t => reply'[u] = reply[u]
  BY <1>1 DEF ConsoleOK
<1>6. RunOK(t)' /\ ReplyOK(t)'
  BY <1>1, <1>2, <1>4, <1>5 DEF RunOK, ReplyOK
<1>7. handler' \in [Console -> HandlerStatus] /\ approval' \in [Console -> ApprovalStatus]
  BY <1>1 DEF ConsoleOK
<1>. QED
  BY <1>1, <1>4, <1>5, <1>6, <1>7, RunFrame

(* The runner goes on with a turn, watched or not.                         *)
LEMMA WatchedKeeps ==
  ASSUME ConsoleOK, UNCHANGED consoleVars, NEW t \in Turns,
         \A u \in Turns : u # t => at'[u] = at[u],
         t \in Console => at[t] \notin {"idle", "done"}
  PROVE  ConsoleOK'
<1>1. UNCHANGED <<record, handler, approval, reply>> /\ Console \subseteq Turns
  BY RunsAssumption DEF consoleVars
<1>2. ASSUME NEW u \in Console PROVE RunOK(u)' /\ ReplyOK(u)'
  <2>1. RunOK(u) /\ ReplyOK(u)
    BY <1>2 DEF ConsoleOK
  <2>2. CASE u = t
    BY <1>1, <2>1, <2>2 DEF RunOK, ReplyOK, GatewayId, NoId
  <2>3. CASE u # t
    BY <1>1, <1>2, <2>1, <2>3 DEF RunOK, ReplyOK, GatewayId, NoId
  <2>. QED
    BY <2>2, <2>3
<1>. QED
  BY <1>1, <1>2 DEF ConsoleOK

LEMMA UntouchedKeeps ==
  ASSUME ConsoleOK, UNCHANGED <<at, record, handler, approval, reply>>
  PROVE  ConsoleOK'
BY DEF ConsoleOK, RunOK, ReplyOK, GatewayId, NoId

LEMMA ConsoleStep ==
  ASSUME TurnsInv, ConsoleOK, [ConsoleNext]_<<vars, consoleVars>>
  PROVE  ConsoleOK'
<1>1. ASSUME NEW t \in Console, Handle(t) PROVE ConsoleOK'
  BY <1>1, CreateRunKeeps, CallRunnerKeeps, AskApprovalKeeps, CallFailsKeeps,
     TakeResultKeeps, DecideKeeps, WriteDecisionKeeps DEF Handle
<1>2. ASSUME NEW t \in Turns, Work(t), UNCHANGED consoleVars PROVE ConsoleOK'
  BY <1>2, WorkPlaces, WatchedKeeps
<1>3. ASSUME NEW t \in Turns \ Console, Arrive(t), UNCHANGED consoleVars PROVE ConsoleOK'
  <2>1. PICK place \in Places : Go(t, place)
    BY <1>3 DEF Arrive, Places
  <2>2. \A u \in Turns : u # t => at'[u] = at[u]
    BY <2>1, Moved, Parts
  <2>. QED
    BY <1>3, <2>2, WatchedKeeps
<1>4. ASSUME NEW s \in Sessions, LoseLock(s) \/ OpenPage(s), UNCHANGED consoleVars
      PROVE  ConsoleOK'
  <2>1. UNCHANGED <<at, record, handler, approval, reply>>
    BY <1>4 DEF LoseLock, OpenPage, consoleVars
  <2>. QED
    BY <2>1, UntouchedKeeps
<1>5. ASSUME UNCHANGED <<vars, consoleVars>> PROVE ConsoleOK'
  <2>1. UNCHANGED <<at, record, handler, approval, reply>>
    BY <1>5 DEF vars, consoleVars
  <2>. QED
    BY <2>1, UntouchedKeeps
<1>. QED
  BY <1>1, <1>2, <1>3, <1>4, <1>5 DEF ConsoleNext

LEMMA ConsoleAlways == ConsoleSpec => [](TurnsInv /\ ConsoleOK)
<1>1. ConsoleInit => TurnsInv /\ ConsoleOK
  BY TurnsStart, ConsoleStart DEF ConsoleInit
<1>2. TurnsInv /\ ConsoleOK /\ [ConsoleNext]_<<vars, consoleVars>> => (TurnsInv /\ ConsoleOK)'
  <2>. SUFFICES ASSUME TurnsInv, ConsoleOK, [ConsoleNext]_<<vars, consoleVars>>
                PROVE  TurnsInv' /\ ConsoleOK'
    OBVIOUS
  <2>1. TurnsInv'
    BY ConsoleStepsAreTurns, TurnsStep
  <2>2. ConsoleOK'
    BY ConsoleStep
  <2>. QED
    BY <2>1, <2>2
<1>. QED
  BY <1>1, <1>2, PTL DEF ConsoleSpec

(* Types of both services' variables.                                      *)
THEOREM ConsoleIsTyped == ConsoleSpec => []ConsoleTypeOK
<1>1. TurnsInv /\ ConsoleOK => ConsoleTypeOK
  BY TurnsTyped DEF ConsoleOK, ConsoleTypeOK, ReplyOK, RecordStatus, HandlerStatus, ApprovalStatus
<1>. QED
  BY <1>1, ConsoleAlways, PTL

(* What agent_runs says of a run is what happened in the runner, also after *)
(* a call that timed out while its turn went on.                           *)
THEOREM RecordsTellTruth == ConsoleSpec => []RecordTellsTruth
<1>1. ConsoleOK => RecordTellsTruth
  BY DEF ConsoleOK, RunOK, RecordTellsTruth
<1>. QED
  BY <1>1, ConsoleAlways, PTL

=============================================================================
