--------------------------- MODULE LearningProofs ---------------------------
(***************************************************************************)
(* Proofs about Learning, for any memories, names, texts, processes and    *)
(* changes by people.                                                      *)
(*                                                                         *)
(* The inductive invariant: a job at work holds the lock and is the only   *)
(* one, unless it is among those a broken connection has left without;     *)
(* what a synchronisation carries past the gate has passed it, and the     *)
(* list of a job under the lock is still backed when it commits.           *)
(***************************************************************************)
EXTENDS Learning, TLAPS

PlacesOf(p) ==
  {"idle"}
    \cup (IF p \in Reflections THEN {"reflecting", "drafting", "marking"}
          ELSE {"listed", "accepted"})
    \cup (IF p \in Syncs THEN {"archiving"} ELSE {})

Lists == [Names -> Skill \cup {Absent}]

(* What a process works with.                                              *)
Equipped(p, r) ==
  /\ r.at \in PlacesOf(p)
  /\ r.memory \in Memories \cup {None}
  /\ r.name \in Names \cup {None}
  /\ r.memory # None <=> r.at \in {"drafting", "marking"}
  /\ r.at = "marking" => r.name \in Names
  /\ r.at \in {"listed", "accepted", "archiving"} => r.listed \in Lists

Places == {"idle", "reflecting", "drafting", "marking", "listed", "accepted", "archiving"}
Records == [at : Places, memory : Memories \cup {None}, name : Names \cup {None},
            listed : Lists \cup {<<>>}]

ProcsOK ==
  /\ proc \in [Procs -> Records]
  /\ \A p \in Procs : Equipped(p, proc[p])

AtWork(p) == proc[p].at # "idle"

LockHeld ==
  \A p \in Jobs :
    /\ holder = p \/ p \in lost => AtWork(p)
    /\ AtWork(p) /\ p \notin lost =>
         holder = p /\ \A q \in Jobs \ {p} : ~AtWork(q)

AllPassed(list) ==
  \A n \in Names : list[n].life = "active" => Passed(list[n])

Gated ==
  \A p \in Procs : proc[p].at \in {"accepted", "archiving"} => AllPassed(proc[p].listed)

(* The lock keeps the reflection out between the gate and the commit.      *)
StillBacked ==
  \A p \in Syncs \ lost : proc[p].at = "accepted" =>
    \A n \in Names : proc[p].listed[n].life = "active" => Backed(n, proc[p].listed[n])

LearningInv ==
  /\ mem \in [Memories -> Memory]
  /\ cms \in Lists
  /\ skill \in Lists
  /\ ProcsOK
  /\ LockHeld
  /\ lost \subseteq Jobs
  /\ holder \in Jobs \cup {NoProc}
  /\ edits \in 0..MaxEdits
  /\ Gated
  /\ StillBacked
  /\ ActiveIsEvaluated

-----------------------------------------------------------------------------
LEMMA InitInv == Init => LearningInv
<1>1. SUFFICES ASSUME Init PROVE LearningInv
  OBVIOUS
<1>2. mem \in [Memories -> Memory] /\ cms \in Lists /\ skill \in Lists
  BY <1>1 DEF Init, Memory, Lists
<1>3. \A p \in Procs : proc[p] = Idle
  BY <1>1 DEF Init
<1>4. Idle \in Records
  BY DEF Idle, Records, Places
<1>5. ProcsOK
  BY <1>1, <1>3, <1>4 DEF ProcsOK, Equipped, PlacesOf, Idle, Init
<1>6. LockHeld
  BY <1>1, <1>3, LearningAssumption DEF LockHeld, AtWork, Jobs, Procs, Idle, Init
<1>7. Gated /\ StillBacked
  BY <1>3 DEF Gated, StillBacked, Idle, Procs, Jobs
<1>8. ActiveIsEvaluated
  BY <1>1 DEF ActiveIsEvaluated, Init, Absent
<1>. QED
  BY <1>1, <1>2, <1>5, <1>6, <1>7, <1>8, LearningAssumption DEF LearningInv, Init

(* The lock at the four kinds of steps: a job goes on, begins, ends, or     *)
(* loses its connection.                                                   *)
LEMMA GoesOn ==
  ASSUME LearningInv, NEW p \in Procs, NEW r \in Records,
         proc' = [proc EXCEPT ![p] = r], AtWork(p), r.at # "idle",
         UNCHANGED <<holder, lost>>
  PROVE  LockHeld'
<1>1. \A q \in Procs : AtWork(q)' <=> AtWork(q)
  BY DEF AtWork, LearningInv, ProcsOK
<1>. QED
  BY <1>1 DEF LearningInv, LockHeld, Procs

LEMMA Begins ==
  ASSUME LearningInv, NEW p \in Procs, Acquire(p), NEW r \in Records,
         proc' = [proc EXCEPT ![p] = r], r.at # "idle"
  PROVE  /\ LockHeld'
         /\ holder' \in Jobs \cup {NoProc}
         /\ lost' \subseteq Jobs /\ lost \subseteq lost'
<1>1. /\ AtWork(p)' /\ ~AtWork(p)
      /\ \A q \in Procs : q # p => (AtWork(q)' <=> AtWork(q))
  BY DEF AtWork, LearningInv, ProcsOK, Acquire
<1>2. CASE p \notin Jobs
  BY <1>1, <1>2 DEF Acquire, Joins, LearningInv, LockHeld, Procs
<1>3. CASE p \in Jobs /\ lost = {}
  <2>1. holder = NoProc /\ holder' = p /\ lost' = {}
    BY <1>3 DEF Acquire, Joins
  <2>2. \A q \in Jobs : ~AtWork(q)
    BY <1>3, <2>1, LearningAssumption DEF LearningInv, LockHeld, Jobs
  <2>. QED
    BY <1>1, <1>3, <2>1, <2>2 DEF LockHeld, Procs
<1>4. CASE p \in Jobs /\ lost # {}
  <2>1. holder = NoProc /\ holder' = p /\ lost' = lost \cup {p}
    BY <1>4 DEF Acquire, Joins
  <2>2. \A q \in Jobs : AtWork(q) => q \in lost
    BY <2>1, LearningAssumption DEF LearningInv, LockHeld, Jobs
  <2>. QED
    BY <1>1, <1>4, <2>1, <2>2 DEF LearningInv, LockHeld, Procs
<1>. QED
  BY <1>2, <1>3, <1>4

LEMMA Ends ==
  ASSUME LearningInv, NEW p \in Procs, Leave(p)
  PROVE  /\ LockHeld'
         /\ holder' \in Jobs \cup {NoProc}
         /\ lost' \subseteq Jobs /\ lost' = lost \ {p}
<1>1. /\ ~AtWork(p)'
      /\ \A q \in Procs : q # p => (AtWork(q)' <=> AtWork(q))
  BY DEF AtWork, LearningInv, ProcsOK, Leave, Idle
<1>2. /\ holder' = IF holder = p THEN NoProc ELSE holder
      /\ lost' = lost \ {p}
  BY DEF Leave
<1>3. NoProc \notin Jobs /\ Jobs \subseteq Procs
  BY LearningAssumption DEF Jobs, Procs
<1>. QED
  BY <1>1, <1>2, <1>3 DEF LearningInv, LockHeld

LEMMA LoseLockInv ==
  ASSUME LearningInv, NEW p \in Jobs, LoseLock(p)
  PROVE  LearningInv'
<1>1. /\ holder = p /\ holder' = NoProc /\ lost' = lost \cup {p}
      /\ UNCHANGED <<mem, cms, skill, proc>>
      /\ edits' \in 0..MaxEdits
  BY LearningAssumption DEF LoseLock, LearningInv
<1>2. AtWork(p) /\ \A q \in Jobs : AtWork(q)' <=> AtWork(q)
  BY <1>1 DEF LearningInv, LockHeld, AtWork
<1>3. \A q \in Jobs : q # p /\ AtWork(q) => q \in lost
  BY <1>2 DEF LearningInv, LockHeld
<1>4. LockHeld'
  BY <1>1, <1>2, <1>3, LearningAssumption DEF LearningInv, LockHeld, Jobs
<1>5. ProcsOK' /\ Gated'
  BY <1>1 DEF LearningInv, ProcsOK, Gated
<1>6. StillBacked' /\ ActiveIsEvaluated'
  BY <1>1 DEF LearningInv, StillBacked, Backed, ActiveIsEvaluated
<1>. QED
  BY <1>1, <1>4, <1>5, <1>6 DEF LearningInv

(* A step of one process that writes neither memories nor skills.          *)
LEMMA OneProcess ==
  ASSUME LearningInv, NEW p \in Procs, NEW r \in Records,
         proc' = [proc EXCEPT ![p] = r], Equipped(p, r),
         cms' \in Lists, edits' \in 0..MaxEdits, UNCHANGED <<mem, skill>>,
         LockHeld', holder' \in Jobs \cup {NoProc},
         lost' \subseteq Jobs, lost \ {p} \subseteq lost',
         r.at \in {"accepted", "archiving"} => AllPassed(r.listed),
         p \in Syncs /\ r.at = "accepted" =>
           \A n \in Names : r.listed[n].life = "active" => Backed(n, r.listed[n])
  PROVE  LearningInv'
<1>1. /\ proc' \in [Procs -> Records] /\ proc'[p] = r
      /\ \A q \in Procs : q # p => proc'[q] = proc[q]
  BY DEF LearningInv, ProcsOK
<1>2. ProcsOK'
  BY <1>1 DEF LearningInv, ProcsOK
<1>4. Gated'
  BY <1>1 DEF LearningInv, Gated
<1>6. StillBacked'
  BY <1>1 DEF LearningInv, StillBacked, Procs, Jobs, Backed
<1>7. ActiveIsEvaluated'
  BY DEF LearningInv, ActiveIsEvaluated
<1>. QED
  BY <1>2, <1>4, <1>6, <1>7 DEF LearningInv

LEMMA IdleEquipped == \A p \in Procs : Idle \in Records /\ Equipped(p, Idle)
BY DEF Idle, Records, Places, Equipped, PlacesOf

LEMMA LeaveInv ==
  ASSUME LearningInv, NEW p \in Procs, Leave(p), UNCHANGED <<mem, cms, skill, edits>>
  PROVE  LearningInv'
<1>1. proc' = [proc EXCEPT ![p] = Idle]
  BY DEF Leave
<1>. QED
  BY <1>1, Ends, IdleEquipped, OneProcess DEF LearningInv, Idle

(* Two jobs are at work together only when a connection broke.             *)
LEMMA AloneAtWork ==
  ASSUME LearningInv, NEW p \in Jobs, NEW q \in Jobs, AtWork(p), AtWork(q), p # q
  PROVE  p \in lost /\ q \in lost
BY DEF LearningInv, LockHeld

(* A process at its place, with all it carries.                            *)
LEMMA InPlace ==
  ASSUME LearningInv, NEW p \in Procs
  PROVE  proc[p] \in Records /\ Equipped(p, proc[p])
BY DEF LearningInv, ProcsOK

LEMMA StartInv ==
  ASSUME LearningInv, NEW p \in Procs,
         (p \in Reflections /\ StartReflection(p)) \/
         (p \in Syncs \cup Scripts /\ StartSync(p))
  PROVE  LearningInv'
<1>1. CASE p \in Reflections /\ StartReflection(p)
  <2>1. PICK r : r = [proc[p] EXCEPT !.at = "reflecting"]
    OBVIOUS
  <2>2. r \in Records /\ Equipped(p, r) /\ r.at = "reflecting"
    BY <1>1, <2>1, InPlace
    DEF StartReflection, Acquire, Records, Places, Equipped, PlacesOf
  <2>3. proc' = [proc EXCEPT ![p] = r]
    BY <1>1, <2>1 DEF StartReflection, To
  <2>. QED
    BY <1>1, <2>2, <2>3, Begins, OneProcess DEF StartReflection, LearningInv
<1>2. CASE p \in Syncs \cup Scripts /\ StartSync(p)
  <2>1. PICK r : r = [proc[p] EXCEPT !.at = "listed", !.listed = cms]
    OBVIOUS
  <2>2. r \in Records /\ Equipped(p, r) /\ r.at = "listed"
    <3>1. PICK y : y = proc[p]
      OBVIOUS
    <3>a. y \in Records /\ Equipped(p, y)
      BY <3>1, InPlace
    <3>b. y.at = "idle"
      BY <1>2, <3>1 DEF StartSync, Acquire
    <3>c. p \notin Reflections
      BY <1>2, LearningAssumption
    <3>2. y \in Records /\ Equipped(p, y) /\ y.at = "idle" /\ p \notin Reflections
      BY <3>a, <3>b, <3>c
    <3>3. cms \in Lists /\ r = [y EXCEPT !.at = "listed", !.listed = cms]
      BY <2>1, <3>1 DEF LearningInv
    <3>4. r \in Records /\ r.at = "listed" /\ r.memory = y.memory /\ r.name = y.name
          /\ r.listed = cms
      BY <3>2, <3>3 DEF Records, Places
    <3>. QED
      BY <3>2, <3>3, <3>4 DEF Equipped, PlacesOf
  <2>3. proc' = [proc EXCEPT ![p] = r]
    BY <1>2, <2>1 DEF StartSync
  <2>. QED
    BY <1>2, <2>2, <2>3, Begins, OneProcess DEF StartSync, LearningInv
<1>. QED
  BY <1>1, <1>2

LEMMA DraftType ==
  ASSUME NEW t \in Texts, NEW origin \in Origins
  PROVE  Draft(t, origin) \in Skill
BY DEF Draft, Skill

LEMMA EditInv ==
  ASSUME LearningInv, NEW n \in Names, NEW s \in Skill \cup {Absent},
         Changed(n, s), UNCHANGED <<mem, skill, proc, holder, lost>>
  PROVE  LearningInv'
<1>1. cms' \in Lists /\ edits' \in 0..MaxEdits
  BY LearningAssumption DEF Changed, LearningInv, Lists
<1>2. ProcsOK' /\ LockHeld' /\ Gated'
  BY DEF LearningInv, ProcsOK, LockHeld, AtWork, Gated
<1>3. StillBacked' /\ ActiveIsEvaluated'
  BY DEF LearningInv, StillBacked, Backed, ActiveIsEvaluated
<1>. QED
  BY <1>1, <1>2, <1>3 DEF LearningInv

(* The reflection rewrites memories while no job is between the gate and   *)
(* the commit.                                                             *)
LEMMA MemoriesInv ==
  ASSUME LearningInv, NEW p \in Reflections, AtWork(p),
         mem' \in [Memories -> Memory],
         NEW r \in Records, Equipped(p, r), r.at # "idle",
         proc' = [proc EXCEPT ![p] = r],
         UNCHANGED <<cms, skill, holder, edits, lost>>
  PROVE  LearningInv'
<1>0. p \in Procs /\ p \in Jobs /\ p \notin Syncs /\ p \notin Scripts
  BY LearningAssumption DEF Procs, Jobs
<1>1. /\ proc' \in [Procs -> Records] /\ proc'[p] = r
      /\ \A q \in Procs : q # p => proc'[q] = proc[q]
  BY <1>0 DEF LearningInv, ProcsOK
<1>2. ProcsOK' /\ LockHeld'
  BY <1>1, <1>0, GoesOn DEF LearningInv, ProcsOK
<1>3. r.at \notin {"accepted", "archiving"}
  BY <1>0 DEF Equipped, PlacesOf
<1>4. Gated'
  BY <1>1, <1>3 DEF LearningInv, Gated
<1>5. \A q \in Syncs \ lost : proc'[q].at # "accepted"
  BY <1>0, <1>1, <1>3, AloneAtWork DEF Jobs, Procs, AtWork
<1>6. StillBacked'
  BY <1>5 DEF StillBacked, LearningInv
<1>7. ActiveIsEvaluated'
  BY DEF LearningInv, ActiveIsEvaluated
<1>. QED
  BY <1>2, <1>4, <1>6, <1>7 DEF LearningInv

LEMMA UpsertInv ==
  ASSUME LearningInv, NEW p \in Reflections, NEW m \in Memories,
         NEW w \in {"candidate", "blocked"}, Upsert(p, m, w)
  PROVE  LearningInv'
<1>0. p \in Procs /\ proc[p] \in Records /\ Equipped(p, proc[p])
  BY InPlace DEF Procs, Jobs
<1>1. mem[m] \in Memory
  BY DEF LearningInv
<1>2. NextStatus(mem[m].status, w) \in {"candidate", "blocked", "conflicted", "skill_drafted"}
  BY <1>1 DEF NextStatus
<1>3. mem' \in [Memories -> Memory]
  <2>1. [mem[m] EXCEPT !.status = NextStatus(mem[m].status, w)] \in Memory
    BY <1>1, <1>2 DEF Memory
  <2>2. mem' = [mem EXCEPT ![m] = [mem[m] EXCEPT !.status = NextStatus(mem[m].status, w)]]
    BY DEF Upsert
  <2>. QED
    BY <2>1, <2>2 DEF LearningInv
<1>4. CASE proc' = proc
  <2>1. proc' = [proc EXCEPT ![p] = proc[p]]
    BY <1>0, <1>4 DEF LearningInv, ProcsOK
  <2>. QED
    BY <1>0, <1>3, <2>1, MemoriesInv DEF AtWork, Upsert
<1>5. CASE proc' = [proc EXCEPT ![p].at = "drafting", ![p].memory = m]
  <2>1. PICK r : r = [proc[p] EXCEPT !.at = "drafting", !.memory = m]
    OBVIOUS
  <2>2. r \in Records /\ Equipped(p, r) /\ r.at = "drafting"
    BY <1>0, <2>1, LearningAssumption DEF Records, Places, Equipped, PlacesOf
  <2>3. proc' = [proc EXCEPT ![p] = r]
    BY <1>5, <2>1
  <2>. QED
    BY <1>3, <2>2, <2>3, MemoriesInv DEF AtWork, Upsert
<1>. QED
  BY <1>4, <1>5 DEF Upsert

LEMMA WriteSkillDraftInv ==
  ASSUME LearningInv, NEW p \in Reflections, NEW n \in Names, NEW t \in Texts,
         WriteSkillDraft(p, n, t)
  PROVE  LearningInv'
<1>0. p \in Procs /\ proc[p] \in Records /\ Equipped(p, proc[p])
      /\ p \in Jobs /\ p \notin Syncs /\ AtWork(p)
  BY InPlace, LearningAssumption DEF Procs, Jobs, WriteSkillDraft, AtWork
<1>1. PICK r : r = [proc[p] EXCEPT !.at = "marking", !.name = n]
  OBVIOUS
<1>2. r \in Records /\ Equipped(p, r) /\ r.at = "marking"
  BY <1>0, <1>1 DEF Records, Places, Equipped, PlacesOf, WriteSkillDraft
<1>3. proc' = [proc EXCEPT ![p] = r]
  BY <1>1 DEF WriteSkillDraft
<1>4. cms' \in Lists
  <2>1. proc[p].memory \in Memories
    BY <1>0 DEF Equipped, WriteSkillDraft
  <2>. QED
    BY <2>1, DraftType DEF WriteSkillDraft, LearningInv, Lists, Origins
<1>. QED
  BY <1>0, <1>2, <1>3, <1>4, GoesOn, OneProcess DEF WriteSkillDraft, LearningInv

LEMMA MarkSkillDraftedInv ==
  ASSUME LearningInv, NEW p \in Reflections, MarkSkillDrafted(p)
  PROVE  LearningInv'
<1>0. p \in Procs /\ proc[p] \in Records /\ Equipped(p, proc[p])
  BY InPlace DEF Procs, Jobs
<1>1. PICK r : r = [Idle EXCEPT !.at = "reflecting"]
  OBVIOUS
<1>2. r \in Records /\ Equipped(p, r) /\ r.at = "reflecting"
  BY <1>1, IdleEquipped DEF Idle, Records, Places, Equipped, PlacesOf
<1>3. mem' \in [Memories -> Memory]
  BY <1>0 DEF MarkSkillDrafted, LearningInv, Memory, Equipped
<1>. QED
  BY <1>1, <1>2, <1>3, MemoriesInv DEF AtWork, MarkSkillDrafted

LEMMA AcceptInv ==
  ASSUME LearningInv, NEW p \in Syncs \cup Scripts, Accept(p)
  PROVE  LearningInv'
<1>0. p \in Procs /\ proc[p] \in Records /\ Equipped(p, proc[p])
      /\ AtWork(p)
  BY InPlace DEF Procs, Jobs, Accept, AtWork
<1>1. PICK r : r = [proc[p] EXCEPT !.at = "accepted"]
  OBVIOUS
<1>2. /\ r \in Records /\ Equipped(p, r) /\ r.at = "accepted"
      /\ r.listed = proc[p].listed
  BY <1>0, <1>1, LearningAssumption DEF Records, Places, Equipped, PlacesOf, Accept, Jobs
<1>3. proc' = [proc EXCEPT ![p] = r]
  BY <1>1 DEF Accept, To
<1>4. \A n \in Names : r.listed[n].life = "active" =>
        Passed(r.listed[n]) /\ Backed(n, r.listed[n])
  BY <1>2 DEF Accept, MeetsGate
<1>. QED
  BY <1>0, <1>2, <1>3, <1>4, GoesOn, OneProcess DEF Accept, LearningInv, AllPassed

(* The skills written by a synchronisation that has passed the gate.       *)
LEMMA SkillsInv ==
  ASSUME LearningInv, NEW p \in Syncs \cup Scripts,
         skill' \in Lists, ActiveIsEvaluated',
         NEW r \in Records, Equipped(p, r), proc' = [proc EXCEPT ![p] = r],
         UNCHANGED <<mem, cms, edits>>, r.at # "accepted",
         r.at = "archiving" => AllPassed(r.listed),
         LockHeld', holder' \in Jobs \cup {NoProc},
         lost' \subseteq Jobs, lost \ {p} \subseteq lost'
  PROVE  LearningInv'
<1>0. p \in Procs
  BY DEF Procs, Jobs
<1>1. /\ proc' \in [Procs -> Records] /\ proc'[p] = r
      /\ \A q \in Procs : q # p => proc'[q] = proc[q]
  BY <1>0 DEF LearningInv, ProcsOK
<1>2. ProcsOK'
  BY <1>1, <1>0 DEF LearningInv, ProcsOK, Procs
<1>3. Gated'
  BY <1>1 DEF LearningInv, Gated
<1>4. StillBacked'
  BY <1>1 DEF LearningInv, StillBacked, Procs, Jobs, Backed
<1>. QED
  BY <1>2, <1>3, <1>4 DEF LearningInv

LEMMA CommitSkillsInv ==
  ASSUME LearningInv, NEW p \in Syncs \cup Scripts, CommitSkills(p)
  PROVE  LearningInv'
<1>0. /\ p \in Procs /\ proc[p] \in Records /\ Equipped(p, proc[p])
      /\ AtWork(p) /\ proc[p].listed \in Lists
      /\ AllPassed(proc[p].listed)
  BY InPlace DEF Procs, Jobs, CommitSkills, Equipped, LearningInv, Gated, AtWork
<1>1. skill' = [n \in Names |-> IF proc[p].listed[n] = Absent THEN skill[n]
                               ELSE proc[p].listed[n]]
  BY DEF CommitSkills
<1>2. skill' \in Lists
  BY <1>0, <1>1 DEF Lists, LearningInv
<1>3. ActiveIsEvaluated'
  BY <1>0, <1>1 DEF LearningInv, ActiveIsEvaluated, AllPassed, Passed
<1>4. CASE p \in Syncs
  <2>1. PICK r : r = [proc[p] EXCEPT !.at = "archiving"]
    OBVIOUS
  <2>2. /\ r \in Records /\ Equipped(p, r) /\ r.at = "archiving"
        /\ r.listed = proc[p].listed
    BY <1>0, <1>4, <2>1, LearningAssumption
    DEF Records, Places, Equipped, PlacesOf, CommitSkills, Jobs
  <2>3. proc' = [proc EXCEPT ![p] = r] /\ UNCHANGED <<holder, lost>>
    BY <1>4, <2>1 DEF CommitSkills, To
  <2>. QED
    BY <1>0, <1>2, <1>3, <1>4, <2>2, <2>3, GoesOn, SkillsInv DEF CommitSkills, LearningInv, Jobs
<1>5. CASE p \notin Syncs
  <2>1. Leave(p) /\ proc' = [proc EXCEPT ![p] = Idle]
    BY <1>5 DEF CommitSkills, Leave
  <2>. QED
    BY <1>0, <1>2, <1>3, <2>1, Ends, IdleEquipped, SkillsInv DEF CommitSkills, Idle
<1>. QED
  BY <1>4, <1>5

LEMMA ArchiveMissingInv ==
  ASSUME LearningInv, NEW p \in Syncs \cup Scripts, ArchiveMissing(p)
  PROVE  LearningInv'
<1>0. p \in Procs
  BY DEF Procs, Jobs
<1>1. skill' = [n \in Names |->
        IF proc[p].listed[n] = Absent /\ skill[n] # Absent
        THEN [skill[n] EXCEPT !.life = "archived"] ELSE skill[n]]
  BY DEF ArchiveMissing
<1>2. skill' \in Lists
  <2>1. \A n \in Names : skill[n] \in Skill \cup {Absent}
    BY DEF LearningInv, Lists
  <2>2. \A s \in Skill : [s EXCEPT !.life = "archived"] \in Skill
    BY DEF Skill
  <2>. QED
    BY <1>1, <2>1, <2>2 DEF Lists
<1>3. ActiveIsEvaluated'
  <2>1. SUFFICES ASSUME NEW n \in Names, skill'[n].life = "active",
                        skill'[n].from # "manual"
                 PROVE  skill'[n].eval = skill'[n].text
    BY DEF ActiveIsEvaluated
  <2>2. skill[n] \in Skill \cup {Absent}
    BY DEF LearningInv, Lists
  <2>3. skill'[n] = skill[n]
    <3>1. \A s \in Skill : [s EXCEPT !.life = "archived"].life = "archived"
      BY DEF Skill
    <3>. QED
      BY <1>1, <2>1, <2>2, <3>1
  <2>. QED
    BY <2>1, <2>3 DEF LearningInv, ActiveIsEvaluated
<1>4. Leave(p) /\ proc' = [proc EXCEPT ![p] = Idle]
  BY DEF ArchiveMissing, Leave
<1>. QED
  BY <1>0, <1>2, <1>3, <1>4, Ends, IdleEquipped, SkillsInv DEF ArchiveMissing, Idle

-----------------------------------------------------------------------------
LEMMA NextInv == LearningInv /\ [Next]_vars => LearningInv'
<1>. SUFFICES ASSUME LearningInv, [Next]_vars PROVE LearningInv'
  OBVIOUS
<1>1. CASE \E n \in Names : Edit(n)
  <2>1. PICK n \in Names : Edit(n)
    BY <1>1
  <2>2. ASSUME NEW t \in Texts,
               Changed(n, [life |-> "active", text |-> t, from |-> "manual", eval |-> None])
        PROVE  LearningInv'
    <3>1. [life |-> "active", text |-> t, from |-> "manual", eval |-> None] \in Skill
      BY DEF Skill, Origins
    <3>. QED
      BY <2>1, <2>2, <3>1, EditInv DEF Edit
  <2>3. ASSUME cms[n] # Absent, NEW t \in Texts, NEW l \in {"draft", "active"},
               NEW e \in {cms[n].eval, cms[n].text},
               Changed(n, [life |-> l, text |-> t, from |-> cms[n].from, eval |-> e])
        PROVE  LearningInv'
    <3>1. cms[n] \in Skill
      BY <2>3 DEF LearningInv, Lists
    <3>2. [life |-> l, text |-> t, from |-> cms[n].from, eval |-> e] \in Skill
      BY <3>1 DEF Skill
    <3>. QED
      BY <2>1, <2>3, <3>2, EditInv DEF Edit
  <2>4. CASE Changed(n, Absent)
    BY <2>1, <2>4, EditInv DEF Edit
  <2>. QED
    BY <2>1, <2>2, <2>3, <2>4 DEF Edit
<1>2. CASE \E p \in Reflections : StartReflection(p) \/ Reflect(p)
  <2>1. PICK p \in Reflections : StartReflection(p) \/ Reflect(p)
    BY <1>2
  <2>2. p \in Procs
    BY DEF Procs, Jobs
  <2>3. CASE StartReflection(p)
    BY <2>2, <2>3, StartInv
  <2>4. CASE \E n \in Names, t \in Texts : DraftFromFeedback(p, n, t) \/ WriteSkillDraft(p, n, t)
    <3>1. PICK n \in Names, t \in Texts : DraftFromFeedback(p, n, t) \/ WriteSkillDraft(p, n, t)
      BY <2>4
    <3>2. CASE DraftFromFeedback(p, n, t)
      BY <3>2, DraftType, EditInv DEF DraftFromFeedback, Origins
    <3>3. CASE WriteSkillDraft(p, n, t)
      BY <3>3, WriteSkillDraftInv
    <3>. QED
      BY <3>1, <3>2, <3>3
  <2>5. CASE \E m \in Memories, w \in {"candidate", "blocked"} : Upsert(p, m, w)
    BY <2>5, UpsertInv
  <2>6. CASE MarkSkillDrafted(p)
    BY <2>6, MarkSkillDraftedInv
  <2>7. CASE EndReflection(p)
    BY <2>2, <2>7, LeaveInv DEF EndReflection
  <2>. QED
    BY <2>1, <2>3, <2>4, <2>5, <2>6, <2>7 DEF Reflect
<1>3. CASE \E p \in Syncs \cup Scripts : StartSync(p) \/ Sync(p)
  <2>1. PICK p \in Syncs \cup Scripts : StartSync(p) \/ Sync(p)
    BY <1>3
  <2>2. p \in Procs
    BY DEF Procs, Jobs
  <2>3. CASE StartSync(p)
    BY <2>2, <2>3, StartInv
  <2>4. CASE Refuse(p)
    BY <2>2, <2>4, LeaveInv DEF Refuse
  <2>5. CASE Accept(p) \/ CommitSkills(p) \/ ArchiveMissing(p)
    BY <2>5, AcceptInv, CommitSkillsInv, ArchiveMissingInv
  <2>. QED
    BY <2>1, <2>3, <2>4, <2>5 DEF Sync
<1>4. CASE \E p \in Procs : Crash(p)
  BY <1>4, LeaveInv DEF Crash
<1>6. CASE \E p \in Jobs : LoseLock(p)
  BY <1>6, LoseLockInv
<1>5. CASE UNCHANGED vars
  <2>1. ProcsOK' /\ LockHeld' /\ Gated'
    BY <1>5 DEF vars, LearningInv, ProcsOK, LockHeld, AtWork, Gated
  <2>2. StillBacked' /\ ActiveIsEvaluated'
    BY <1>5 DEF vars, LearningInv, StillBacked, Backed, ActiveIsEvaluated
  <2>. QED
    BY <1>5, <2>1, <2>2 DEF vars, LearningInv
<1>. QED
  BY <1>1, <1>2, <1>3, <1>4, <1>5, <1>6 DEF Next

LEMMA Invariance == Spec => []LearningInv
BY InitInv, NextInv, PTL DEF Spec

(* The types of the state, and with them that a job works under the lock   *)
(* unless a connection broke.                                              *)
THEOREM TypeCorrect == Spec => []TypeOK
<1>1. ASSUME LearningInv PROVE TypeOK
  <2>1. ASSUME NEW p \in Procs
        PROVE  /\ proc[p].at \in PlacesOf(p)
               /\ proc[p].memory # None <=> proc[p].at \in {"drafting", "marking"}
               /\ holder = p \/ p \in lost => proc[p].at # "idle"
               /\ p \in Jobs \ lost /\ proc[p].at # "idle" => holder = p
    <3>1. Equipped(p, proc[p])
      BY <1>1, InPlace
    <3>2. holder = p \/ p \in lost => p \in Jobs
      BY <1>1, LearningAssumption DEF LearningInv, Procs, Jobs
    <3>. QED
      BY <1>1, <3>1, <3>2 DEF Equipped, LearningInv, LockHeld, AtWork
  <2>. QED
    BY <1>1, <2>1 DEF TypeOK, LearningInv, Lists, PlacesOf
<1>. QED
  BY <1>1, Invariance, PTL

(* Whoever edits Strapi between listing, gate and commit, and whichever    *)
(* process commits last: a learned skill in use has evidence for its text. *)
THEOREM OnlyEvaluatedSkills == Spec => []ActiveIsEvaluated
<1>1. LearningInv => ActiveIsEvaluated
  BY DEF LearningInv
<1>. QED
  BY <1>1, Invariance, PTL

(* What a job writes as active is backed by its memory at that moment, for *)
(* any number of reflections and synchronisations, of which any may lose   *)
(* the lock at any time: only the job that lost it, and one that begins    *)
(* beside such a job, may write what the reflection has just refuted.      *)
THEOREM JobsPromoteBacked == Spec => JobPromotesBacked
<1>1. LearningInv /\ [Next]_vars =>
        [\A p \in Syncs, n \in Names :
           Promotes(p, n) /\ p \notin lost => Backed(n, proc[p].listed[n])]_vars
  BY DEF LearningInv, StillBacked, Promotes
<1>. QED
  BY <1>1, Invariance, PTL DEF Spec, JobPromotesBacked

=============================================================================
