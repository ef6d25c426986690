------------------------------ MODULE Learning ------------------------------
(***************************************************************************)
(* Skills learned from conversations.  The reflection job turns patterns   *)
(* of the last days into rows of procedural_memories and, for those that   *)
(* pass the promotion gate, into drafts in Strapi; people evaluate, review *)
(* and activate the drafts there; a synchronisation copies the skills into *)
(* PostgreSQL, from where the agent uses those with status active, unless  *)
(* a row of the list is malformed or an active one fails the gate.         *)
(*                                                                         *)
(* Jobs run under the advisory lock of the data operations, a session lock *)
(* on a connection of its own that may break while the job goes on; the    *)
(* script sync_strapi_content.py takes no lock and archives nothing.  The  *)
(* "text" of a skill stands for every field validate_skill looks at,       *)
(* "eval" for the text that its evaluation evidence was made for, with the *)
(* regression, the canary and the reviewer.                                *)
(***************************************************************************)
EXTENDS Integers

CONSTANTS
  Memories,    \* procedural memories: agent and fingerprint
  Names,       \* names of skills, unique in Strapi and in PostgreSQL
  Texts,
  Malformed,   \* the texts validate_skill refuses, or that do not normalize
  None,
  Reflections, Syncs,  \* processes that run these jobs, under the lock
  Scripts,             \* processes that synchronise without it
  NoProc,
  MaxEdits     \* bound: changes of people, drafts without a memory and
               \* broken connections

ASSUME LearningAssumption ==
  /\ {"manual", "feedback"} \cap Memories = {}
  /\ Malformed \subseteq Texts
  /\ None \notin Texts \cup Names \cup Memories
  /\ Reflections \cap Syncs = {}
  /\ Scripts \cap (Reflections \cup Syncs) = {}
  /\ NoProc \notin Reflections \cup Syncs \cup Scripts
  /\ MaxEdits \in Nat

Jobs == Reflections \cup Syncs
Procs == Jobs \cup Scripts
Origins == Memories \cup {"manual", "feedback"}

VARIABLES
  mem,     \* procedural_memories
  cms,     \* the skills of Strapi
  skill,   \* the skills of PostgreSQL
  proc,    \* where each process is
  holder,  \* who holds the advisory lock
  edits,   \* what was used of MaxEdits
  lost     \* history: jobs at work that lost the lock, or that began while
           \* one that had lost it was still at work

vars == <<mem, cms, skill, proc, holder, edits, lost>>

-----------------------------------------------------------------------------
Absent == [life |-> "absent", text |-> None, from |-> "manual", eval |-> None]

Skill == [life : {"draft", "active", "archived"}, text : Texts,
          from : Origins, eval : Texts \cup {None}]

Memory == [status : {"none", "candidate", "blocked", "conflicted", "skill_drafted"},
           name : Names \cup {None}]  \* promoted_skill_name

-----------------------------------------------------------------------------
\* People in Strapi: "draft" stands for all they can set but "active".

Changed(n, s) ==
  /\ edits < MaxEdits
  /\ edits' = edits + 1
  /\ cms' = [cms EXCEPT ![n] = s]

\* One save of the form: an evaluation that is entered was made for the text
\* from before the save.
Edit(n) ==
  /\ \/ /\ cms[n] = Absent
        /\ \E t \in Texts :
             Changed(n, [life |-> "active", text |-> t, from |-> "manual", eval |-> None])
     \/ /\ cms[n] # Absent
        /\ \E t \in Texts, l \in {"draft", "active"}, e \in {cms[n].eval, cms[n].text} :
             Changed(n, [life |-> l, text |-> t, from |-> cms[n].from, eval |-> e])
     \/ Changed(n, Absent)
  /\ UNCHANGED <<mem, skill, proc, holder, lost>>

-----------------------------------------------------------------------------
\* Processes

Idle == [at |-> "idle", memory |-> None, name |-> None, listed |-> <<>>]

To(p, at) == proc' = [proc EXCEPT ![p].at = at]

\* A job that begins beside one without its lock has no better footing itself.
Joins(p) == lost' = IF p \in Jobs /\ lost # {} THEN lost \cup {p} ELSE lost

AcquireAnyway(p) ==
  /\ proc[p].at = "idle"
  /\ holder' = IF p \in Jobs THEN p ELSE holder
  /\ Joins(p)

\* A job that does not get the lock reports "skipped".
Acquire(p) ==
  /\ proc[p].at = "idle"
  /\ p \in Jobs => holder = NoProc
  /\ holder' = IF p \in Jobs THEN p ELSE holder
  /\ Joins(p)

Leave(p) ==
  /\ proc' = [proc EXCEPT ![p] = Idle]
  /\ holder' = IF holder = p THEN NoProc ELSE holder
  /\ lost' = lost \ {p}

\* The idle connection that holds the lock breaks; the job works on others and
\* hears of it only when it unlocks.
LoseLock(p) ==
  /\ holder = p
  /\ edits < MaxEdits
  /\ edits' = edits + 1
  /\ holder' = NoProc
  /\ lost' = lost \cup {p}
  /\ UNCHANGED <<mem, cms, skill, proc>>

\* An exception or the end of the process: every step before it is kept.
Crash(p) ==
  /\ proc[p].at # "idle"
  /\ Leave(p)
  /\ UNCHANGED <<mem, cms, skill, edits>>

-----------------------------------------------------------------------------
\* run_weekly_reflection

StartReflection(p) ==
  /\ Acquire(p)
  /\ To(p, "reflecting")
  /\ UNCHANGED <<mem, cms, skill, edits>>

Draft(t, origin) == [life |-> "draft", text |-> t, from |-> origin, eval |-> None]

\* A pattern of negative feedback: a draft without a memory.
DraftFromFeedback(p, n, t) ==
  /\ proc[p].at = "reflecting"
  /\ t \notin Malformed
  /\ Changed(n, Draft(t, "feedback"))
  /\ UNCHANGED <<mem, skill, proc, holder, lost>>

\* The CASE of the upsert.
NextStatus(old, wanted) ==
  IF old = "skill_drafted" THEN IF wanted = "blocked" THEN "conflicted" ELSE old
  ELSE wanted

CanCreateSkillDraft(m) == m.status = "candidate" /\ m.name = None

Upsert(p, m, wanted) ==
  /\ proc[p].at = "reflecting"
  /\ mem' = [mem EXCEPT ![m].status = NextStatus(@, wanted)]
  /\ proc' = IF wanted = "candidate" /\ CanCreateSkillDraft(mem'[m])
             THEN [proc EXCEPT ![p].at = "drafting", ![p].memory = m] ELSE proc
  /\ UNCHANGED <<cms, skill, holder, edits, lost>>

\* StrapiClient.upsert: whatever skill has the name becomes this draft.  One
\* that is malformed is refused before it is written, and ends the job (Crash).
WriteSkillDraft(p, n, t) ==
  /\ proc[p].at = "drafting"
  /\ t \notin Malformed
  /\ cms' = [cms EXCEPT ![n] = Draft(t, proc[p].memory)]
  /\ proc' = [proc EXCEPT ![p].at = "marking", ![p].name = n]
  /\ UNCHANGED <<mem, skill, holder, edits, lost>>

MarkSkillDrafted(p) ==
  /\ proc[p].at = "marking"
  /\ mem' = [mem EXCEPT ![proc[p].memory] =
       IF @.status = "candidate" THEN [status |-> "skill_drafted", name |-> proc[p].name] ELSE @]
  /\ proc' = [proc EXCEPT ![p] = [Idle EXCEPT !.at = "reflecting"]]
  /\ UNCHANGED <<cms, skill, holder, edits, lost>>

EndReflection(p) ==
  /\ proc[p].at = "reflecting"
  /\ Leave(p)
  /\ UNCHANGED <<mem, cms, skill, edits>>

-----------------------------------------------------------------------------
\* sync_skill_rows, mark_missing_skills_archived

PassedEvenIfEdited(s) == s.from # "manual" => s.eval # None

\* agent_skill_promotion_errors is empty: the evidence is for this text.
Passed(s) == s.from # "manual" => s.eval = s.text

\* procedural_skill_state_errors is empty.
Backed(n, s) ==
  s.from \in Memories => /\ mem[s.from].status = "skill_drafted"
                         /\ mem[s.from].name \in {None, n}

StartSync(p) ==
  /\ Acquire(p)
  /\ proc' = [proc EXCEPT ![p].at = "listed", ![p].listed = cms]
  /\ UNCHANGED <<mem, cms, skill, edits>>

\* validate_skill and normalize_strapi_skill, of every row whatever its status.
WellFormed(list) == \A n \in Names : list[n].text \notin Malformed

MeetsGate(list) ==
  \A n \in Names : list[n].life = "active" => Passed(list[n]) /\ Backed(n, list[n])

\* One malformed row, a draft even, or one active skill that fails the gate
\* refuses the whole list.
Refuse(p) ==
  /\ proc[p].at = "listed"
  /\ ~WellFormed(proc[p].listed) \/ ~MeetsGate(proc[p].listed)
  /\ Leave(p)
  /\ UNCHANGED <<mem, cms, skill, edits>>

\* The states of the memories are read in a transaction of their own.
Accept(p) ==
  /\ proc[p].at = "listed"
  /\ WellFormed(proc[p].listed) /\ MeetsGate(proc[p].listed)
  /\ To(p, "accepted")
  /\ UNCHANGED <<mem, cms, skill, holder, edits, lost>>

CommitSkills(p) ==
  /\ proc[p].at = "accepted"
  /\ skill' = [n \in Names |-> IF proc[p].listed[n] = Absent THEN skill[n] ELSE proc[p].listed[n]]
  /\ IF p \in Syncs THEN To(p, "archiving") /\ UNCHANGED <<holder, lost>> ELSE Leave(p)
  /\ UNCHANGED <<mem, cms, edits>>

ArchiveNothing(p) ==
  /\ proc[p].at = "archiving"
  /\ Leave(p)
  /\ UNCHANGED <<mem, cms, skill, edits>>

ArchiveMissing(p) ==
  /\ proc[p].at = "archiving"
  /\ skill' = [n \in Names |->
       IF proc[p].listed[n] = Absent /\ skill[n] # Absent
       THEN [skill[n] EXCEPT !.life = "archived"] ELSE skill[n]]
  /\ Leave(p)
  /\ UNCHANGED <<mem, cms, edits>>

-----------------------------------------------------------------------------
Init ==
  /\ mem = [m \in Memories |-> [status |-> "none", name |-> None]]
  /\ cms = [n \in Names |-> Absent]
  /\ skill = [n \in Names |-> Absent]
  /\ proc = [p \in Procs |-> Idle]
  /\ holder = NoProc
  /\ edits = 0
  /\ lost = {}

Reflect(p) ==
  \/ \E n \in Names, t \in Texts : DraftFromFeedback(p, n, t) \/ WriteSkillDraft(p, n, t)
  \/ \E m \in Memories, w \in {"candidate", "blocked"} : Upsert(p, m, w)
  \/ MarkSkillDrafted(p)
  \/ EndReflection(p)

Sync(p) == Refuse(p) \/ Accept(p) \/ CommitSkills(p) \/ ArchiveMissing(p)

Next ==
  \/ \E n \in Names : Edit(n)
  \/ \E p \in Reflections : StartReflection(p) \/ Reflect(p)
  \/ \E p \in Syncs \cup Scripts : StartSync(p) \/ Sync(p)
  \/ \E p \in Procs : Crash(p)
  \/ \E p \in Jobs : LoseLock(p)

\* The scheduler starts the synchronisation again and again; a job that raises
\* ends run_forever, so this counts on the container being restarted, after
\* which every job is due at once and the synchronisation comes first.  No job
\* stays for ever where it is, none is cut short every time at the same place.
Fairness ==
  /\ SF_vars(\E p \in Syncs : StartSync(p))
  /\ \A p \in Reflections :
       /\ WF_vars(EndReflection(p))
       /\ WF_vars(\E n \in Names, t \in Texts : WriteSkillDraft(p, n, t))
       /\ SF_vars(MarkSkillDrafted(p))
  /\ \A p \in Syncs :
       /\ SF_vars(Refuse(p) \/ Accept(p))
       /\ SF_vars(CommitSkills(p))
       /\ SF_vars(ArchiveMissing(p))

Spec == Init /\ [][Next]_vars /\ Fairness

-----------------------------------------------------------------------------
\* Types of the state: a job at work holds the lock, unless the connection of
\* some job broke, and one that is not at work holds nothing.
TypeOK ==
  /\ mem \in [Memories -> Memory]
  /\ cms \in [Names -> Skill \cup {Absent}]
  /\ skill \in [Names -> Skill \cup {Absent}]
  /\ \A p \in Procs :
       /\ proc[p].at \in {"idle"}
            \cup (IF p \in Reflections THEN {"reflecting", "drafting", "marking"}
                  ELSE {"listed", "accepted"})
            \cup (IF p \in Syncs THEN {"archiving"} ELSE {})
       /\ proc[p].memory # None <=> proc[p].at \in {"drafting", "marking"}
       /\ holder = p \/ p \in lost => proc[p].at # "idle"
       /\ p \in Jobs \ lost /\ proc[p].at # "idle" => holder = p
  /\ holder \in Jobs \cup {NoProc}
  /\ lost \subseteq Jobs
  /\ edits \in 0..MaxEdits

\* A skill that the agents use and that an agent proposed carries evidence for
\* the very text it has, whoever changed Strapi between the listing, the gate
\* and the commit, and whichever process committed last
\* (agent_skill_promotion_errors, sync_skill_rows).
ActiveIsEvaluated ==
  \A n \in Names : skill[n].life = "active" /\ skill[n].from # "manual" => skill[n].eval = skill[n].text

Promotes(p, n) ==
  /\ proc[p].at = "accepted"
  /\ skill' # skill
  /\ proc'[p].at # "accepted"
  /\ proc[p].listed[n].life = "active"
  /\ proc[p].listed[n].from \in Memories

\* When a job writes a learned skill as active its memory is still
\* skill_drafted: a conflict is found by the reflection, which the lock keeps out
\* between the check and the commit (procedural_skill_state_errors), for as long
\* as no connection that held the lock breaks: advisory_job_lock never looks
\* whether it still has it.
JobPromotesBacked ==
  [][\A p \in Syncs, n \in Names :
       Promotes(p, n) /\ p \notin lost => Backed(n, proc[p].listed[n])]_vars

\* docs/architecture.md:297 says the same of every synchronisation; the script
\* takes no lock, and a job may have lost it.
PromotesBacked ==
  [][\A p \in Syncs \cup Scripts, n \in Names : Promotes(p, n) => Backed(n, proc[p].listed[n])]_vars

\* docs/architecture.md:296: a fingerprint that has a draft is not drafted again
\* (run_weekly_reflection: write_skill_draft, then mark_skill_drafted).
OneDraftPerMemory ==
  \A i, j \in Names : cms[i].from = cms[j].from /\ cms[i].from \in Memories => i = j

Mirrored ==
  \A n \in Names : IF cms[n] = Absent THEN skill[n].life \in {"absent", "archived"}
                   ELSE skill[n] = cms[n]

Refused == ~WellFormed(cms) \/ ~MeetsGate(cms)

\* Once people leave Strapi alone, PostgreSQL comes to show exactly its skills,
\* deleted ones archived, unless the list they left is one the gate refuses, be it
\* for a single malformed draft: crashes, lost locks, a script with an old list and
\* drafts written twice are all repaired by the next job (sync_skill_rows,
\* mark_missing_skills_archived, the scheduler).
SettlesOnStrapi == <>[](Refused \/ Mirrored)
=============================================================================
