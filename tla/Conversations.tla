---------------------------- MODULE Conversations ----------------------------
(***************************************************************************)
(* Turns of chat sessions in the runtime service.  A turn reads the recent *)
(* messages of its session, asks the agent, and saves the session's row,   *)
(* the question and the answer in Strapi, one request each.  Turns of the  *)
(* chat API ("chat"), of its event stream ("stream") and of the web page   *)
(* ("page") hold the session's advisory lock meanwhile; turns of the       *)
(* gateway and of webhooks ("gateway") take no lock.                       *)
(*                                                                         *)
(* A message is a pair <<turn, role>>, which is what its key is made of;   *)
(* msgs is in the order of creation.  One worker thread per stream puts    *)
(* events into a queue, which the response hands on in that order.          *)
(***************************************************************************)
EXTENDS Integers, FiniteSets, SequencesExt

CONSTANTS
  Turns, Sessions, NoTurn,
  KindOf,      \* [Turns -> {"chat", "stream", "page", "gateway"}]
  SessionOf,   \* [Turns -> Sessions]
  Limit,       \* messages of a session that a turn reads
  MaxEvents,   \* bound: progress events of a turn
  MaxFaults    \* bound: failed requests to Strapi and lost lock connections

ASSUME ConversationsAssumption ==
  /\ KindOf \in [Turns -> {"chat", "stream", "page", "gateway"}]
  /\ SessionOf \in [Turns -> Sessions]
  /\ NoTurn \notin Turns
  /\ Limit \in Nat \ {0} /\ MaxEvents \in Nat /\ MaxFaults \in Nat

Locking == {t \in Turns : KindOf[t] # "gateway"}
Streams == {t \in Turns : KindOf[t] = "stream"}
Pages   == {t \in Turns : KindOf[t] = "page"}

VARIABLES
  at,      \* where each turn is
  outcome, \* "fine", "unsaved" (answered, not saved) or "raised"
  holder,  \* the turn that holds a session's lock
  lost,    \* sessions whose lock connection has broken
  rows,    \* sessions with a row in Strapi
  found,   \* whether the turn has found that row
  msgs,    \* messages in Strapi
  seen,    \* history the turn works with
  events,  \* what a stream's worker has put into its queue
  page,    \* per session: what its web page shows
  faults

vars == <<at, outcome, holder, lost, rows, found, msgs, seen, events, page, faults>>

-----------------------------------------------------------------------------
Roles == {"user", "assistant"}
Events == {"progress", "final", "error", "end"}
NoKey == <<NoTurn, "assistant">>

\* The elements of seq at the places of P, in their order.
Rank(P, i) == Cardinality(P \cap (1..i))
AtPlaces(seq, P) ==
  [k \in 1..Cardinality(P) |-> seq[CHOOSE i \in P : Rank(P, i) = k]]

Of(s) == AtPlaces(msgs, {i \in DOMAIN msgs : SessionOf[msgs[i][1]] = s})

\* The newest messages of a session, oldest first.
Recent(s) == LET all == Of(s)
             IN  SubSeq(all, Len(all) - (IF Len(all) < Limit THEN Len(all) ELSE Limit) + 1, Len(all))

Answers(history) == AtPlaces(history, {i \in DOMAIN history : history[i][2] = "assistant"})

Go(t, place) == at' = [at EXCEPT ![t] = place]

\* An answer and an exception pass the unlock, if there is one to do.
ExitPlace(t) == IF t \in Locking THEN "leaving" ELSE "left"
GiveUp(t) == Go(t, ExitPlace(t))

\* A request to Strapi or a connection fails.
Fault == faults < MaxFaults /\ faults' = faults + 1

-----------------------------------------------------------------------------
\* The page shows the question at once, and sends one at a time: Gradio
\* ignores a second submit while the first is worked on.
Arrive(t) ==
  /\ at[t] = "idle"
  /\ t \in Pages => \A u \in Pages \ {t} :
       SessionOf[u] = SessionOf[t] => at[u] \in {"idle", "done"}
  /\ Go(t, IF t \in Locking THEN "waiting" ELSE "reading")
  /\ page' = IF t \in Pages THEN [page EXCEPT ![SessionOf[t]].history = Append(@, <<t, "user">>)]
             ELSE page
  /\ UNCHANGED <<outcome, holder, lost, rows, found, msgs, seen, events, faults>>

\* Mutant: the lock does not wait.
LockAnyway(t) ==
  /\ at[t] = "waiting"
  /\ holder' = [holder EXCEPT ![SessionOf[t]] = t]
  /\ Go(t, "reading")
  /\ UNCHANGED <<outcome, lost, rows, found, msgs, seen, events, page, faults>>

Lock(t) ==
  /\ at[t] = "waiting"
  /\ holder[SessionOf[t]] = NoTurn
  /\ holder' = [holder EXCEPT ![SessionOf[t]] = t]
  /\ Go(t, "reading")
  /\ UNCHANGED <<outcome, lost, rows, found, msgs, seen, events, page, faults>>

Load(t) ==
  /\ at[t] = "reading"
  /\ Go(t, "thinking")
  /\ seen' = [seen EXCEPT ![t] = Recent(SessionOf[t])]
  /\ UNCHANGED <<outcome, holder, lost, rows, found, msgs, events, page, faults>>

\* A gateway turn goes on without a history, the others give up.
LoadFails(t) ==
  /\ at[t] = "reading"
  /\ Fault
  /\ IF t \in Locking
     THEN GiveUp(t) /\ outcome' = [outcome EXCEPT ![t] = "raised"]
     ELSE Go(t, "thinking") /\ UNCHANGED outcome
  /\ UNCHANGED <<holder, lost, rows, found, msgs, seen, events, page>>

Emit(t) ==
  /\ t \in Streams /\ at[t] = "thinking"
  /\ Len(events[t]) < MaxEvents
  /\ events' = [events EXCEPT ![t] = Append(@, "progress")]
  /\ UNCHANGED <<at, outcome, holder, lost, rows, found, msgs, seen, page, faults>>

Answer(t) ==
  /\ at[t] = "thinking"
  /\ Go(t, "saving")
  /\ UNCHANGED <<outcome, holder, lost, rows, found, msgs, seen, events, page, faults>>

\* The agent raises: nothing of the turn is saved.
AnswerFails(t) ==
  /\ at[t] = "thinking"
  /\ Fault
  /\ GiveUp(t)
  /\ outcome' = [outcome EXCEPT ![t] = "raised"]
  /\ UNCHANGED <<holder, lost, rows, found, msgs, seen, events, page>>

\* client.upsert of the session: looks for the row, then updates or creates it.
FindSession(t) ==
  /\ at[t] = "saving"
  /\ found' = [found EXCEPT ![t] = SessionOf[t] \in rows]
  /\ Go(t, "session")
  /\ UNCHANGED <<outcome, holder, lost, rows, msgs, seen, events, page, faults>>

SaveSession(t) ==
  /\ at[t] = "session"
  /\ found[t] \/ SessionOf[t] \notin rows
  /\ rows' = rows \cup {SessionOf[t]}
  /\ found' = [found EXCEPT ![t] = FALSE]
  /\ Go(t, "user")
  /\ UNCHANGED <<outcome, holder, lost, msgs, seen, events, page, faults>>

\* Keys of messages hold the turn's trace id: there is never one to update.
SaveMessage(t) ==
  /\ at[t] \in Roles
  /\ msgs' = Append(msgs, <<t, at[t]>>)
  /\ Go(t, IF at[t] = "user" THEN "assistant"
           ELSE IF t \in Streams THEN "saved" ELSE ExitPlace(t))
  /\ UNCHANGED <<outcome, holder, lost, rows, found, seen, events, page, faults>>

\* Mutant: a failed request is skipped and the save goes on.
SaveSkips(t) ==
  /\ at[t] \in Roles
  /\ Fault
  /\ Go(t, IF at[t] = "user" THEN "assistant" ELSE ExitPlace(t))
  /\ UNCHANGED <<outcome, holder, lost, rows, found, msgs, seen, events, page>>

\* Strapi has carried out a request whose response is lost or too late.
CarriedOut(t) ==
  \/ at[t] = "session" /\ rows' = rows \cup {SessionOf[t]} /\ UNCHANGED msgs
  \/ at[t] \in Roles /\ msgs' = Append(msgs, <<t, at[t]>>) /\ UNCHANGED rows

\* Any request of the save fails, or the row was created by another turn and
\* is not unique.  What was written before stays.  The page and the gateway
\* answer all the same, the chat API does not.
SaveFails(t) ==
  /\ at[t] \in {"saving", "session"} \cup Roles
  /\ \/ Fault /\ UNCHANGED <<rows, msgs>>
     \/ Fault /\ CarriedOut(t)
     \/ /\ at[t] = "session" /\ ~found[t] /\ SessionOf[t] \in rows
        /\ UNCHANGED <<rows, msgs, faults>>
  /\ GiveUp(t)
  /\ outcome' = [outcome EXCEPT ![t] = IF KindOf[t] \in {"page", "gateway"} THEN "unsaved" ELSE "raised"]
  /\ UNCHANGED <<holder, lost, found, seen, events, page>>

\* emit_final_stream_event, after the save and before the lock is given back.
Finish(t) ==
  /\ at[t] = "saved"
  /\ Go(t, "leaving")
  /\ events' = [events EXCEPT ![t] = Append(@, "final")]
  /\ UNCHANGED <<outcome, holder, lost, rows, found, msgs, seen, page, faults>>

\* Mutant: the lock is given back after the response.
LeaveLocked(t) ==
  /\ at[t] = "leaving"
  /\ Go(t, "left")
  /\ UNCHANGED <<outcome, holder, lost, rows, found, msgs, seen, events, page, faults>>

\* The lock is released on success and on failure; with its connection gone
\* the unlock raises, too late to undo the save.
Leave(t) ==
  /\ at[t] = "leaving"
  /\ Go(t, "left")
  /\ IF holder[SessionOf[t]] = t
     THEN holder' = [holder EXCEPT ![SessionOf[t]] = NoTurn] /\ UNCHANGED outcome
     ELSE outcome' = [outcome EXCEPT ![t] = "raised"] /\ UNCHANGED holder
  /\ seen' = [seen EXCEPT ![t] = <<>>]
  /\ UNCHANGED <<lost, rows, found, msgs, events, page, faults>>

LoseLock(s) ==
  /\ holder[s] # NoTurn
  /\ Fault
  /\ holder' = [holder EXCEPT ![s] = NoTurn]
  /\ lost' = lost \cup {s}
  /\ UNCHANGED <<at, outcome, rows, found, msgs, seen, events, page>>

-----------------------------------------------------------------------------
\* The answer of /v1/chat, of the gateway or of a webhook: an error, or what
\* the agent said.
Respond(t) ==
  /\ at[t] = "left" /\ KindOf[t] \in {"chat", "gateway"}
  /\ Go(t, "done")
  /\ seen' = [seen EXCEPT ![t] = <<>>]
  /\ UNCHANGED <<outcome, holder, lost, rows, found, msgs, events, page, faults>>

\* Mutant: the worker puts the end mark only.
EndSilently(t) ==
  /\ at[t] = "left" /\ t \in Streams
  /\ Go(t, "done")
  /\ events' = [events EXCEPT ![t] = Append(@, "end")]
  /\ UNCHANGED <<outcome, holder, lost, rows, found, msgs, seen, page, faults>>

\* The end of the worker: an error event if the turn raised, then the mark.
EndWorker(t) ==
  /\ at[t] = "left" /\ t \in Streams
  /\ Go(t, "done")
  /\ events' = [events EXCEPT ![t] = @ \o (IF outcome[t] = "fine" THEN <<"end">> ELSE <<"error", "end">>)]
  /\ UNCHANGED <<outcome, holder, lost, rows, found, msgs, seen, page, faults>>

\* What load_recent_conversation gives the page of a session.
Reloaded(s) == [history |-> Recent(s), ids |-> Answers(Recent(s))]

\* A turn that was saved makes the page reload the session; one that was not
\* is appended with no key; an exception leaves the question without answer.
ShowPage(t) ==
  /\ at[t] = "left" /\ t \in Pages
  /\ Go(t, "done")
  /\ LET s == SessionOf[t]
     IN  CASE outcome[t] = "fine" ->
                \/ page' = [page EXCEPT ![s] = Reloaded(s)] /\ UNCHANGED faults
                \/ Fault /\ UNCHANGED page
           [] outcome[t] = "unsaved" ->
                /\ page' = [page EXCEPT ![s] = [history |-> Append(@.history, <<t, "assistant">>),
                                                ids |-> Append(@.ids, NoKey)]]
                /\ UNCHANGED faults
           [] OTHER -> UNCHANGED <<page, faults>>
  /\ UNCHANGED <<outcome, holder, lost, rows, found, msgs, seen, events>>

OpenPage(s) ==
  /\ \A t \in Pages : SessionOf[t] = s => at[t] \in {"idle", "done"}
  /\ page' = [page EXCEPT ![s] = Reloaded(s)]
  /\ page' # page
  /\ UNCHANGED <<at, outcome, holder, lost, rows, found, msgs, seen, events, faults>>

\* Mutant: pairs are counted, as if every question had an answer.
FeedbackByPairs(history, ids, i) ==
  LET n == (i + 1) \div 2
  IN  IF history[i][2] # "assistant" \/ n > Len(ids) THEN NoKey ELSE ids[n]

\* The message that a click on the history's item i rates.
FeedbackMessageId(history, ids, i) ==
  LET n == Len(Answers(SubSeq(history, 1, i)))
  IN  IF history[i][2] # "assistant" \/ n > Len(ids) THEN NoKey ELSE ids[n]

-----------------------------------------------------------------------------
Init ==
  /\ at = [t \in Turns |-> "idle"]
  /\ outcome = [t \in Turns |-> "fine"]
  /\ holder = [s \in Sessions |-> NoTurn]
  /\ lost = {} /\ rows = {} /\ msgs = <<>>
  /\ found = [t \in Turns |-> FALSE]
  /\ seen = [t \in Turns |-> <<>>]
  /\ events = [t \in Turns |-> <<>>]
  /\ page = [s \in Sessions |-> [history |-> <<>>, ids |-> <<>>]]
  /\ faults = 0

\* What a turn does by itself, up to its answer.
Work(t) ==
  \/ Lock(t) \/ Load(t) \/ LoadFails(t) \/ Emit(t) \/ Answer(t) \/ AnswerFails(t)
  \/ FindSession(t) \/ SaveSession(t) \/ SaveMessage(t) \/ SaveFails(t)
  \/ Finish(t) \/ Leave(t) \/ Respond(t) \/ EndWorker(t) \/ ShowPage(t)

Next ==
  \/ \E t \in Turns : Arrive(t) \/ Work(t)
  \/ \E s \in Sessions : LoseLock(s) \/ OpenPage(s)

Spec == Init /\ [][Next]_vars

-----------------------------------------------------------------------------
Places == {"idle", "waiting", "reading", "thinking", "saving", "session",
           "user", "assistant", "saved", "leaving", "left", "done"}

Keys == Turns \X Roles

\* Types of the variables; a lock is held by a turn of its session that takes
\* locks and has not given it back.
TypeOK ==
  /\ at \in [Turns -> Places]
  /\ outcome \in [Turns -> {"fine", "unsaved", "raised"}]
  /\ holder \in [Sessions -> Locking \cup {NoTurn}]
  /\ \A s \in Sessions : holder[s] # NoTurn =>
       SessionOf[holder[s]] = s /\ at[holder[s]] \notin {"idle", "waiting", "left", "done"}
  /\ lost \subseteq Sessions /\ rows \subseteq Sessions
  /\ found \in [Turns -> BOOLEAN]
  /\ msgs \in Seq(Keys) /\ IsInjective(msgs)
  /\ seen \in [Turns -> Seq(Keys)] /\ \A t \in Turns : Len(seen[t]) <= Limit
  /\ events \in [Turns -> Seq(Events)]
  /\ \A s \in Sessions : page[s].history \in Seq(Keys) /\ page[s].ids \in Seq(Keys \cup {NoKey})
  /\ faults \in 0..MaxFaults

Place(m) == CHOOSE i \in DOMAIN msgs : msgs[i] = m

\* A stored answer comes after its own question and its session has a row,
\* whichever of the three requests of save_chat_turn fails and whoever saves
\* in between: the memory extraction reads the pairs back in that order.
AnswerHasQuestion ==
  \A i \in DOMAIN msgs : msgs[i][2] = "assistant" =>
    /\ SessionOf[msgs[i][1]] \in rows
    /\ \E j \in 1..(i - 1) : msgs[j] = <<msgs[i][1], "user">>

\* operations.md: turns of one session run one after the other.  Between the
\* history a locking turn works with and its own messages there is nothing of
\* another locking turn: what it has not seen is older than its window.
\* Only a broken lock connection lets two of them overlap.
ChatTurnsSerial ==
  \A t \in Locking : \A m \in ToSet(msgs) :
    /\ SessionOf[t] \notin lost
    /\ at[t] \in {"thinking", "saving", "session", "user", "assistant", "saved"}
    /\ m[1] \in Locking \ {t} /\ SessionOf[m[1]] = SessionOf[t]
    => \/ m \in ToSet(seen[t])
       \/ \E n \in ToSet(seen[t]) : Place(m) < Place(n)

\* What a client of /v1/chat/stream sees: the end mark is the last event; a
\* final answer it was told of is saved under the key it was given; a stream
\* that ends without an error has told of one, and an error says "not saved"
\* unless the lock's connection broke after the save.
StreamTellsTruth ==
  \A t \in Streams :
    LET told == ToSet(events[t])
    IN  /\ \A i \in DOMAIN events[t] : events[t][i] = "end" => i = Len(events[t])
        /\ "final" \in told => <<t, "assistant">> \in ToSet(msgs)
        /\ "end" \in told => "final" \in told \/ "error" \in told
        /\ {"error", "final"} \subseteq told => SessionOf[t] \in lost

\* A click on an answer of the web page rates that answer, or nothing: the
\* page finds its key by counting answers, while answers that were not saved,
\* questions without an answer and turns of other channels come between.
PageRatesWhatItShows ==
  \A s \in Sessions : \A i \in DOMAIN page[s].history :
    FeedbackMessageId(page[s].history, page[s].ids, i) \in {page[s].history[i], NoKey}

=============================================================================
