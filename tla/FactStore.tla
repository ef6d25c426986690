----------------------------- MODULE FactStore -----------------------------
(***************************************************************************)
(* What a memory provider promises to its callers, whatever it keeps in    *)
(* its tables: per key one fact or none.  A call takes effect at most      *)
(* once, in one step after its start, and the answer "changed" is only     *)
(* given when it did.  Apart from calls, a fact only goes when its time    *)
(* has passed, and what comes back by itself is at most the fact the key   *)
(* had last, never one that was forgotten.                                 *)
(***************************************************************************)
CONSTANTS Keys, Values, NoValue, Clients

VARIABLES
  fact,  \* the fact of each key that a reader would be given
  last,  \* the last fact of each key, NoValue once it is forgotten
  call   \* the open call of each client

Idle == [key |-> NoValue, value |-> NoValue, answer |-> "none"]

Init ==
  /\ last \in [Keys -> Values \cup {NoValue}]
  /\ fact \in [Keys -> Values \cup {NoValue}]
  /\ \A k \in Keys : fact[k] \in {last[k], NoValue}
  /\ call = [c \in Clients |-> Idle]

\* A caller wants k to hold v, or NoValue: to forget it.
Ask(c, k, v) ==
  /\ call[c].answer # "open"
  /\ call' = [call EXCEPT ![c] = [key |-> k, value |-> v, answer |-> "open"]]
  /\ UNCHANGED <<fact, last>>

\* The caller may not learn of an effect.
Take(c, a) ==
  /\ call[c].answer = "open"
  /\ fact' = [fact EXCEPT ![call[c].key] = call[c].value]
  /\ last' = [last EXCEPT ![call[c].key] = call[c].value]
  /\ call' = [call EXCEPT ![c] = [Idle EXCEPT !.answer = a]]

Fail(c) ==
  /\ call[c].answer = "open"
  /\ call' = [call EXCEPT ![c] = [Idle EXCEPT !.answer = "failed"]]
  /\ UNCHANGED <<fact, last>>

\* The caller has read the answer, or is gone.
Leave(c) ==
  /\ call[c] # Idle
  /\ call' = [call EXCEPT ![c] = Idle]
  /\ UNCHANGED <<fact, last>>

Lapse(k) ==
  /\ fact' = [fact EXCEPT ![k] = NoValue]
  /\ UNCHANGED <<last, call>>

Restore ==
  /\ fact' \in [Keys -> Values \cup {NoValue}]
  /\ \A k \in Keys : fact'[k] \in {fact[k], last[k]}
  /\ UNCHANGED <<last, call>>

Next ==
  \/ \E c \in Clients :
       \/ \E k \in Keys, v \in Values \cup {NoValue} : Ask(c, k, v)
       \/ \E a \in {"changed", "failed"} : Take(c, a)
       \/ Fail(c)
       \/ Leave(c)
  \/ \E k \in Keys : Lapse(k)
  \/ Restore

Spec == Init /\ [][Next]_<<fact, last, call>>
=============================================================================
