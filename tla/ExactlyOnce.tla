---------------------------- MODULE ExactlyOnce ----------------------------
(***************************************************************************)
(* What replay protection promises a client, with the reservation          *)
(* protocol left out: requests that present one Idempotency-Key have their *)
(* work committed at most once in a retention window, and an answer never  *)
(* claims more or less than what was committed.                            *)
(***************************************************************************)
EXTENDS Integers

CONSTANTS
  Request,    \* HTTP requests presenting the key
  Intents,    \* what a request asks for: its endpoint and body
  NoRequest,  \* "no request": the author of an answer not yet given
  Retention   \* how long a stored answer is replayed

VARIABLES
  now,     \* the clock
  intent,  \* intent[r]: what r asks for
  work,    \* committed work: who did it, when, and for which intent
  answer   \* answer[r]: what r was told, and whose work that answer reports

vars == <<now, intent, work, answer>>

Kinds == {"created", "replayed", "refused", "failed", "error"}
NotAnswered == [kind |-> "none", of |-> NoRequest]

Live(w) == now < w.at + Retention

Init ==
  /\ now = 0
  /\ intent \in [Request -> Intents]
  /\ work = {}
  /\ answer = [r \in Request |-> NotAnswered]

(* Time passes. *)
Elapse == now' = now + 1 /\ UNCHANGED <<intent, work, answer>>

(* r's work commits: never twice, and never while an answer is live. *)
Commit(r) ==
  /\ answer[r] = NotAnswered
  /\ \A w \in work : w.by # r /\ ~Live(w)
  /\ work' = work \cup {[by |-> r, at |-> now, intent |-> intent[r]]}
  /\ UNCHANGED <<now, intent, answer>>

(* r is told its own work was done. *)
Confirm(r) ==
  /\ answer[r] = NotAnswered
  /\ \E w \in work : w.by = r
  /\ answer' = [answer EXCEPT ![r] = [kind |-> "created", of |-> r]]
  /\ UNCHANGED <<now, intent, work>>

(* r is served the stored answer of work that asked for the same thing. *)
Replay(r) ==
  /\ answer[r] = NotAnswered
  /\ \A w \in work : w.by # r
  /\ \E w \in work :
       /\ w.intent = intent[r]
       /\ answer' = [answer EXCEPT ![r] = [kind |-> "replayed", of |-> w.by]]
  /\ UNCHANGED <<now, intent, work>>

(* r is told nothing was done for it, and nothing was. *)
Decline(r) ==
  /\ answer[r] = NotAnswered
  /\ \A w \in work : w.by # r
  /\ \E k \in {"refused", "failed", "error"} :
       answer' = [answer EXCEPT ![r] = [kind |-> k, of |-> NoRequest]]
  /\ UNCHANGED <<now, intent, work>>

Next ==
  \/ Elapse
  \/ \E r \in Request : Commit(r) \/ Confirm(r) \/ Replay(r) \/ Decline(r)

Spec == Init /\ [][Next]_vars

=============================================================================
