------------------------- MODULE AbstractForwarding -------------------------
(***************************************************************************)
(* What the forwarding core promises to its clients and to the providers,  *)
(* with no circuit, semaphore, score or leader in sight: each request is   *)
(* sent to one upstream after another, so often at most, to no upstream    *)
(* again after it failed there (if that is asked for), and to none that is *)
(* serving its full number of requests; and the answer says what happened. *)
(***************************************************************************)
EXTENDS Naturals, FiniteSets

CONSTANTS
  Upstreams, Requests, None,
  Cap,       \* requests an upstream serves at a time
  Tries,     \* how often a request is sent
  Elsewhere  \* never again to an upstream that failed it

VARIABLES
  stage,     \* "done", "choosing", "asking" an upstream, "answered" by it
  on,        \* the upstream that is serving it, or None
  failedAt,  \* the upstreams it is not sent to again
  tries,     \* how often it has been sent
  answer     \* the client's, when it is done

absVars == <<stage, on, failedAt, tries, answer>>

Init ==
  /\ stage = [t \in Requests |-> "done"]
  /\ on = [t \in Requests |-> None]
  /\ failedAt = [t \in Requests |-> {}]
  /\ tries = [t \in Requests |-> 0]
  /\ answer = [t \in Requests |-> "none"]

MoveTo(t, where) == stage' = [stage EXCEPT ![t] = where]

Arrive(t) ==
  /\ stage[t] = "done"
  /\ MoveTo(t, "choosing")
  /\ failedAt' = [failedAt EXCEPT ![t] = {}]
  /\ tries' = [tries EXCEPT ![t] = 0]
  /\ answer' = [answer EXCEPT ![t] = "none"]
  /\ UNCHANGED on

Served(u) == {t \in Requests : on[t] = u}

Send(t, u) ==
  /\ stage[t] = "choosing"
  /\ tries[t] < Tries
  /\ u \notin failedAt[t]
  /\ Cardinality(Served(u)) < Cap
  /\ MoveTo(t, "asking")
  /\ on' = [on EXCEPT ![t] = u]
  /\ tries' = [tries EXCEPT ![t] = @ + 1]
  /\ UNCHANGED <<failedAt, answer>>

Hear(t, ok) ==
  /\ stage[t] = "asking"
  /\ MoveTo(t, "answered")
  /\ answer' = [answer EXCEPT ![t] = IF ok THEN "ok" ELSE "upstream_error"]
  /\ UNCHANGED <<on, failedAt, tries>>

(* The upstream is let go. *)
LetGo(t) == on' = [on EXCEPT ![t] = None]

Deliver(t) ==
  /\ stage[t] = "answered" /\ answer[t] = "ok"
  /\ MoveTo(t, "done")
  /\ LetGo(t)
  /\ UNCHANGED <<failedAt, tries, answer>>

TryAgain(t) ==
  /\ stage[t] = "answered" /\ answer[t] # "ok"
  /\ MoveTo(t, "choosing")
  /\ LetGo(t)
  /\ failedAt' = [failedAt EXCEPT ![t] = IF Elsewhere THEN @ \cup {on[t]} ELSE @]
  /\ UNCHANGED <<tries, answer>>

(* Nobody to send it to: the upstreams' error, if there has been one.      *)
Fail(t) ==
  /\ stage[t] = "choosing"
  /\ MoveTo(t, "done")
  /\ answer' = [answer EXCEPT ![t] = IF tries[t] = 0 THEN "exhausted" ELSE "upstream_error"]
  /\ UNCHANGED <<on, failedAt, tries>>

(* Out of time, or without a client. *)
Abandon(t, why) ==
  /\ stage[t] = "asking"
  /\ MoveTo(t, "done")
  /\ LetGo(t)
  /\ answer' = [answer EXCEPT ![t] = why]
  /\ UNCHANGED <<failedAt, tries>>

Next ==
  \E t \in Requests :
    \/ Arrive(t)
    \/ \E u \in Upstreams : Send(t, u)
    \/ \E ok \in BOOLEAN : Hear(t, ok)
    \/ Deliver(t) \/ TryAgain(t) \/ Fail(t)
    \/ \E why \in {"deadline", "gone"} : Abandon(t, why)

Spec == Init /\ [][Next]_absVars

=============================================================================
