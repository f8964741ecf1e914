-------------------------- MODULE AbstractBreaker --------------------------
(***************************************************************************)
(* What the circuit breaker of an upstream promises to the rest of the     *)
(* proxy, with no task, lock, permit or deadline in sight: traffic flows;  *)
(* or the upstream rests for a full period; or one client probes it, and   *)
(* that client's verdict decides.  The health loop may order a rest at any *)
(* time, and a client may abandon its probe.                               *)
(***************************************************************************)
EXTENDS Naturals

CONSTANTS
  Clients,   \* who may probe
  Rest       \* length of a rest

VARIABLES
  mode,      \* "Closed": traffic flows; "Open": at rest; "HalfOpen": probed
  rest,      \* what is left of the current rest
  probers    \* the clients whose verdict is awaited: none or one

absVars == <<mode, rest, probers>>

Init == mode = "Closed" /\ rest = 0 /\ probers = {}

(* The health loop orders a rest; one that is under way starts again. *)
OrderRest ==
  /\ mode' = "Open"
  /\ rest' = Rest
  /\ probers' = {}

(* The rest passes, and only the passing of time shortens it. *)
Pass ==
  /\ mode = "Open"
  /\ rest > 0
  /\ rest' = rest - 1
  /\ UNCHANGED <<mode, probers>>

(* Once it is over, a client probes. *)
StartProbe(c) ==
  /\ mode = "Open"
  /\ rest = 0
  /\ mode' = "HalfOpen"
  /\ probers' = {c}
  /\ UNCHANGED rest

(* The client that probes, and no other, decides: serve, or rest again. *)
Verdict(c) ==
  /\ mode = "HalfOpen"
  /\ probers = {c}
  /\ \/ mode' = "Closed" /\ rest' = 0
     \/ mode' = "Open" /\ rest' = Rest
  /\ probers' = {}

(* It may also never decide: then only a new rest leads on. *)
Abandon(c) ==
  /\ mode = "HalfOpen"
  /\ probers = {c}
  /\ probers' = {}
  /\ UNCHANGED <<mode, rest>>

Next ==
  \/ OrderRest
  \/ Pass
  \/ \E c \in Clients : StartProbe(c) \/ Verdict(c) \/ Abandon(c)

Spec == Init /\ [][Next]_absVars

=============================================================================
