----------------------------- MODULE Forwarding -----------------------------
(***************************************************************************)
(* The forwarding core: client requests that are routed, admitted, sent,   *)
(* retried and answered, over a pool of upstreams whose circuits, permits, *)
(* scores and leader they share.                                           *)
(*                                                                         *)
(* One call of select_for_method is one step.  It reads the upstreams one  *)
(* after another; that a reading is stale when try_admit uses it is kept,  *)
(* by the steps in between.                                                *)
(*                                                                         *)
(* There is no clock here (CircuitBreaker has it): a cooldown may elapse,  *)
(* and a deadline pass, at any moment, in any order.  Every cooldown is    *)
(* one tick long, so Open(1) is "cooling down" and Open(0) "elapsed".      *)
(* Requests are for one method: a leader is kept per method, and methods   *)
(* meet only at circuits and permits, which any mix of requests shares.    *)
(***************************************************************************)
EXTENDS Circuit, Routing, FiniteSets

CONSTANTS
  Upstreams,       \* the configured providers
  Requests,        \* concurrent client requests (a batch is several)
  MaxConcurrent,   \* max_concurrent_per_upstream
  MaxAttempts,     \* retries.max_attempts
  RetryDifferent,  \* retries.retry_on_different_upstream
  Scores,          \* scores an upstream may have
  Margin,          \* routing.hysteresis_margin, in percent
  None             \* no upstream

ASSUME ForwardingAssumption ==
  /\ IsFiniteSet(Upstreams) /\ None \notin Upstreams
  /\ IsFiniteSet(Requests)
  /\ MaxConcurrent \in Nat \ {0}
  /\ MaxAttempts \in Nat \ {0}
  /\ RetryDifferent \in BOOLEAN
  /\ Scores \subseteq Nat
  /\ Margin \in 0..99

VARIABLES
  circuit,   \* of each upstream
  permits,   \* free permits of each upstream's semaphore
  score,     \* what the router computes for each upstream
  leader,    \* current_leader of the method
  pc,        \* where each request is
  target,    \* the upstream of its current attempt
  probe,     \* is_probe of that attempt
  excluded,  \* upstreams it shall not be retried on
  skips,     \* admission_skips of the select_and_admit call it is in
  attempts,  \* attempts made
  reply,     \* last_error while under way, the client's answer at the end
  avail      \* history: upstreams open to it ever since it came in

poolVars == <<circuit, permits, score, leader>>
vars == <<circuit, permits, score, leader,
          pc, target, probe, excluded, skips, attempts, reply, avail>>

(***************************************************************************)
(* done:       answered (or never sent)                                    *)
(* routing:    about to call select_for_method, or to give up              *)
(* admitting:  an upstream selected, try_admit about to be called          *)
(* acquiring, restoring, inflight, settled: as in CircuitBreaker           *)
(***************************************************************************)
PCs == {"done", "routing", "admitting", "acquiring", "restoring", "inflight", "settled"}
Failures == {"exhausted", "upstream_error"}
Replies == {"none", "ok", "deadline", "gone"} \cup Failures

Dropped == {u \in Upstreams : IsDropped(circuit[u])}

(* An upstream that would take any request right now. *)
Admissible(c, p, s) == {u \in Upstreams : c[u] = Closed /\ p[u] > 0 /\ s[u] > 0}
Witness ==
  avail' = [t \in Requests |-> avail[t] \cap Admissible(circuit', permits', score')]

Init ==
  /\ circuit = [u \in Upstreams |-> Closed]
  /\ permits = [u \in Upstreams |-> MaxConcurrent]
  /\ score \in [Upstreams -> Scores]
  /\ leader = None
  /\ pc = [t \in Requests |-> "done"]
  /\ target = [t \in Requests |-> None]
  /\ probe = [t \in Requests |-> FALSE]
  /\ excluded = [t \in Requests |-> {}]
  /\ skips = [t \in Requests |-> {}]
  /\ attempts = [t \in Requests |-> 0]
  /\ reply = [t \in Requests |-> "none"]
  /\ avail = [t \in Requests |-> {}]

GoTo(t, where) == pc' = [pc EXCEPT ![t] = where]

-----------------------------------------------------------------------------
(* A client sends a request: forward_core starts. *)
Receive(t) ==
  /\ pc[t] = "done"
  /\ GoTo(t, "routing")
  /\ excluded' = [excluded EXCEPT ![t] = {}]
  /\ attempts' = [attempts EXCEPT ![t] = 0]
  /\ reply' = [reply EXCEPT ![t] = "none"]
  /\ avail' = [avail EXCEPT ![t] = Admissible(circuit, permits, score)]
  /\ UNCHANGED <<poolVars, target, probe, skips>>

Choice(t) == Candidates(score, Dropped, excluded[t] \cup skips[t])

(* select_for_method, from select_and_admit's loop. *)
Select(t) ==
  /\ pc[t] = "routing"
  /\ attempts[t] < MaxAttempts
  /\ \E u \in Preferred(score, Choice(t), leader, Margin) :
       /\ target' = [target EXCEPT ![t] = u]
       /\ leader' = u
  /\ GoTo(t, "admitting")
  /\ UNCHANGED <<circuit, permits, score, probe, excluded, skips, attempts, reply>>
  /\ Witness

Mut_GiveUpForgetsError(t) ==
  /\ pc[t] = "routing"
  /\ attempts[t] = MaxAttempts \/ Choice(t) = {}
  /\ reply' = [reply EXCEPT ![t] = "exhausted"]
  /\ skips' = [skips EXCEPT ![t] = {}]
  /\ GoTo(t, "done")
  /\ UNCHANGED <<poolVars, target, probe, excluded, attempts>>
  /\ Witness

(* No candidate, or no attempt, is left. *)
GiveUp(t) ==
  /\ pc[t] = "routing"
  /\ attempts[t] = MaxAttempts \/ Choice(t) = {}
  /\ reply' = [reply EXCEPT ![t] = IF @ = "none" THEN "exhausted" ELSE @]
  /\ skips' = [skips EXCEPT ![t] = {}]
  /\ GoTo(t, "done")
  /\ UNCHANGED <<poolVars, target, probe, excluded, attempts>>
  /\ Witness

Mut_SkipForgets(t) ==
  /\ target' = [target EXCEPT ![t] = None]
  /\ probe' = [probe EXCEPT ![t] = FALSE]
  /\ GoTo(t, "routing")
  /\ UNCHANGED skips

(* select_and_admit goes on to the next best after a refusal. *)
Skip(t) ==
  /\ skips' = [skips EXCEPT ![t] = @ \cup {target[t]}]
  /\ target' = [target EXCEPT ![t] = None]
  /\ probe' = [probe EXCEPT ![t] = FALSE]
  /\ GoTo(t, "routing")

Mut_RefusedGivesUp(t) ==
  /\ pc[t] = "admitting"
  /\ Refuses(circuit[target[t]])
  /\ reply' = [reply EXCEPT ![t] = "exhausted"]
  /\ target' = [target EXCEPT ![t] = None]
  /\ GoTo(t, "done")
  /\ UNCHANGED <<poolVars, probe, excluded, skips, attempts>>
  /\ Witness

(* try_admit, first critical section: refused, *)
Refused(t) ==
  /\ pc[t] = "admitting"
  /\ Refuses(circuit[target[t]])
  /\ Skip(t)
  /\ UNCHANGED <<poolVars, excluded, attempts, reply>>
  /\ Witness

(* or let through, perhaps as the probe. *)
EnterCircuit(t) ==
  /\ pc[t] = "admitting"
  /\ ~Refuses(circuit[target[t]])
  /\ circuit' = [circuit EXCEPT ![target[t]] = Entered(@)]
  /\ probe' = [probe EXCEPT ![t] = BecomesProbe(circuit[target[t]])]
  /\ GoTo(t, "acquiring")
  /\ UNCHANGED <<permits, score, leader, target, excluded, skips, attempts, reply>>
  /\ Witness

Mut_AcquirePermitUnchecked(t) ==
  /\ pc[t] = "acquiring"
  /\ permits' = [permits EXCEPT ![target[t]] = @ - 1]
  /\ attempts' = [attempts EXCEPT ![t] = @ + 1]
  /\ skips' = [skips EXCEPT ![t] = {}]
  /\ GoTo(t, "inflight")
  /\ UNCHANGED <<circuit, score, leader, target, probe, excluded, reply>>
  /\ Witness

(* A permit is free: the attempt is made. *)
AcquirePermit(t) ==
  /\ pc[t] = "acquiring"
  /\ permits[target[t]] > 0
  /\ permits' = [permits EXCEPT ![target[t]] = @ - 1]
  /\ attempts' = [attempts EXCEPT ![t] = @ + 1]
  /\ skips' = [skips EXCEPT ![t] = {}]
  /\ GoTo(t, "inflight")
  /\ UNCHANGED <<circuit, score, leader, target, probe, excluded, reply>>
  /\ Witness

(* None is free. *)
AtCapacity(t) ==
  /\ pc[t] = "acquiring"
  /\ permits[target[t]] = 0
  /\ ~probe[t]
  /\ Skip(t)
  /\ UNCHANGED <<poolVars, excluded, attempts, reply>>
  /\ Witness

ProbeAtCapacity(t) ==
  /\ pc[t] = "acquiring"
  /\ permits[target[t]] = 0
  /\ probe[t]
  /\ GoTo(t, "restoring")
  /\ UNCHANGED <<poolVars, target, probe, excluded, skips, attempts, reply>>
  /\ Witness

(* try_admit, second critical section. *)
RestoreProbeSlot(t) ==
  /\ pc[t] = "restoring"
  /\ circuit' = [circuit EXCEPT ![target[t]] = HalfOpen(FALSE)]
  /\ Skip(t)
  /\ UNCHANGED <<permits, score, leader, excluded, attempts, reply>>
  /\ Witness

(* fire_once returns: any HTTP failure, a timeout of the attempt, or an    *)
(* error body is a failure, which becomes last_error; success or failure   *)
(* is recorded, which moves the upstream's score.                          *)
FireOnce(t, ok, s) ==
  /\ score' = [score EXCEPT ![target[t]] = s]
  /\ reply' = [reply EXCEPT ![t] = IF ok THEN "ok" ELSE "upstream_error"]

(* Then a probe is settled. *)
Answer(t, ok, s) ==
  /\ pc[t] = "inflight"
  /\ FireOnce(t, ok, s)
  /\ circuit' = [circuit EXCEPT ![target[t]] =
                   IF probe[t] THEN Settled(@, ok, 1) ELSE @]
  /\ GoTo(t, "settled")
  /\ UNCHANGED <<permits, leader, target, probe, excluded, skips, attempts>>
  /\ Witness

(* The attempt ends, and its permit is dropped. *)
EndAttempt(t) ==
  /\ permits' = [permits EXCEPT ![target[t]] = @ + 1]
  /\ target' = [target EXCEPT ![t] = None]
  /\ probe' = [probe EXCEPT ![t] = FALSE]
  /\ UNCHANGED <<circuit, score, leader, skips, attempts>>
  /\ Witness

Succeed(t) ==
  /\ pc[t] = "settled"
  /\ reply[t] = "ok"
  /\ GoTo(t, "done")
  /\ EndAttempt(t)
  /\ UNCHANGED <<excluded, reply>>

Retry(t) ==
  /\ pc[t] = "settled"
  /\ reply[t] # "ok"
  /\ excluded' = [excluded EXCEPT ![t] = IF RetryDifferent THEN @ \cup {target[t]} ELSE @]
  /\ GoTo(t, "routing")
  /\ EndAttempt(t)
  /\ UNCHANGED reply

Mut_DropFutureLeaks(t, why) ==
  /\ pc[t] = "inflight"
  /\ reply' = [reply EXCEPT ![t] = why]
  /\ GoTo(t, "done")
  /\ target' = [target EXCEPT ![t] = None]
  /\ probe' = [probe EXCEPT ![t] = FALSE]
  /\ UNCHANGED <<poolVars, skips, attempts, excluded>>
  /\ Witness

(* The future is dropped while it awaits an upstream, *)
DropFuture(t, why) ==
  /\ pc[t] = "inflight"
  /\ reply' = [reply EXCEPT ![t] = why]
  /\ GoTo(t, "done")
  /\ EndAttempt(t)
  /\ UNCHANGED excluded

(* by the timeout that forward_core runs under, *)
Expire(t) == DropFuture(t, "deadline")

(* or by the server, the client having gone. *)
Disconnect(t) == DropFuture(t, "gone")

-----------------------------------------------------------------------------
requestVars == <<pc, target, probe, excluded, skips, attempts, reply>>

(* The health loop trips the circuit.  Its check that the upstream is not  *)
(* dropped comes earlier, so the trip may find any state.                  *)
HealthTrip(u) ==
  /\ circuit' = [circuit EXCEPT ![u] = Open(1)]
  /\ UNCHANGED <<permits, score, leader, requestVars>>
  /\ Witness

(* Health polls move slots and the tip, and so the score. *)
Rescore(u, s) ==
  /\ score' = [score EXCEPT ![u] = s]
  /\ UNCHANGED <<circuit, permits, leader, requestVars>>
  /\ Witness

CooldownElapses(u) ==
  /\ IsDropped(circuit[u])
  /\ circuit' = [circuit EXCEPT ![u] = Cooled(@)]
  /\ UNCHANGED <<permits, score, leader, requestVars>>
  /\ Witness

-----------------------------------------------------------------------------
(* What a request does without waiting for anyone. *)
RunsOn(t) ==
  \/ Select(t)
  \/ GiveUp(t)
  \/ Refused(t)
  \/ EnterCircuit(t)
  \/ AcquirePermit(t)
  \/ AtCapacity(t)
  \/ ProbeAtCapacity(t)
  \/ RestoreProbeSlot(t)
  \/ Succeed(t)
  \/ Retry(t)
  \/ Expire(t)

RequestStep(t) ==
  \/ Receive(t)
  \/ RunsOn(t)
  \/ \E ok \in BOOLEAN, s \in Scores : Answer(t, ok, s)
  \/ Disconnect(t)

UpstreamStep(u) ==
  \/ HealthTrip(u)
  \/ CooldownElapses(u)
  \/ \E s \in Scores : Rescore(u, s)

Next ==
  \/ \E t \in Requests : RequestStep(t)
  \/ \E u \in Upstreams : UpstreamStep(u)

Spec == Init /\ [][Next]_vars

(***************************************************************************)
(* A request's task is scheduled again and again, and its deadline timer   *)
(* fires if no answer comes.  Upstreams, clients and the health loop owe   *)
(* nothing.                                                                *)
(***************************************************************************)
FairSpec == Spec /\ \A t \in Requests : WF_vars(RunsOn(t))

-----------------------------------------------------------------------------
TypeOK ==
  /\ circuit \in [Upstreams -> CircuitStates(1)]
  /\ permits \in [Upstreams -> 0..MaxConcurrent]
  /\ score \in [Upstreams -> Scores]
  /\ leader \in Upstreams \cup {None}
  /\ pc \in [Requests -> PCs]
  /\ target \in [Requests -> Upstreams \cup {None}]
  /\ probe \in [Requests -> BOOLEAN]
  /\ excluded \in [Requests -> SUBSET Upstreams]
  /\ skips \in [Requests -> SUBSET Upstreams]
  /\ attempts \in [Requests -> 0..MaxAttempts]
  /\ reply \in [Requests -> Replies]
  /\ avail \in [Requests -> SUBSET Upstreams]

(* The requests that hold a permit of u. *)
HoldersOf(u) == {t \in Requests : pc[t] \in {"inflight", "settled"} /\ target[t] = u}

(* Every permit is free or held by a request that is on the upstream: no   *)
(* retry, failed attempt, deadline or disconnect leaks one or returns it   *)
(* to another upstream's semaphore.                                        *)
PermitsBalanced ==
  \A u \in Upstreams : permits[u] + Cardinality(HoldersOf(u)) = MaxConcurrent

(* With retry_on_different_upstream, a request is never sent to the same   *)
(* upstream twice, whatever is tripped, rescored or readmitted meanwhile.  *)
AttemptsAreDistinct ==
  RetryDifferent =>
    \A t \in Requests : pc[t] \in {"inflight", "settled"} =>
      attempts[t] = Cardinality(excluded[t] \cup {target[t]})

(* A request fails with attempts to spare only if each upstream not tried  *)
(* was, at some moment of the request, closed to it: routing never talks   *)
(* itself out of an upstream that was there throughout.                    *)
NoFalseExhaustion ==
  \A t \in Requests : pc[t] = "done" /\ reply[t] \in Failures =>
    attempts[t] = MaxAttempts \/ avail[t] \subseteq excluded[t]

(* Every client request is answered. *)
Answered == \A t \in Requests : pc[t] # "done" ~> pc[t] = "done"

(* Where a request is between an attempt and the next. *)
Place(where) ==
  CASE where = "inflight" -> 1 [] where = "settled" -> 2 [] where = "routing" -> 3
    [] where = "admitting" -> 4 [] where = "acquiring" -> 5 [] where = "restoring" -> 6
    [] OTHER -> 0

(* The request gets on: it makes one more attempt; or for the same attempt *)
(* rules out one more upstream; or is further on its way to one.           *)
GetsOn(t) ==
  \/ attempts'[t] > attempts[t]
  \/ /\ attempts'[t] = attempts[t]
     /\ \/ skips[t] \subseteq skips'[t] /\ skips'[t] # skips[t]
        \/ skips'[t] = skips[t] /\ Place(pc'[t]) > Place(pc[t])

(* Nothing a pending request does is in vain, so that it takes no more     *)
(* than (MaxAttempts + 1) * (upstreams + 1) * 6 steps: not the loop of     *)
(* select_and_admit, nor the one of retries around it, can go on and on,   *)
(* whatever the others do to the circuits, permits, scores and the leader. *)
NoStepInVain ==
  [][\A t \in Requests :
       pc[t] # "done" /\ pc'[t] \notin {"done", pc[t]} => GetsOn(t)]_vars

(* On every upstream, a taken probe slot has an owner among the requests   *)
(* targeting it, until a deadline or a disconnect drops that request.      *)
ProbersOf(u) ==
  {t \in Requests : /\ target[t] = u /\ probe[t]
                    /\ pc[t] \in {"acquiring", "restoring", "inflight"}}
SlotOwned(u) == circuit[u] = HalfOpen(TRUE) => ProbersOf(u) # {}
OnlyADropOrphansASlot ==
  [][\A u \in Upstreams :
       SlotOwned(u) /\ ~SlotOwned(u)' =>
         \E t \in ProbersOf(u) : /\ pc[t] = "inflight"
                                 /\ reply'[t] \in {"deadline", "gone"}]_vars

(* The forwarding core as its callers rely on it (AbstractForwarding). *)
Stage(where) ==
  CASE where = "done" -> "done" [] where = "inflight" -> "asking"
    [] where = "settled" -> "answered" [] OTHER -> "choosing"
Stages == [t \in Requests |-> Stage(pc[t])]
Serving == [t \in Requests |-> IF pc[t] \in {"inflight", "settled"} THEN target[t] ELSE None]

Abs == INSTANCE AbstractForwarding WITH
  Cap       <- MaxConcurrent,
  Tries     <- MaxAttempts,
  Elsewhere <- RetryDifferent,
  stage     <- Stages,
  on        <- Serving,
  failedAt  <- excluded,
  tries     <- attempts,
  answer    <- reply
KeepsPromise == Abs!Spec

=============================================================================
