--------------------------- MODULE CircuitBreaker ---------------------------
(***************************************************************************)
(* One upstream: its circuit breaker, its concurrency semaphore, the       *)
(* request tasks that go through try_admit / fire_once / settle_probe, and *)
(* its health monitor.                                                     *)
(*                                                                         *)
(* Tasks are tokio tasks on several threads.  Each lock acquisition is one *)
(* step; between two awaits a task is in a synchronous section, and other  *)
(* tasks interleave with it, but the clock does not tick there: a tick is  *)
(* taken to be longer than the few instructions between two awaits.        *)
(***************************************************************************)
EXTENDS Circuit, FiniteSets

CONSTANTS
  Tasks,          \* concurrent client requests
  MaxConcurrent,  \* max_concurrent_per_upstream
  Cooldown,       \* circuit_breaker_cooldown_secs, in ticks
  Deadline        \* retries.deadline_ms, in ticks

(* Config::validate demands a positive cap and deadline; it leaves the     *)
(* cooldown unconstrained.                                                 *)
ASSUME BreakerAssumption ==
  /\ IsFiniteSet(Tasks)
  /\ MaxConcurrent \in Nat \ {0}
  /\ Cooldown \in Nat
  /\ Deadline \in Nat \ {0}

VARIABLES
  circuit,   \* RwLock<CircuitState>
  permits,   \* free permits of the semaphore
  pc,        \* where each request task is
  probe,     \* is_probe of the attempt the task is making
  left,      \* ticks to the deadline of the request the task serves
  monitor    \* where the health monitor is

vars == <<circuit, permits, pc, probe, left, monitor>>

(***************************************************************************)
(* idle:       not on this upstream (no request, or between attempts)      *)
(* acquiring:  past try_admit's first critical section                     *)
(* restoring:  a probe that found no permit, about to give the slot back   *)
(* inflight:   fire_once awaits the upstream's answer; the permit is held  *)
(* settled:    answer handled, the permit not yet dropped                  *)
(***************************************************************************)
PCs == {"idle", "acquiring", "restoring", "inflight", "settled"}

(* The tasks that hold one of the semaphore's permits. *)
Holders == {t \in Tasks : pc[t] \in {"inflight", "settled"}}

(* Tasks that were told they are the probe and have not reported back.  *)
Outstanding(t) == probe[t] /\ pc[t] \in {"acquiring", "restoring", "inflight"}
Outstandings == {t \in Tasks : Outstanding(t)}

Init ==
  /\ circuit = Closed
  /\ permits = MaxConcurrent
  /\ pc = [t \in Tasks |-> "idle"]
  /\ probe = [t \in Tasks |-> FALSE]
  /\ left = [t \in Tasks |-> 0]
  /\ monitor = "sleeping"

(* A task leaves this upstream: its request ends or goes on elsewhere. *)
Leave(t) ==
  /\ pc' = [pc EXCEPT ![t] = "idle"]
  /\ probe' = [probe EXCEPT ![t] = FALSE]
  /\ left' = [left EXCEPT ![t] = 0]

-----------------------------------------------------------------------------
(* try_admit, first critical section, for a request with d ticks to go:    *)
(* earlier attempts have used up any part of its deadline.  A refused call *)
(* changes nothing.                                                        *)
EnterCircuit(t, d) ==
  /\ pc[t] = "idle"
  /\ ~Refuses(circuit)
  /\ circuit' = Entered(circuit)
  /\ probe' = [probe EXCEPT ![t] = BecomesProbe(circuit)]
  /\ left' = [left EXCEPT ![t] = d]
  /\ pc' = [pc EXCEPT ![t] = "acquiring"]
  /\ UNCHANGED <<permits, monitor>>

(* try_acquire_owned succeeds and the request goes out. *)
AcquirePermit(t) ==
  /\ pc[t] = "acquiring"
  /\ permits > 0
  /\ permits' = permits - 1
  /\ pc' = [pc EXCEPT ![t] = "inflight"]
  /\ UNCHANGED <<circuit, probe, left, monitor>>

(* try_acquire_owned fails for an ordinary request: try_admit is None. *)
AtCapacity(t) ==
  /\ pc[t] = "acquiring"
  /\ permits = 0
  /\ ~probe[t]
  /\ Leave(t)
  /\ UNCHANGED <<circuit, permits, monitor>>

(* It fails for a probe, which must first give its slot back. *)
ProbeAtCapacity(t) ==
  /\ pc[t] = "acquiring"
  /\ permits = 0
  /\ probe[t]
  /\ pc' = [pc EXCEPT ![t] = "restoring"]
  /\ UNCHANGED <<circuit, permits, probe, left, monitor>>

(* try_admit, second critical section: whatever the circuit has become     *)
(* since the first one is overwritten.                                     *)
RestoreProbeSlot(t) ==
  /\ pc[t] = "restoring"
  /\ circuit' = HalfOpen(FALSE)
  /\ Leave(t)
  /\ UNCHANGED <<permits, monitor>>

(* The upstream answers (ok) or the attempt fails; a probe settles. *)
Settle(t, ok) ==
  /\ pc[t] = "inflight"
  /\ circuit' = IF probe[t] THEN Settled(circuit, ok, Cooldown) ELSE circuit
  /\ pc' = [pc EXCEPT ![t] = "settled"]
  /\ UNCHANGED <<permits, probe, left, monitor>>

(* The end of the attempt drops the permit. *)
ReleasePermit(t) ==
  /\ pc[t] = "settled"
  /\ permits' = permits + 1
  /\ Leave(t)
  /\ UNCHANGED <<circuit, monitor>>

Mut_DropFutureTwice(t) ==
  /\ pc[t] = "inflight"
  /\ permits' = permits + 1
  /\ pc' = [pc EXCEPT ![t] = "settled"]
  /\ UNCHANGED <<circuit, probe, left, monitor>>

(* The request's future is dropped while it awaits: the permit's Drop runs *)
(* and nothing else does, settle_probe included.                           *)
DropFuture(t) ==
  /\ pc[t] = "inflight"
  /\ permits' = permits + 1
  /\ Leave(t)
  /\ UNCHANGED <<circuit, monitor>>

Mut_ExpireUnlessProbe(t) == left[t] = 0 /\ ~probe[t] /\ DropFuture(t)

(* tokio::time::timeout drops it at the deadline. *)
Expire(t) == left[t] = 0 /\ DropFuture(t)

(* The HTTP server drops it whenever the client goes away. *)
Disconnect(t) == DropFuture(t)

-----------------------------------------------------------------------------
Mut_HealthCheckAlways ==
  /\ monitor = "sleeping"
  /\ monitor' = "tripping"
  /\ UNCHANGED <<circuit, permits, pc, probe, left>>

(* The health loop finds the rolling error rate above the threshold (which *)
(* may happen at any time here) and the upstream not dropped.              *)
HealthCheck ==
  /\ monitor = "sleeping"
  /\ ~IsDropped(circuit)
  /\ monitor' = "tripping"
  /\ UNCHANGED <<circuit, permits, pc, probe, left>>

(* trip takes the lock anew and does not look at the state it replaces. *)
HealthTrip ==
  /\ monitor = "tripping"
  /\ circuit' = Open(Cooldown)
  /\ monitor' = "sleeping"
  /\ UNCHANGED <<permits, pc, probe, left>>

-----------------------------------------------------------------------------
(* Nobody is in a synchronous section, and no request is past its deadline.*)
AllAwaiting ==
  /\ monitor = "sleeping"
  /\ \A t \in Tasks : pc[t] = "idle" \/ (pc[t] = "inflight" /\ left[t] > 0)

Tick ==
  /\ AllAwaiting
  /\ circuit' = Cooled(circuit)
  /\ left' = [t \in Tasks |-> IF pc[t] = "inflight" THEN left[t] - 1 ELSE left[t]]
  /\ UNCHANGED <<permits, pc, probe, monitor>>

-----------------------------------------------------------------------------
TaskStep(t) ==
  \/ \E d \in 0..Deadline : EnterCircuit(t, d)
  \/ AcquirePermit(t)
  \/ AtCapacity(t)
  \/ ProbeAtCapacity(t)
  \/ RestoreProbeSlot(t)
  \/ \E ok \in BOOLEAN : Settle(t, ok)
  \/ ReleasePermit(t)
  \/ Expire(t)
  \/ Disconnect(t)

Next ==
  \/ \E t \in Tasks : TaskStep(t)
  \/ HealthCheck
  \/ HealthTrip
  \/ Tick

Spec == Init /\ [][Next]_vars

(***************************************************************************)
(* Fairness.  A task or monitor that is in a synchronous section runs on,  *)
(* and a timer that has expired fires.  Time goes on: SF, because a busy   *)
(* proxy keeps disabling Tick for an instant at a time.  No upstream need  *)
(* answer, no client need send or leave, and no health poll need be hot.   *)
(***************************************************************************)
RunsOn(t) ==
  \/ AcquirePermit(t)
  \/ AtCapacity(t)
  \/ ProbeAtCapacity(t)
  \/ RestoreProbeSlot(t)
  \/ ReleasePermit(t)
  \/ Expire(t)

FairSpec ==
  /\ Spec
  /\ \A t \in Tasks : WF_vars(RunsOn(t))
  /\ WF_vars(HealthTrip)
  /\ SF_vars(Tick)

-----------------------------------------------------------------------------
(* Types, and the only shapes a circuit can take. *)
TypeOK ==
  /\ circuit \in CircuitStates(Cooldown)
  /\ permits \in 0..MaxConcurrent
  /\ pc \in [Tasks -> PCs]
  /\ probe \in [Tasks -> BOOLEAN]
  /\ left \in [Tasks -> 0..Deadline]
  /\ monitor \in {"sleeping", "tripping"}

(* No path of a request - answered, refused at capacity, dropped at its    *)
(* deadline or with its client - leaks a permit or returns one twice.      *)
PermitsConserved == permits + Cardinality(Holders) = MaxConcurrent

(* "Exactly one probe": at most one request is ever the probe of this      *)
(* upstream, across trips, expiries and capacity refusals.                 *)
SingleProbe == \A s, t \in Tasks : Outstanding(s) /\ Outstanding(t) => s = t

(* While the circuit is half-open, no request but the probe is anywhere    *)
(* on the upstream: a request admitted before the trip has ended by then.  *)
ProbeIsAlone ==
  circuit.kind = "HalfOpen" =>
    \A t \in Tasks : pc[t] = "idle" \/ Outstanding(t)

(***************************************************************************)
(* Why the breaker works when the cooldown is the longer one (Timing).     *)
(***************************************************************************)

(* Each request on the upstream of an open circuit, admitted before it     *)
(* opened, reaches its deadline before the cooldown elapses.               *)
RestOutlastsRequests ==
  circuit.kind = "Open" =>
    \A t \in Tasks : pc[t] # "idle" => left[t] + Cooldown <= Deadline + circuit.until

(* Nobody is left to probe a circuit that is closed. *)
ClosedIsNotProbed == circuit.kind = "Closed" => \A t \in Tasks : ~Outstanding(t)

(* A half-open circuit always has its probe slot taken: the slot is never  *)
(* given back, because a probe always finds a permit.                      *)
HalfOpenIsTaken == circuit.kind = "HalfOpen" => circuit = HalfOpen(TRUE)
ProbeFindsPermit == \A t \in Tasks : pc[t] # "restoring"

(* As long as a probe has not reported back, even one that a trip has      *)
(* overtaken, it is the only request on the upstream.                      *)
ProbeHasUpstream ==
  \A t \in Tasks : Outstanding(t) => \A s \in Tasks : s # t => pc[s] = "idle"

(* The parts together are inductive, given types and permits. *)
Timing ==
  /\ RestOutlastsRequests
  /\ ClosedIsNotProbed
  /\ HalfOpenIsTaken
  /\ ProbeIsAlone
  /\ ProbeFindsPermit
  /\ ProbeHasUpstream

(* An open circuit rejects all traffic until its cooldown has elapsed:     *)
(* nothing but the clock shortens it, and a new trip restarts it in full.  *)
OpenUntilElapsed ==
  [][IsDropped(circuit) => circuit' \in {circuit, Cooled(circuit), Open(Cooldown)}]_vars

(* Traffic is readmitted by the verdict of the one outstanding probe, and  *)
(* by nothing else.                                                        *)
ReadmittedByProbe ==
  [][circuit.kind # "Closed" /\ circuit' = Closed =>
       \E t \in Tasks :
         /\ Outstandings = {t}
         /\ pc[t] = "inflight"
         /\ pc'[t] = "settled"]_vars

(* A taken probe slot has an owner until that owner's future is dropped:   *)
(* the drop is the only way to orphan the slot.                            *)
SlotOwned == circuit = HalfOpen(TRUE) => Outstandings # {}
OnlyADropOrphansTheSlot ==
  [][SlotOwned /\ ~SlotOwned' =>
       \E t \in Tasks : pc[t] = "inflight" /\ pc'[t] = "idle"]_vars

(* Whatever the cooldown: a verdict that comes late, or from a probe of an *)
(* earlier half-open phase, never cuts a rest short.  Only time does, and  *)
(* try_admit's second critical section (see README, "lost trip").          *)
RestEndedByTimeOrRestore ==
  [][IsDropped(circuit) =>
       \/ circuit' \in {circuit, Cooled(circuit), Open(Cooldown)}
       \/ \E t \in Tasks : pc[t] = "restoring" /\ pc'[t] = "idle"]_vars

(* The breaker as its callers rely on it (AbstractBreaker). *)
Abs == INSTANCE AbstractBreaker WITH
  Clients <- Tasks,
  Rest    <- Cooldown,
  mode    <- circuit.kind,
  rest    <- circuit.until,
  probers <- IF circuit.kind = "HalfOpen" THEN Outstandings ELSE {}
KeepsPromise == Abs!Spec

(* Every admitted request gives its permit back, whatever the upstream.    *)
PermitReturned == \A t \in Tasks : t \in Holders ~> t \notin Holders

(* No upstream is dropped for good: every cooldown comes to its end,       *)
(* however often the health loop looks at the upstream meanwhile.          *)
DropEnds == IsDropped(circuit) ~> ~IsDropped(circuit)

(* A taken probe slot is settled or given back (it is not: see README). *)
ProbeSlotReleased == circuit = HalfOpen(TRUE) ~> circuit # HalfOpen(TRUE)

=============================================================================
