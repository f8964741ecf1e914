------------------------ MODULE CircuitBreakerProofs ------------------------
(***************************************************************************)
(* What holds of CircuitBreaker for every number of requests, every        *)
(* concurrency cap, every deadline and every cooldown.                     *)
(*                                                                         *)
(* 1. With no condition on the constants: types and permit conservation    *)
(*    (Accounting), which need each other.                                 *)
(* 2. If a request's deadline is shorter than the cooldown (LongCooldown): *)
(*    the timing invariant (Timing), and from it everything a caller       *)
(*    relies on: one probe, alone on the upstream; a rest that lasts; and  *)
(*    the refinement of AbstractBreaker.                                   *)
(***************************************************************************)
EXTENDS CircuitBreaker, FiniteSetTheorems, TLAPS

LongCooldown == Deadline < Cooldown

-----------------------------------------------------------------------------
(* The methods of Upstream keep a circuit in one of its shapes. *)
LEMMA CircuitShapes ==
  ASSUME NEW N \in Nat, NEW c \in CircuitStates(N), NEW ok \in BOOLEAN
  PROVE  /\ Open(N) \in CircuitStates(N)
         /\ HalfOpen(FALSE) \in CircuitStates(N)
         /\ Entered(c) \in CircuitStates(N)
         /\ Settled(c, ok, N) \in CircuitStates(N)
         /\ Cooled(c) \in CircuitStates(N)
<1>1. /\ Open(N) \in CircuitStates(N)
      /\ HalfOpen(FALSE) \in CircuitStates(N)
      /\ HalfOpen(TRUE) \in CircuitStates(N)
      /\ Closed \in CircuitStates(N)
  BY DEF CircuitStates, Open, HalfOpen, Closed
<1>2. Entered(c) \in {c, HalfOpen(TRUE)} /\ Settled(c, ok, N) \in {c, Closed, Open(N)}
  BY DEF Entered, Settled
<1>3. Cooled(c) \in CircuitStates(N)
  BY DEF CircuitStates, Cooled, IsDropped, Open
<1> QED
  BY <1>1, <1>2, <1>3

(* A task that leaves stays well typed. *)
LEMMA LeaveTypes ==
  ASSUME TypeOK, NEW t \in Tasks, Leave(t)
  PROVE  /\ pc' \in [Tasks -> PCs]
         /\ probe' \in [Tasks -> BOOLEAN]
         /\ left' \in [Tasks -> 0..Deadline]
<1>1. pc' \in [Tasks -> PCs]
  BY DEF TypeOK, Leave, PCs
<1>2. probe' \in [Tasks -> BOOLEAN]
  BY DEF TypeOK, Leave
<1>3. left' \in [Tasks -> 0..Deadline]
  BY BreakerAssumption DEF TypeOK, Leave
<1> QED
  BY <1>1, <1>2, <1>3

(* The holders of permits before and after a task takes or drops one. *)
LEMMA HoldersFinite ==
  /\ IsFiniteSet(Holders)
  /\ Cardinality(Holders) \in Nat
BY BreakerAssumption, FS_Subset, FS_CardinalityType DEF Holders

LEMMA TakingAPermit ==
  ASSUME NEW t \in Tasks, t \notin Holders, Holders' = Holders \cup {t}
  PROVE  Cardinality(Holders') = Cardinality(Holders) + 1
BY HoldersFinite, FS_AddElement

LEMMA DroppingAPermit ==
  ASSUME NEW t \in Tasks, t \in Holders, Holders' = Holders \ {t}
  PROVE  /\ Cardinality(Holders) > 0
         /\ Cardinality(Holders') = Cardinality(Holders) - 1
<1>1. Cardinality(Holders \ {t}) = Cardinality(Holders) - 1
  BY HoldersFinite, FS_RemoveElement
<1>2. Cardinality(Holders \ {t}) \in Nat
  BY HoldersFinite, FS_RemoveElement, FS_CardinalityType
<1> QED
  BY <1>1, <1>2, HoldersFinite

-----------------------------------------------------------------------------
(* 1. Accounting *)
Accounting == TypeOK /\ PermitsConserved

LEMMA AccountingInit == Init => Accounting
<1> SUFFICES ASSUME Init PROVE Accounting
  OBVIOUS
<1>1. Holders = {}
  BY DEF Init, Holders
<1>2. Cardinality(Holders) = 0
  BY <1>1, FS_EmptySet
<1>3. TypeOK
  BY BreakerAssumption DEF Init, TypeOK, CircuitStates, Closed, PCs
<1> QED
  BY <1>2, <1>3, BreakerAssumption DEF Init, Accounting, PermitsConserved

LEMMA AccountingStep == Accounting /\ [Next]_vars => Accounting'
<1> SUFFICES ASSUME Accounting, [Next]_vars PROVE Accounting'
  OBVIOUS
<1> USE DEF Accounting
<1>a. /\ MaxConcurrent \in Nat /\ Cooldown \in Nat /\ Deadline \in Nat
      /\ circuit \in CircuitStates(Cooldown)
      /\ permits \in Nat /\ permits <= MaxConcurrent
      /\ pc \in [Tasks -> PCs] /\ probe \in [Tasks -> BOOLEAN]
      /\ left \in [Tasks -> 0..Deadline]
      /\ monitor \in {"sleeping", "tripping"}
  BY BreakerAssumption DEF TypeOK
<1>b. Cardinality(Holders) \in Nat /\ permits = MaxConcurrent - Cardinality(Holders)
  BY <1>a, HoldersFinite DEF PermitsConserved
<1>1. ASSUME NEW t \in Tasks, NEW d \in 0..Deadline, EnterCircuit(t, d)
      PROVE  Accounting'
  <2>1. TypeOK'
    BY <1>a, <1>1, CircuitShapes DEF EnterCircuit, TypeOK, PCs, BecomesProbe
  <2>2. Holders' = Holders
    BY <1>a, <1>1 DEF EnterCircuit, Holders
  <2> QED BY <2>1, <2>2, <1>1 DEF EnterCircuit, PermitsConserved
<1>2. ASSUME NEW t \in Tasks, AcquirePermit(t)
      PROVE  Accounting'
  <2>1. TypeOK'
    BY <1>a, <1>2 DEF AcquirePermit, TypeOK, PCs
  <2>2. t \notin Holders /\ Holders' = Holders \cup {t}
    BY <1>a, <1>2 DEF AcquirePermit, Holders
  <2>3. Cardinality(Holders') = Cardinality(Holders) + 1
    BY <2>2, TakingAPermit
  <2> QED BY <2>1, <2>3, <1>a, <1>b, <1>2 DEF AcquirePermit, PermitsConserved
<1>3. ASSUME NEW t \in Tasks, AtCapacity(t) \/ RestoreProbeSlot(t)
      PROVE  Accounting'
  <2>1. TypeOK'
    BY <1>a, <1>3, CircuitShapes, LeaveTypes DEF AtCapacity, RestoreProbeSlot, TypeOK
  <2>2. Holders' = Holders
    BY <1>a, <1>3 DEF AtCapacity, RestoreProbeSlot, Leave, Holders
  <2> QED BY <2>1, <2>2, <1>3 DEF AtCapacity, RestoreProbeSlot, PermitsConserved
<1>4. ASSUME NEW t \in Tasks, ProbeAtCapacity(t)
      PROVE  Accounting'
  <2>1. TypeOK'
    BY <1>a, <1>4 DEF ProbeAtCapacity, TypeOK, PCs
  <2>2. Holders' = Holders
    BY <1>a, <1>4 DEF ProbeAtCapacity, Holders
  <2> QED BY <2>1, <2>2, <1>4 DEF ProbeAtCapacity, PermitsConserved
<1>5. ASSUME NEW t \in Tasks, NEW ok \in BOOLEAN, Settle(t, ok)
      PROVE  Accounting'
  <2>1. TypeOK'
    BY <1>a, <1>5, CircuitShapes DEF Settle, TypeOK, PCs
  <2>2. Holders' = Holders
    BY <1>a, <1>5 DEF Settle, Holders
  <2> QED BY <2>1, <2>2, <1>5 DEF Settle, PermitsConserved
<1>6. ASSUME NEW t \in Tasks, ReleasePermit(t) \/ DropFuture(t)
      PROVE  Accounting'
  <2>1. t \in Holders /\ Holders' = Holders \ {t}
    BY <1>a, <1>6 DEF ReleasePermit, DropFuture, Leave, Holders
  <2>2. /\ Cardinality(Holders) > 0
        /\ Cardinality(Holders') = Cardinality(Holders) - 1
    BY <2>1, DroppingAPermit
  <2>3. permits' = permits + 1
    BY <1>6 DEF ReleasePermit, DropFuture
  <2>4. PermitsConserved'
    BY <2>2, <2>3, <1>a, <1>b DEF PermitsConserved
  <2>5. permits' \in 0..MaxConcurrent
    BY <2>2, <2>3, <1>a, <1>b
  <2>6. TypeOK'
    BY <2>5, <1>a, <1>6, LeaveTypes DEF ReleasePermit, DropFuture, TypeOK
  <2> QED BY <2>4, <2>6
<1>7. ASSUME HealthCheck \/ HealthTrip PROVE Accounting'
  <2>1. TypeOK'
    BY <1>a, <1>7, CircuitShapes DEF HealthCheck, HealthTrip, TypeOK
  <2>2. Holders' = Holders
    BY <1>7 DEF HealthCheck, HealthTrip, Holders
  <2> QED BY <2>1, <2>2, <1>7 DEF HealthCheck, HealthTrip, PermitsConserved
<1>8. ASSUME Tick PROVE Accounting'
  <2>1. ASSUME NEW t \in Tasks
        PROVE  (IF pc[t] = "inflight" THEN left[t] - 1 ELSE left[t]) \in 0..Deadline
    BY <2>1, <1>a, <1>8 DEF Tick, AllAwaiting
  <2>2. left' \in [Tasks -> 0..Deadline]
    BY <2>1, <1>8 DEF Tick
  <2>3. TypeOK'
    BY <2>2, <1>a, <1>8, CircuitShapes DEF Tick, TypeOK
  <2>4. Holders' = Holders
    BY <1>8 DEF Tick, Holders
  <2> QED BY <2>3, <2>4, <1>8 DEF Tick, PermitsConserved
<1>9. ASSUME UNCHANGED vars PROVE Accounting'
  BY <1>9 DEF vars, TypeOK, PermitsConserved, Holders
<1> QED
  BY <1>1, <1>2, <1>3, <1>4, <1>5, <1>6, <1>7, <1>8, <1>9
     DEF Next, TaskStep, Expire, Disconnect

(* Every state of every execution is well typed. *)
THEOREM TypeCorrect == Spec => []TypeOK
<1>1. Accounting => TypeOK
  BY DEF Accounting
<1> QED
  BY <1>1, AccountingInit, AccountingStep, PTL DEF Spec

(* No permit is lost or duplicated, whatever answers, refuses, fails,      *)
(* expires or disconnects.                                                 *)
THEOREM PermitsNeverLeak == Spec => []PermitsConserved
<1>1. Accounting => PermitsConserved
  BY DEF Accounting
<1> QED
  BY <1>1, AccountingInit, AccountingStep, PTL DEF Spec

-----------------------------------------------------------------------------
(* 2. Timing *)
LEMMA TimingInit == Init => Timing
BY DEF Init, Timing, RestOutlastsRequests, ClosedIsNotProbed, HalfOpenIsTaken,
       ProbeIsAlone, ProbeFindsPermit, ProbeHasUpstream, Outstanding, Closed

(* When the cooldown is over, nobody is left on the upstream. *)
LEMMA RestEndsOnAnIdleUpstream ==
  ASSUME LongCooldown, Accounting, Timing, circuit.kind = "Open", circuit.until = 0,
         NEW t \in Tasks
  PROVE  pc[t] = "idle"
BY BreakerAssumption DEF LongCooldown, Accounting, TypeOK, Timing, RestOutlastsRequests

(* A probe that looks for a permit finds one. *)
LEMMA ProbeIsNeverAtCapacity ==
  ASSUME Accounting, Timing, NEW t \in Tasks, pc[t] = "acquiring", probe[t]
  PROVE  permits > 0
<1>1. Outstanding(t)
  BY DEF Outstanding
<1>2. Holders = {}
  BY <1>1 DEF Holders, Timing, ProbeHasUpstream
<1>3. Cardinality(Holders) = 0
  BY <1>2, FS_EmptySet
<1> QED
  BY <1>3, BreakerAssumption DEF Accounting, TypeOK, PermitsConserved

LEMMA TimingStep ==
  ASSUME LongCooldown, Accounting, Accounting', Timing, [Next]_vars
  PROVE  Timing'
<1> USE DEF Timing
<1>a. /\ MaxConcurrent \in Nat /\ Cooldown \in Nat /\ Deadline \in Nat
      /\ Deadline < Cooldown
      /\ circuit \in CircuitStates(Cooldown)
      /\ pc \in [Tasks -> PCs] /\ probe \in [Tasks -> BOOLEAN]
      /\ left \in [Tasks -> 0..Deadline]
  BY BreakerAssumption DEF LongCooldown, Accounting, TypeOK
<1>b. circuit.kind \in {"Closed", "Open", "HalfOpen"} /\ circuit.until \in 0..Cooldown
  BY <1>a DEF CircuitStates
<1>1. ASSUME NEW t \in Tasks, NEW d \in 0..Deadline, EnterCircuit(t, d)
      PROVE  Timing'
  <2>1. CASE circuit.kind = "Closed"
    <3>1. circuit' = circuit /\ probe' = [probe EXCEPT ![t] = FALSE]
      BY <1>1, <2>1 DEF EnterCircuit, Entered, BecomesProbe
    <3>2. pc' = [pc EXCEPT ![t] = "acquiring"]
      BY <1>1 DEF EnterCircuit
    <3> QED
      BY <1>a, <2>1, <3>1, <3>2 DEF RestOutlastsRequests, ClosedIsNotProbed, HalfOpenIsTaken,
         ProbeIsAlone, ProbeFindsPermit, ProbeHasUpstream, Outstanding
  <2>2. CASE circuit.kind # "Closed"
    <3>1. circuit.kind = "Open" /\ circuit.until = 0
      <4>1. ~IsDropped(circuit) /\ circuit # HalfOpen(TRUE)
        BY <1>1 DEF EnterCircuit, Refuses
      <4>2. circuit.kind = "Open"
        BY <1>b, <2>2, <4>1 DEF HalfOpenIsTaken
      <4> QED
        BY <1>b, <4>1, <4>2, BreakerAssumption DEF IsDropped
    <3>2. \A s \in Tasks : pc[s] = "idle"
      BY <3>1, RestEndsOnAnIdleUpstream
    <3>3. circuit' = HalfOpen(TRUE) /\ circuit'.kind = "HalfOpen"
      BY <1>1, <2>2 DEF EnterCircuit, Entered, BecomesProbe, HalfOpen
    <3>4. probe' = [probe EXCEPT ![t] = TRUE] /\ pc' = [pc EXCEPT ![t] = "acquiring"]
      BY <1>1, <2>2 DEF EnterCircuit, BecomesProbe
    <3>5. \A s \in Tasks : s # t => pc'[s] = "idle"
      BY <1>a, <3>2, <3>4
    <3>6. pc'[t] = "acquiring" /\ probe'[t]
      BY <1>a, <3>4
    <3> QED
      BY <3>3, <3>5, <3>6 DEF RestOutlastsRequests, ClosedIsNotProbed, HalfOpenIsTaken,
         ProbeIsAlone, ProbeFindsPermit, ProbeHasUpstream, Outstanding
  <2> QED BY <2>1, <2>2
<1>2. ASSUME NEW t \in Tasks, AcquirePermit(t)
      PROVE  Timing'
  BY <1>a, <1>2 DEF AcquirePermit, RestOutlastsRequests, ClosedIsNotProbed, HalfOpenIsTaken,
     ProbeIsAlone, ProbeFindsPermit, ProbeHasUpstream, Outstanding
<1>3. ASSUME NEW t \in Tasks, AtCapacity(t) \/ ReleasePermit(t) \/ DropFuture(t)
      PROVE  Timing'
  <2>1. /\ circuit' = circuit
        /\ pc' = [pc EXCEPT ![t] = "idle"]
        /\ probe' = [probe EXCEPT ![t] = FALSE]
        /\ left' = [left EXCEPT ![t] = 0]
    BY <1>3 DEF AtCapacity, ReleasePermit, DropFuture, Leave
  <2>2. pc'[t] = "idle" /\ ~Outstanding(t)'
    BY <1>a, <2>1 DEF Outstanding
  <2>3. \A s \in Tasks : s # t => /\ pc'[s] = pc[s] /\ left'[s] = left[s]
                                  /\ Outstanding(s)' <=> Outstanding(s)
    BY <1>a, <2>1 DEF Outstanding
  <2>4. RestOutlastsRequests'
    BY <2>1, <2>2, <2>3 DEF RestOutlastsRequests
  <2>5. ClosedIsNotProbed' /\ HalfOpenIsTaken' /\ ProbeIsAlone'
    BY <2>1, <2>2, <2>3 DEF ClosedIsNotProbed, HalfOpenIsTaken, ProbeIsAlone
  <2>6. ProbeFindsPermit' /\ ProbeHasUpstream'
    BY <2>1, <2>2, <2>3 DEF ProbeFindsPermit, ProbeHasUpstream
  <2> QED
    BY <2>4, <2>5, <2>6
<1>4. ASSUME NEW t \in Tasks, ProbeAtCapacity(t) \/ RestoreProbeSlot(t)
      PROVE  Timing'
  <2>1. ~RestoreProbeSlot(t)
    BY DEF RestoreProbeSlot, ProbeFindsPermit
  <2>2. ~ProbeAtCapacity(t)
    BY ProbeIsNeverAtCapacity DEF ProbeAtCapacity
  <2> QED
    BY <2>1, <2>2, <1>4
<1>5. ASSUME NEW t \in Tasks, NEW ok \in BOOLEAN, Settle(t, ok)
      PROVE  Timing'
  <2>1. pc[t] = "inflight" /\ pc' = [pc EXCEPT ![t] = "settled"]
        /\ probe' = probe /\ left' = left
    BY <1>5 DEF Settle
  <2>2. ~Outstanding(t)' /\ pc'[t] = "settled"
    BY <1>a, <2>1 DEF Outstanding
  <2>3. \A s \in Tasks : s # t => /\ pc'[s] = pc[s]
                                  /\ Outstanding(s)' <=> Outstanding(s)
    BY <1>a, <2>1 DEF Outstanding
  <2>4. ProbeFindsPermit' /\ ProbeHasUpstream'
    BY <1>a, <2>1, <2>2, <2>3 DEF ProbeFindsPermit, ProbeHasUpstream
  <2>5. CASE circuit' = circuit
    <3>1. circuit.kind # "HalfOpen"
      BY <2>1, <2>5, <1>5
         DEF Settle, Settled, ProbeIsAlone, HalfOpenIsTaken, Outstanding, HalfOpen, Closed, Open
    <3>2. RestOutlastsRequests' /\ ClosedIsNotProbed'
      BY <1>a, <2>1, <2>2, <2>3, <2>5 DEF RestOutlastsRequests, ClosedIsNotProbed
    <3> QED
      BY <2>4, <2>5, <3>1, <3>2 DEF HalfOpenIsTaken, ProbeIsAlone
  <2>6. CASE circuit' # circuit
    <3>1. Outstanding(t) /\ (circuit' = Closed \/ circuit' = Open(Cooldown))
      BY <1>5, <2>6 DEF Settle, Settled, Outstanding
    <3>2. \A s \in Tasks : ~Outstanding(s)'
      BY <2>2, <2>3, <3>1 DEF Outstanding, ProbeHasUpstream
    <3>3. circuit'.kind # "HalfOpen" /\ (circuit'.kind = "Open" => circuit'.until = Cooldown)
      BY <3>1 DEF Open, Closed
    <3>4. RestOutlastsRequests'
      BY <1>a, <2>1, <3>3 DEF RestOutlastsRequests
    <3> QED
      BY <2>4, <3>2, <3>3, <3>4
         DEF ClosedIsNotProbed, HalfOpenIsTaken, ProbeIsAlone
  <2> QED BY <2>5, <2>6
<1>6. CASE HealthCheck
  BY <1>6 DEF HealthCheck, RestOutlastsRequests, ClosedIsNotProbed, HalfOpenIsTaken,
     ProbeIsAlone, ProbeFindsPermit, ProbeHasUpstream, Outstanding
<1>7. CASE HealthTrip
  BY <1>a, <1>7 DEF HealthTrip, Open, RestOutlastsRequests, ClosedIsNotProbed, HalfOpenIsTaken,
     ProbeIsAlone, ProbeFindsPermit, ProbeHasUpstream, Outstanding
<1>8. CASE Tick
  <2>1. /\ pc' = pc /\ probe' = probe
        /\ circuit'.kind = circuit.kind
        /\ circuit.kind # "Open" => circuit' = circuit
        /\ IsDropped(circuit) => circuit'.until = circuit.until - 1
    BY <1>8 DEF Tick, Cooled, IsDropped, Open
  <2>2. RestOutlastsRequests'
    <3> SUFFICES ASSUME circuit.kind = "Open", NEW t \in Tasks, pc[t] # "idle"
                 PROVE  left'[t] + Cooldown <= Deadline + circuit'.until
      BY <2>1 DEF RestOutlastsRequests
    <3>1. IsDropped(circuit)
      BY <1>a, RestEndsOnAnIdleUpstream DEF IsDropped, CircuitStates
    <3>2. left'[t] = left[t] - 1
      BY <1>8 DEF Tick, AllAwaiting
    <3> QED
      BY <1>a, <2>1, <3>1, <3>2 DEF RestOutlastsRequests, CircuitStates
  <2> QED
    BY <2>1, <2>2 DEF ClosedIsNotProbed, HalfOpenIsTaken, ProbeIsAlone,
       ProbeFindsPermit, ProbeHasUpstream, Outstanding
<1>9. CASE UNCHANGED vars
  BY <1>9 DEF vars, RestOutlastsRequests, ClosedIsNotProbed, HalfOpenIsTaken,
     ProbeIsAlone, ProbeFindsPermit, ProbeHasUpstream, Outstanding
<1> QED
  BY <1>1, <1>2, <1>3, <1>4, <1>5, <1>6, <1>7, <1>8, <1>9
     DEF Next, TaskStep, Expire, Disconnect

LEMMA InvariantStep ==
  ASSUME LongCooldown PROVE  (Accounting /\ Timing) /\ [Next]_vars => (Accounting /\ Timing)'
BY AccountingStep, TimingStep

(* The invariant that the rest follows from. *)
THEOREM BreakerInvariant ==
  ASSUME LongCooldown PROVE  Spec => [](Accounting /\ Timing)
<1>1. Init => Accounting /\ Timing
  BY AccountingInit, TimingInit
<1> QED
  BY <1>1, InvariantStep, PTL DEF Spec

-----------------------------------------------------------------------------
(* One probe at a time: nobody probes an upstream somebody else still probes. *)
THEOREM OneProbe == ASSUME LongCooldown PROVE Spec => []SingleProbe
<1>1. Accounting /\ Timing => SingleProbe
  BY DEF Timing, ProbeHasUpstream, SingleProbe, Outstanding
<1> QED
  BY <1>1, BreakerInvariant, PTL

(* And the upstream carries nothing but the probe. *)
THEOREM ProbeAlone == ASSUME LongCooldown PROVE Spec => []ProbeIsAlone
<1>1. Accounting /\ Timing => ProbeIsAlone
  BY DEF Timing
<1> QED
  BY <1>1, BreakerInvariant, PTL

-----------------------------------------------------------------------------
(* 3. What a single step may never do, whatever the constants *)

(* Which steps can take a circuit out of an unexpired rest. *)
LEMMA RestStep ==
  ASSUME Accounting, [Next]_vars, IsDropped(circuit)
  PROVE  \/ circuit' \in {circuit, Cooled(circuit), Open(Cooldown)}
         \/ \E t \in Tasks : pc[t] = "restoring" /\ pc'[t] = "idle"
<1>1. ASSUME NEW t \in Tasks, NEW ok \in BOOLEAN, Settle(t, ok)
      PROVE  circuit' = circuit
  BY <1>1 DEF Settle, Settled, IsDropped, HalfOpen
<1>2. ASSUME NEW t \in Tasks, RestoreProbeSlot(t)
      PROVE  pc[t] = "restoring" /\ pc'[t] = "idle"
  BY <1>2 DEF RestoreProbeSlot, Leave, Accounting, TypeOK
<1>3. ASSUME NEW t \in Tasks, NEW d \in 0..Deadline, EnterCircuit(t, d)
      PROVE  FALSE
  BY <1>3 DEF EnterCircuit, Refuses
<1>4. ASSUME NEW t \in Tasks,
             \/ AcquirePermit(t) \/ AtCapacity(t) \/ ProbeAtCapacity(t)
             \/ ReleasePermit(t) \/ DropFuture(t)
      PROVE  circuit' = circuit
  BY <1>4 DEF AcquirePermit, AtCapacity, ProbeAtCapacity, ReleasePermit, DropFuture
<1>5. CASE HealthCheck \/ HealthTrip \/ Tick
  BY <1>5 DEF HealthCheck, HealthTrip, Tick
<1>6. CASE UNCHANGED vars
  BY <1>6 DEF vars
<1> QED
  BY <1>1, <1>2, <1>3, <1>4, <1>5, <1>6 DEF Next, TaskStep, Expire, Disconnect

(* No verdict, however late, cuts a rest short. *)
THEOREM LateVerdictsAreIgnored == Spec => RestEndedByTimeOrRestore
<1>1. Accounting /\ [Next]_vars =>
        [IsDropped(circuit) =>
           \/ circuit' \in {circuit, Cooled(circuit), Open(Cooldown)}
           \/ \E t \in Tasks : pc[t] = "restoring" /\ pc'[t] = "idle"]_vars
  BY RestStep
<1> QED
  BY <1>1, AccountingInit, AccountingStep, PTL DEF Spec, RestEndedByTimeOrRestore

(* With the longer cooldown nobody restores, so a rest lasts. *)
THEOREM RestLasts == ASSUME LongCooldown PROVE Spec => OpenUntilElapsed
<1>1. Accounting /\ Timing /\ [Next]_vars =>
        [IsDropped(circuit) =>
           circuit' \in {circuit, Cooled(circuit), Open(Cooldown)}]_vars
  BY RestStep DEF Timing, ProbeFindsPermit
<1> QED
  BY <1>1, BreakerInvariant, PTL DEF Spec, OpenUntilElapsed

(* A probe slot loses its owner only when that owner's future is dropped. *)
THEOREM OrphansComeFromDrops == Spec => OnlyADropOrphansTheSlot
<1> DEFINE Dropped == \E t \in Tasks : pc[t] = "inflight" /\ pc'[t] = "idle"
<1>1. ASSUME Accounting, Next, SlotOwned, ~SlotOwned' PROVE Dropped
  <2>a. /\ pc \in [Tasks -> PCs] /\ probe \in [Tasks -> BOOLEAN]
    BY <1>1 DEF Accounting, TypeOK
  <2>b. circuit' = HalfOpen(TRUE) /\ \A s \in Tasks : ~Outstanding(s)'
    BY <1>1 DEF SlotOwned, Outstandings
  <2>c. circuit' = circuit => \E s \in Tasks : Outstanding(s)
    BY <1>1, <2>b DEF SlotOwned, Outstandings
  <2>1. ASSUME NEW t \in Tasks, NEW d \in 0..Deadline, EnterCircuit(t, d)
        PROVE  FALSE
    <3>1. BecomesProbe(circuit)
      BY <2>1, <2>b DEF EnterCircuit, Entered, BecomesProbe, HalfOpen
    <3>2. Outstanding(t)'
      BY <2>a, <2>1, <3>1 DEF EnterCircuit, Outstanding
    <3> QED BY <2>b, <3>2
  <2>2. ASSUME NEW t \in Tasks, AcquirePermit(t) \/ ProbeAtCapacity(t)
        PROVE  FALSE
    <3>1. circuit' = circuit /\ \A s \in Tasks : Outstanding(s) => Outstanding(s)'
      BY <2>a, <2>2 DEF AcquirePermit, ProbeAtCapacity, Outstanding
    <3> QED BY <2>b, <2>c, <3>1
  <2>3. ASSUME NEW t \in Tasks, AtCapacity(t) \/ ReleasePermit(t)
        PROVE  FALSE
    <3>1. circuit' = circuit /\ ~Outstanding(t)
      BY <2>3 DEF AtCapacity, ReleasePermit, Outstanding
    <3>2. \A s \in Tasks : s # t => (Outstanding(s) => Outstanding(s)')
      BY <2>a, <2>3 DEF AtCapacity, ReleasePermit, Leave, Outstanding
    <3> QED BY <2>b, <2>c, <3>1, <3>2
  <2>4. ASSUME NEW t \in Tasks, RestoreProbeSlot(t) PROVE FALSE
    BY <2>b, <2>4 DEF RestoreProbeSlot, HalfOpen
  <2>5. ASSUME NEW t \in Tasks, NEW ok \in BOOLEAN, Settle(t, ok) PROVE FALSE
    <3>1. ~probe[t] /\ circuit' = circuit
      BY <2>b, <2>5 DEF Settle, Settled, HalfOpen, Open, Closed
    <3>2. \A s \in Tasks : Outstanding(s) => Outstanding(s)'
      BY <2>a, <2>5, <3>1 DEF Settle, Outstanding
    <3> QED BY <2>b, <2>c, <3>1, <3>2
  <2>6. ASSUME NEW t \in Tasks, DropFuture(t) PROVE Dropped
    BY <2>a, <2>6 DEF DropFuture, Leave
  <2>7. CASE HealthCheck \/ Tick
    <3>1. circuit' = circuit /\ \A s \in Tasks : Outstanding(s) => Outstanding(s)'
      BY <2>b, <2>7 DEF HealthCheck, Tick, Cooled, Open, HalfOpen, Outstanding
    <3> QED BY <2>b, <2>c, <3>1
  <2>8. CASE HealthTrip
    BY <2>b, <2>8 DEF HealthTrip, Open, HalfOpen
  <2> QED
    BY <1>1, <2>1, <2>2, <2>3, <2>4, <2>5, <2>6, <2>7, <2>8
       DEF Next, TaskStep, Expire, Disconnect
<1>2. Accounting /\ [Next]_vars => [SlotOwned /\ ~SlotOwned' => Dropped]_vars
  BY <1>1
<1> QED
  BY <1>2, AccountingInit, AccountingStep, PTL DEF Spec, OnlyADropOrphansTheSlot

-----------------------------------------------------------------------------
(* 4. The breaker keeps its promise *)

(* While the circuit is half-open, a task about to settle or be dropped is *)
(* the one outstanding probe.                                              *)
LEMMA InflightIsTheProbe ==
  ASSUME Timing, NEW t \in Tasks, pc[t] = "inflight", circuit.kind = "HalfOpen"
  PROVE  Outstanding(t) /\ Outstandings = {t} /\ circuit = HalfOpen(TRUE)
<1>1. Outstanding(t) /\ circuit = HalfOpen(TRUE)
  BY DEF Timing, ProbeIsAlone, HalfOpenIsTaken
<1>2. \A s \in Tasks : Outstanding(s) => s = t
  BY <1>1 DEF Timing, ProbeHasUpstream, Outstanding
<1> QED
  BY <1>1, <1>2 DEF Outstandings

(* The state of the promise. *)
Probers == IF circuit.kind = "HalfOpen" THEN Outstandings ELSE {}

LEMMA PromiseInit == Init => Abs!Init
BY DEF Init, Abs!Init, Closed

LEMMA PromiseStep ==
  ASSUME LongCooldown, Accounting, Timing, [Next]_vars
  PROVE  [Abs!Next]_(Abs!absVars)
<1> DEFINE Stutter == circuit' = circuit /\ Probers' = Probers
<1>s. Stutter => UNCHANGED Abs!absVars
  BY DEF Abs!absVars, Probers
<1>a. /\ pc \in [Tasks -> PCs] /\ probe \in [Tasks -> BOOLEAN]
      /\ circuit.kind \in {"Closed", "Open", "HalfOpen"}
      /\ circuit.until \in Nat
  BY BreakerAssumption DEF Accounting, TypeOK, CircuitStates
<1>1. ASSUME NEW t \in Tasks, NEW d \in 0..Deadline, EnterCircuit(t, d)
      PROVE  [Abs!Next]_(Abs!absVars)
  <2>1. CASE circuit.kind = "Closed"
    BY <1>s, <1>1, <2>1 DEF EnterCircuit, Entered, BecomesProbe, Probers
  <2>2. CASE circuit.kind # "Closed"
    <3>1. ~IsDropped(circuit) /\ circuit.kind = "Open"
      BY <1>a, <1>1, <2>2 DEF EnterCircuit, Refuses, Timing, HalfOpenIsTaken
    <3>2. circuit.until = 0
      BY <1>a, <3>1 DEF IsDropped
    <3>3. \A s \in Tasks : pc[s] = "idle"
      BY <3>1, <3>2, RestEndsOnAnIdleUpstream
    <3>4. circuit' = HalfOpen(TRUE) /\ Outstanding(t)'
      BY <1>a, <1>1, <2>2 DEF EnterCircuit, Entered, BecomesProbe, Outstanding
    <3>5. \A s \in Tasks : s # t => ~Outstanding(s)'
      BY <1>a, <1>1, <3>3 DEF EnterCircuit, Outstanding
    <3>6. Outstandings' = {t}
      BY <3>4, <3>5 DEF Outstandings
    <3>7. Abs!StartProbe(t)
      BY <3>1, <3>2, <3>4, <3>6 DEF Abs!StartProbe, HalfOpen
    <3> QED BY <3>7 DEF Abs!Next
  <2> QED BY <2>1, <2>2
<1>2. ASSUME NEW t \in Tasks, AcquirePermit(t) \/ AtCapacity(t) \/ ReleasePermit(t)
      PROVE  Stutter
  <2>1. circuit' = circuit
    BY <1>2 DEF AcquirePermit, AtCapacity, ReleasePermit
  <2>2. Outstanding(t)' <=> Outstanding(t)
    BY <1>a, <1>2 DEF AcquirePermit, AtCapacity, ReleasePermit, Leave, Outstanding
  <2>3. \A s \in Tasks : s # t => (Outstanding(s)' <=> Outstanding(s))
    BY <1>a, <1>2 DEF AcquirePermit, AtCapacity, ReleasePermit, Leave, Outstanding
  <2>4. Outstandings' = Outstandings
    BY <2>2, <2>3 DEF Outstandings
  <2> QED BY <2>1, <2>4 DEF Probers
<1>3. ASSUME NEW t \in Tasks, ProbeAtCapacity(t) \/ RestoreProbeSlot(t)
      PROVE  FALSE
  <2>1. ~RestoreProbeSlot(t)
    BY DEF RestoreProbeSlot, Timing, ProbeFindsPermit
  <2>2. ~ProbeAtCapacity(t)
    BY ProbeIsNeverAtCapacity DEF ProbeAtCapacity
  <2> QED
    BY <1>3, <2>1, <2>2
<1>4. ASSUME NEW t \in Tasks, NEW ok \in BOOLEAN, Settle(t, ok)
      PROVE  [Abs!Next]_(Abs!absVars)
  <2>1. CASE circuit.kind = "HalfOpen"
    <3>1. Outstanding(t) /\ Outstandings = {t} /\ circuit = HalfOpen(TRUE)
      BY <1>4, <2>1, InflightIsTheProbe DEF Settle
    <3>2. circuit' = IF ok THEN Closed ELSE Open(Cooldown)
      BY <1>4, <3>1 DEF Settle, Settled, Outstanding
    <3>3. Abs!Verdict(t)
      BY <2>1, <3>1, <3>2 DEF Abs!Verdict, Open, Closed
    <3> QED BY <3>3 DEF Abs!Next
  <2>2. CASE circuit.kind # "HalfOpen"
    <3>1. circuit' = circuit
      BY <1>4, <2>2 DEF Settle, Settled, HalfOpen
    <3> QED BY <1>s, <2>2, <3>1 DEF Probers
  <2> QED BY <2>1, <2>2
<1>5. ASSUME NEW t \in Tasks, DropFuture(t)
      PROVE  [Abs!Next]_(Abs!absVars)
  <2>1. circuit' = circuit
    BY <1>5 DEF DropFuture
  <2>2. CASE circuit.kind = "HalfOpen"
    <3>1. Outstandings = {t}
      BY <1>5, <2>2, InflightIsTheProbe DEF DropFuture
    <3>2. \A s \in Tasks : ~Outstanding(s)'
      BY <1>a, <1>5, <3>1 DEF DropFuture, Leave, Outstanding, Outstandings
    <3>3. Abs!Abandon(t)
      BY <2>1, <2>2, <3>1, <3>2 DEF Abs!Abandon, Outstandings
    <3> QED BY <3>3 DEF Abs!Next
  <2>3. CASE circuit.kind # "HalfOpen"
    BY <1>s, <2>1, <2>3 DEF Probers
  <2> QED BY <2>2, <2>3
<1>6. CASE HealthCheck
  BY <1>s, <1>6 DEF HealthCheck, Probers, Outstandings, Outstanding
<1>7. CASE HealthTrip
  <2>1. Abs!OrderRest
    BY <1>7 DEF HealthTrip, Abs!OrderRest, Open
  <2> QED BY <2>1 DEF Abs!Next
<1>8. CASE Tick
  <2>1. Outstandings' = Outstandings
    BY <1>8 DEF Tick, Outstandings, Outstanding
  <2>2. CASE IsDropped(circuit)
    <3>1. Abs!Pass
      BY <1>8, <2>2 DEF Tick, Cooled, IsDropped, Open, Abs!Pass
    <3> QED BY <3>1 DEF Abs!Next
  <2>3. CASE ~IsDropped(circuit)
    BY <1>s, <1>8, <2>1, <2>3 DEF Tick, Cooled, Probers
  <2> QED BY <2>2, <2>3
<1>9. CASE UNCHANGED vars
  BY <1>s, <1>9 DEF vars, Probers, Outstandings, Outstanding
<1> QED
  BY <1>s, <1>1, <1>2, <1>3, <1>4, <1>5, <1>6, <1>7, <1>8, <1>9
     DEF Next, TaskStep, Expire, Disconnect

(* Detailed breaker, with its tasks, locks, permits and deadlines,         *)
(* implements the abstract one.                                            *)
THEOREM BreakerKeepsPromise == ASSUME LongCooldown PROVE Spec => KeepsPromise
<1>1. Accounting /\ Timing /\ [Next]_vars => [Abs!Next]_(Abs!absVars)
  BY PromiseStep
<1> QED
  BY <1>1, PromiseInit, BreakerInvariant, PTL DEF Spec, KeepsPromise, Abs!Spec

(* Only the verdict of the one outstanding probe closes a circuit. *)
THEOREM OnlyTheProbeReadmits == ASSUME LongCooldown PROVE Spec => ReadmittedByProbe
<1> DEFINE ByProbe == \E t \in Tasks : /\ Outstandings = {t}
                                        /\ pc[t] = "inflight"
                                        /\ pc'[t] = "settled"
<1>1. ASSUME Accounting, Timing, Next, circuit.kind # "Closed", circuit' = Closed
      PROVE  ByProbe
  <2>1. circuit'.kind = "Closed"
    BY <1>1 DEF Closed
  <2>2. ASSUME NEW t \in Tasks, NEW ok \in BOOLEAN, Settle(t, ok) PROVE ByProbe
    <3>1. circuit.kind = "HalfOpen"
      BY <1>1, <2>1, <2>2 DEF Settle, Settled, HalfOpen
    <3>2. Outstandings = {t}
      BY <1>1, <2>2, <3>1, InflightIsTheProbe DEF Settle
    <3>3. pc'[t] = "settled"
      BY <1>1, <2>2 DEF Settle, Accounting, TypeOK
    <3> QED BY <2>2, <3>2, <3>3 DEF Settle
  <2>3. ASSUME NEW t \in Tasks, NEW d \in 0..Deadline, EnterCircuit(t, d) PROVE FALSE
    BY <1>1, <2>1, <2>3 DEF EnterCircuit, Entered, BecomesProbe, HalfOpen
  <2>4. ASSUME NEW t \in Tasks,
               \/ AcquirePermit(t) \/ AtCapacity(t) \/ ProbeAtCapacity(t)
               \/ ReleasePermit(t) \/ DropFuture(t) \/ RestoreProbeSlot(t)
        PROVE  FALSE
    BY <1>1, <2>1, <2>4 DEF AcquirePermit, AtCapacity, ProbeAtCapacity, ReleasePermit,
       DropFuture, RestoreProbeSlot, HalfOpen
  <2>5. ASSUME HealthCheck \/ HealthTrip \/ Tick PROVE FALSE
    BY <1>1, <2>1, <2>5 DEF HealthCheck, HealthTrip, Tick, Cooled, Open
  <2> QED
    BY <1>1, <2>2, <2>3, <2>4, <2>5 DEF Next, TaskStep, Expire, Disconnect
<1>2. Accounting /\ Timing /\ [Next]_vars =>
        [circuit.kind # "Closed" /\ circuit' = Closed =>
           \E t \in Tasks :
             /\ Outstandings = {t}
             /\ pc[t] = "inflight"
             /\ pc'[t] = "settled"]_vars
  BY <1>1
<1> QED
  BY <1>2, BreakerInvariant, PTL DEF Spec, ReadmittedByProbe

=============================================================================
