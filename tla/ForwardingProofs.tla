-------------------------- MODULE ForwardingProofs --------------------------
(***************************************************************************)
(* What holds of Forwarding for every pool, every number of requests,      *)
(* every cap, number of attempts, set of scores and margin.                *)
(***************************************************************************)
EXTENDS Forwarding, FiniteSetTheorems, TLAPS

-----------------------------------------------------------------------------
(* 1. Types *)

(* A request that is trying an upstream has one, and an attempt left. *)
Targeting ==
  \A t \in Requests :
    /\ pc[t] \notin {"done", "routing"} => target[t] \in Upstreams
    /\ pc[t] \in {"admitting", "acquiring", "restoring"} => attempts[t] < MaxAttempts

Typing == TypeOK /\ Targeting

(* The methods of Upstream keep circuits in their shapes. *)
LEMMA CircuitShapes ==
  ASSUME NEW c \in CircuitStates(1), NEW ok \in BOOLEAN
  PROVE  /\ Open(1) \in CircuitStates(1)
         /\ HalfOpen(FALSE) \in CircuitStates(1)
         /\ Closed \in CircuitStates(1)
         /\ Entered(c) \in CircuitStates(1)
         /\ Settled(c, ok, 1) \in CircuitStates(1)
         /\ Cooled(c) \in CircuitStates(1)
<1>1. /\ Open(1) \in CircuitStates(1)
      /\ HalfOpen(FALSE) \in CircuitStates(1)
      /\ HalfOpen(TRUE) \in CircuitStates(1)
      /\ Closed \in CircuitStates(1)
  BY DEF CircuitStates, Open, HalfOpen, Closed
<1>2. Entered(c) \in {c, HalfOpen(TRUE)} /\ Settled(c, ok, 1) \in {c, Closed, Open(1)}
  BY DEF Entered, Settled
<1>3. Cooled(c) \in CircuitStates(1)
  BY DEF CircuitStates, Cooled, IsDropped, Open
<1> QED
  BY <1>1, <1>2, <1>3

(* Whoever the router prefers is an upstream that is not excluded. *)
LEMMA PreferredIsACandidate ==
  ASSUME TypeOK, NEW t \in Requests,
         NEW u \in Preferred(score, Choice(t), leader, Margin)
  PROVE  u \in Upstreams /\ u \notin excluded[t] /\ u \notin skips[t]
<1>1. u \in Choice(t)
  BY DEF Preferred, HoldsLead, Best
<1> QED
  BY <1>1 DEF Choice, Candidates, TypeOK

LEMMA WitnessTypes ==
  ASSUME TypeOK, Witness PROVE avail' \in [Requests -> SUBSET Upstreams]
BY DEF TypeOK, Witness

(* The holders of an upstream's permits, and room for theirs to come back. *)
LEMMA HoldersFinite ==
  ASSUME NEW u \in Upstreams
  PROVE  IsFiniteSet(HoldersOf(u)) /\ Cardinality(HoldersOf(u)) \in Nat
BY ForwardingAssumption, FS_Subset, FS_CardinalityType DEF HoldersOf

LEMMA RoomForAPermit ==
  ASSUME TypeOK, PermitsBalanced, NEW t \in Requests,
         pc[t] \in {"inflight", "settled"}, target[t] \in Upstreams
  PROVE  permits[target[t]] + 1 \in 0..MaxConcurrent
<1> DEFINE u == target[t]
<1>1. t \in HoldersOf(u)
  BY DEF HoldersOf
<1>2. Cardinality(HoldersOf(u)) # 0
  BY <1>1, HoldersFinite, FS_EmptySet
<1>3. permits[u] + Cardinality(HoldersOf(u)) = MaxConcurrent
  BY DEF PermitsBalanced
<1>4. Cardinality(HoldersOf(u)) \in Nat /\ permits[u] \in Nat /\ MaxConcurrent \in Nat
  BY HoldersFinite, ForwardingAssumption DEF TypeOK
<1> HIDE DEF u
<1>5. permits[u] + 1 \in 0..MaxConcurrent
  BY <1>2, <1>3, <1>4
<1> QED
  BY <1>5 DEF u

LEMMA TypingInit == Init => Typing
<1> SUFFICES ASSUME Init PROVE Typing
  OBVIOUS
<1>1. Closed \in CircuitStates(1)
  BY DEF CircuitStates, Closed
<1> QED
  BY <1>1, ForwardingAssumption DEF Init, Typing, TypeOK, Targeting, PCs, Replies

LEMMA TypingStep ==
  ASSUME TypeOK, Targeting, PermitsBalanced, [Next]_vars
  PROVE  TypeOK' /\ Targeting'
<1> USE ForwardingAssumption
<1>1. ASSUME NEW t \in Requests, Receive(t) PROVE TypeOK' /\ Targeting'
  BY <1>1 DEF Receive, GoTo, poolVars, TypeOK, Targeting, PCs, Replies, Admissible
<1>2. ASSUME NEW t \in Requests, Select(t) PROVE TypeOK' /\ Targeting'
  <2>1. PICK u \in Preferred(score, Choice(t), leader, Margin) :
          target' = [target EXCEPT ![t] = u] /\ leader' = u
    BY <1>2 DEF Select
  <2>2. u \in Upstreams
    BY <2>1, PreferredIsACandidate
  <2> QED
    BY <1>2, <2>1, <2>2, WitnessTypes DEF Select, GoTo, TypeOK, Targeting, PCs
<1>3. ASSUME NEW t \in Requests, GiveUp(t) PROVE TypeOK' /\ Targeting'
  BY <1>3, WitnessTypes DEF GiveUp, GoTo, poolVars, TypeOK, Targeting, PCs, Replies, Failures
<1>4. ASSUME NEW t \in Requests, Refused(t) \/ AtCapacity(t) PROVE TypeOK' /\ Targeting'
  <2>1. /\ Skip(t) /\ pc[t] \in {"admitting", "acquiring"}
        /\ UNCHANGED <<poolVars, excluded, attempts, reply>> /\ Witness
    BY <1>4 DEF Refused, AtCapacity
  <2>2. /\ pc' \in [Requests -> PCs] /\ probe' \in [Requests -> BOOLEAN]
        /\ target' \in [Requests -> Upstreams \cup {None}]
    BY <2>1 DEF Skip, GoTo, TypeOK, PCs
  <2>3. skips' \in [Requests -> SUBSET Upstreams]
    BY <2>1 DEF Skip, TypeOK, Targeting
  <2>4. TypeOK'
    BY <2>1, <2>2, <2>3, WitnessTypes DEF poolVars, TypeOK
  <2>5. Targeting'
    BY <2>1 DEF Skip, GoTo, TypeOK, Targeting
  <2> QED
    BY <2>4, <2>5
<1>5. ASSUME NEW t \in Requests, EnterCircuit(t) PROVE TypeOK' /\ Targeting'
  <2>1. circuit' \in [Upstreams -> CircuitStates(1)]
    BY <1>5, CircuitShapes DEF EnterCircuit, TypeOK, Targeting
  <2> QED
    BY <1>5, <2>1, WitnessTypes DEF EnterCircuit, GoTo, TypeOK, Targeting, PCs, BecomesProbe
<1>6. ASSUME NEW t \in Requests, AcquirePermit(t) PROVE TypeOK' /\ Targeting'
  BY <1>6, WitnessTypes DEF AcquirePermit, GoTo, TypeOK, Targeting, PCs
<1>7. ASSUME NEW t \in Requests, ProbeAtCapacity(t) PROVE TypeOK' /\ Targeting'
  BY <1>7, WitnessTypes DEF ProbeAtCapacity, GoTo, poolVars, TypeOK, Targeting, PCs
<1>8. ASSUME NEW t \in Requests, RestoreProbeSlot(t) PROVE TypeOK' /\ Targeting'
  <2>1. circuit' \in [Upstreams -> CircuitStates(1)]
    BY <1>8, CircuitShapes DEF RestoreProbeSlot, TypeOK
  <2>2. /\ Skip(t) /\ pc[t] = "restoring" /\ Witness
        /\ UNCHANGED <<permits, score, leader, excluded, attempts, reply>>
    BY <1>8 DEF RestoreProbeSlot
  <2>3. /\ pc' \in [Requests -> PCs] /\ probe' \in [Requests -> BOOLEAN]
        /\ target' \in [Requests -> Upstreams \cup {None}]
    BY <2>2 DEF Skip, GoTo, TypeOK, PCs
  <2>4. skips' \in [Requests -> SUBSET Upstreams]
    BY <2>2 DEF Skip, TypeOK, Targeting
  <2>5. TypeOK'
    BY <2>1, <2>2, <2>3, <2>4, WitnessTypes DEF TypeOK
  <2>6. Targeting'
    BY <2>2 DEF Skip, GoTo, TypeOK, Targeting
  <2> QED
    BY <2>5, <2>6
<1>9. ASSUME NEW t \in Requests, NEW ok \in BOOLEAN, NEW s \in Scores, Answer(t, ok, s)
      PROVE  TypeOK' /\ Targeting'
  <2>1. circuit' \in [Upstreams -> CircuitStates(1)]
    BY <1>9, CircuitShapes DEF Answer, TypeOK
  <2> QED
    BY <1>9, <2>1, WitnessTypes
       DEF Answer, FireOnce, GoTo, TypeOK, Targeting, PCs, Replies, Failures
<1>10. ASSUME NEW t \in Requests, pc[t] \in {"inflight", "settled"}, EndAttempt(t)
       PROVE  /\ circuit' = circuit /\ score' = score /\ leader' = leader
              /\ skips' = skips /\ attempts' = attempts
              /\ permits' \in [Upstreams -> 0..MaxConcurrent]
              /\ target' = [target EXCEPT ![t] = None]
              /\ probe' \in [Requests -> BOOLEAN]
              /\ avail' \in [Requests -> SUBSET Upstreams]
  <2>1. permits[target[t]] + 1 \in 0..MaxConcurrent
    BY <1>10, RoomForAPermit DEF Targeting
  <2>2. permits' \in [Upstreams -> 0..MaxConcurrent]
    BY <1>10, <2>1 DEF EndAttempt, TypeOK
  <2>3. avail' \in [Requests -> SUBSET Upstreams]
    BY <1>10, WitnessTypes DEF EndAttempt
  <2> QED
    BY <1>10, <2>2, <2>3 DEF EndAttempt, TypeOK
<1>11. ASSUME NEW t \in Requests, Succeed(t) \/ Retry(t)
       PROVE  TypeOK' /\ Targeting'
  BY <1>10, <1>11 DEF Succeed, Retry, GoTo, TypeOK, Targeting, PCs
<1>12. ASSUME NEW t \in Requests, Expire(t) \/ Disconnect(t)
       PROVE  TypeOK' /\ Targeting'
  BY <1>10, <1>12 DEF Expire, Disconnect, DropFuture, GoTo, TypeOK, Targeting, PCs, Replies
<1>13. ASSUME NEW u \in Upstreams, HealthTrip(u) \/ CooldownElapses(u)
       PROVE  TypeOK' /\ Targeting'
  <2>1. circuit' \in [Upstreams -> CircuitStates(1)]
    <3>1. CASE HealthTrip(u)
      BY <3>1, CircuitShapes DEF HealthTrip, TypeOK
    <3>2. CASE CooldownElapses(u)
      <4>1. Cooled(circuit[u]) \in CircuitStates(1)
        BY CircuitShapes DEF TypeOK
      <4> QED
        BY <3>2, <4>1 DEF CooldownElapses, TypeOK
    <3> QED
      BY <1>13, <3>1, <3>2
  <2> QED
    BY <1>13, <2>1, WitnessTypes
       DEF HealthTrip, CooldownElapses, requestVars, TypeOK, Targeting
<1>14. ASSUME NEW u \in Upstreams, NEW s \in Scores, Rescore(u, s)
       PROVE  TypeOK' /\ Targeting'
  BY <1>14, WitnessTypes DEF Rescore, requestVars, TypeOK, Targeting
<1>15. CASE UNCHANGED vars
  BY <1>15 DEF vars, TypeOK, Targeting
<1> QED
  BY <1>1, <1>2, <1>3, <1>4, <1>5, <1>6, <1>7, <1>8, <1>9, <1>11, <1>12, <1>13, <1>14, <1>15
     DEF Next, RequestStep, RunsOn, UpstreamStep

-----------------------------------------------------------------------------
(* 2. Permits *)

(* The counts of free permits and of holders stand still while no request  *)
(* starts or ends an attempt. *)
LEMMA PermitsStand ==
  ASSUME PermitsBalanced, permits' = permits,
         \A u \in Upstreams : HoldersOf(u)' = HoldersOf(u)
  PROVE  PermitsBalanced'
BY DEF PermitsBalanced

(* Where t holds nothing before the step nor after it, and the others stay *)
(* as they are, no upstream gains or loses a holder. *)
LEMMA HoldersStand ==
  ASSUME TypeOK, TypeOK', NEW t \in Requests, pc[t] \notin {"inflight", "settled"},
         pc'[t] \notin {"inflight", "settled"},
         \A s \in Requests \ {t} : pc'[s] = pc[s] /\ target'[s] = target[s],
         NEW u \in Upstreams
  PROVE  HoldersOf(u)' = HoldersOf(u)
BY DEF HoldersOf

(* AcquirePermit makes t a holder of its target, and of nothing else. *)
LEMMA TakingAPermit ==
  ASSUME TypeOK, Targeting, PermitsBalanced, NEW t \in Requests, AcquirePermit(t)
  PROVE  PermitsBalanced'
<1> SUFFICES ASSUME NEW u \in Upstreams
             PROVE  permits'[u] + Cardinality(HoldersOf(u)') = MaxConcurrent
  BY DEF PermitsBalanced
<1>1. permits[u] + Cardinality(HoldersOf(u)) = MaxConcurrent
  BY DEF PermitsBalanced
<1>2. CASE u = target[t]
  <2>1. t \notin HoldersOf(u) /\ HoldersOf(u)' = HoldersOf(u) \cup {t}
    BY <1>2 DEF AcquirePermit, GoTo, TypeOK, HoldersOf
  <2>2. IsFiniteSet(HoldersOf(u)) /\ Cardinality(HoldersOf(u)) \in Nat
    BY HoldersFinite
  <2>3. Cardinality(HoldersOf(u)') = Cardinality(HoldersOf(u)) + 1
    BY <2>1, <2>2, FS_AddElement
  <2>4. permits'[u] = permits[u] - 1 /\ permits[u] \in Nat
    BY <1>2 DEF AcquirePermit, TypeOK
  <2> QED
    BY <1>1, <2>2, <2>3, <2>4, ForwardingAssumption
<1>3. CASE u # target[t]
  <2>1. HoldersOf(u)' = HoldersOf(u) /\ permits'[u] = permits[u]
    BY <1>3 DEF AcquirePermit, GoTo, TypeOK, HoldersOf
  <2> QED
    BY <1>1, <2>1
<1> QED
  BY <1>2, <1>3

(* The end of an attempt gives the permit back to the upstream it is of. *)
LEMMA DroppingAPermit ==
  ASSUME TypeOK, Targeting, PermitsBalanced, NEW t \in Requests, EndAttempt(t),
         pc[t] \in {"inflight", "settled"}, pc'[t] \notin {"inflight", "settled"},
         \A s \in Requests \ {t} : pc'[s] = pc[s]
  PROVE  PermitsBalanced'
<1> SUFFICES ASSUME NEW u \in Upstreams
             PROVE  permits'[u] + Cardinality(HoldersOf(u)') = MaxConcurrent
  BY DEF PermitsBalanced
<1>1. permits[u] + Cardinality(HoldersOf(u)) = MaxConcurrent
  BY DEF PermitsBalanced
<1>2. \A s \in Requests \ {t} : target'[s] = target[s]
  BY DEF EndAttempt, TypeOK
<1>3. CASE u = target[t]
  <2>1. t \in HoldersOf(u) /\ HoldersOf(u)' = HoldersOf(u) \ {t}
    BY <1>2, <1>3 DEF HoldersOf
  <2>2. IsFiniteSet(HoldersOf(u)) /\ Cardinality(HoldersOf(u)) \in Nat
    BY HoldersFinite
  <2>3. Cardinality(HoldersOf(u)') = Cardinality(HoldersOf(u)) - 1
    BY <2>1, <2>2, FS_RemoveElement
  <2>4. permits'[u] = permits[u] + 1 /\ permits[u] \in Nat
    BY <1>3 DEF EndAttempt, TypeOK
  <2> QED
    BY <1>1, <2>2, <2>3, <2>4, ForwardingAssumption
<1>4. CASE u # target[t]
  <2>1. HoldersOf(u)' = HoldersOf(u) /\ permits'[u] = permits[u]
    BY <1>2, <1>4 DEF EndAttempt, TypeOK, HoldersOf
  <2> QED
    BY <1>1, <2>1
<1> QED
  BY <1>3, <1>4

LEMMA BalanceInit == Init => PermitsBalanced
<1> SUFFICES ASSUME Init, NEW u \in Upstreams
             PROVE  permits[u] + Cardinality(HoldersOf(u)) = MaxConcurrent
  BY DEF PermitsBalanced
<1>1. HoldersOf(u) = {} /\ permits[u] = MaxConcurrent
  BY DEF Init, HoldersOf
<1> QED
  BY <1>1, FS_EmptySet, ForwardingAssumption

LEMMA BalanceStep ==
  ASSUME TypeOK, Targeting, PermitsBalanced, TypeOK', [Next]_vars
  PROVE  PermitsBalanced'
<1>1. ASSUME NEW t \in Requests,
             \/ Receive(t) \/ Select(t) \/ GiveUp(t) \/ Refused(t) \/ EnterCircuit(t)
             \/ AtCapacity(t) \/ ProbeAtCapacity(t) \/ RestoreProbeSlot(t)
      PROVE  PermitsBalanced'
  <2>1. /\ pc[t] \notin {"inflight", "settled"} /\ pc'[t] \notin {"inflight", "settled"}
        /\ \A s \in Requests \ {t} : pc'[s] = pc[s]
    BY <1>1 DEF Receive, Select, GiveUp, Refused, EnterCircuit, AtCapacity, ProbeAtCapacity,
                RestoreProbeSlot, Skip, GoTo, TypeOK
  <2>2. \A s \in Requests \ {t} : target'[s] = target[s]
    BY <1>1 DEF Receive, Select, GiveUp, Refused, EnterCircuit, AtCapacity, ProbeAtCapacity,
                RestoreProbeSlot, Skip, TypeOK
  <2>3. permits' = permits
    BY <1>1 DEF Receive, Select, GiveUp, Refused, EnterCircuit, AtCapacity, ProbeAtCapacity,
                RestoreProbeSlot, poolVars
  <2> QED
    BY <2>1, <2>2, <2>3, HoldersStand, PermitsStand
<1>2. ASSUME NEW t \in Requests, AcquirePermit(t) PROVE PermitsBalanced'
  BY <1>2, TakingAPermit
<1>3. ASSUME NEW t \in Requests, NEW ok \in BOOLEAN, NEW s \in Scores, Answer(t, ok, s)
      PROVE  PermitsBalanced'
  <2>1. permits' = permits /\ target' = target
    BY <1>3 DEF Answer
  <2>2. \A u \in Upstreams : HoldersOf(u)' = HoldersOf(u)
    BY <1>3, <2>1 DEF Answer, GoTo, TypeOK, HoldersOf
  <2> QED
    BY <2>1, <2>2, PermitsStand
<1>4. ASSUME NEW t \in Requests,
             Succeed(t) \/ Retry(t) \/ Expire(t) \/ Disconnect(t)
      PROVE  PermitsBalanced'
  <2>1. /\ EndAttempt(t) /\ pc[t] \in {"inflight", "settled"}
        /\ pc' = [pc EXCEPT ![t] = "done"] \/ pc' = [pc EXCEPT ![t] = "routing"]
    BY <1>4 DEF Succeed, Retry, Expire, Disconnect, DropFuture, GoTo
  <2>2. /\ pc'[t] \notin {"inflight", "settled"}
        /\ \A s \in Requests \ {t} : pc'[s] = pc[s]
    BY <2>1 DEF TypeOK
  <2> QED
    BY <2>1, <2>2, DroppingAPermit
<1>5. ASSUME permits' = permits, pc' = pc, target' = target PROVE PermitsBalanced'
  <2>1. \A u \in Upstreams : HoldersOf(u)' = HoldersOf(u)
    BY <1>5 DEF HoldersOf
  <2> QED
    BY <1>5, <2>1, PermitsStand
<1>6. ASSUME NEW u \in Upstreams, UpstreamStep(u) PROVE PermitsBalanced'
  BY <1>5, <1>6 DEF UpstreamStep, HealthTrip, CooldownElapses, Rescore, requestVars
<1>7. CASE UNCHANGED vars
  BY <1>5, <1>7 DEF vars
<1> QED
  BY <1>1, <1>2, <1>3, <1>4, <1>6, <1>7 DEF Next, RequestStep, RunsOn

LEMMA ForwardingInductive == Spec => [](TypeOK /\ Targeting /\ PermitsBalanced)
<1> DEFINE Inv == TypeOK /\ Targeting /\ PermitsBalanced
<1>1. Init => Inv
  BY TypingInit, BalanceInit DEF Typing
<1>2. Inv /\ [Next]_vars => Inv'
  BY TypingStep, BalanceStep
<1> QED
  BY <1>1, <1>2, PTL DEF Spec

(* The forwarding core keeps its types, with no request past its attempts  *)
(* and no semaphore past its permits. *)
THEOREM ForwardingTypes == Spec => []TypeOK
BY ForwardingInductive, PTL

(* Every permit of every upstream is free or held by a request that is on  *)
(* it: retries, refusals, deadlines and disconnects neither leak a permit  *)
(* nor return it to another upstream. *)
THEOREM PermitsAreBalanced == Spec => []PermitsBalanced
BY ForwardingInductive, PTL

-----------------------------------------------------------------------------
(* 3. Attempts *)

(* What a request has been charged for is what it has excluded, and the    *)
(* upstream it is on, which is a new one. *)
Charged(t) ==
  /\ pc[t] \in {"routing", "admitting", "acquiring", "restoring"} =>
       attempts[t] = Cardinality(excluded[t])
  /\ pc[t] \in {"inflight", "settled"} => attempts[t] = Cardinality(excluded[t]) + 1
  /\ pc[t] \notin {"done", "routing"} => target[t] \notin excluded[t]

AllCharged == RetryDifferent => \A t \in Requests : Charged(t)

LEMMA ExcludedFinite ==
  ASSUME TypeOK, NEW t \in Requests
  PROVE  IsFiniteSet(excluded[t]) /\ Cardinality(excluded[t]) \in Nat
BY ForwardingAssumption, FS_Subset, FS_CardinalityType DEF TypeOK

LEMMA ChargedStands ==
  ASSUME NEW s \in Requests, Charged(s), pc'[s] = pc[s], target'[s] = target[s],
         excluded'[s] = excluded[s], attempts'[s] = attempts[s]
  PROVE  Charged(s)'
BY DEF Charged

(* A request that is charged for its attempts stays so, whatever it does.  *)
LEMMA ChargedStep ==
  ASSUME TypeOK, RetryDifferent, NEW t \in Requests, Charged(t), RequestStep(t)
  PROVE  Charged(t)'
<1>1. CASE Receive(t)
  <2>1. pc'[t] = "routing" /\ excluded'[t] = {} /\ attempts'[t] = 0
    BY <1>1 DEF Receive, GoTo, TypeOK
  <2> QED
    BY <2>1, FS_EmptySet DEF Charged
<1>2. CASE Select(t)
  <2>1. PICK u \in Preferred(score, Choice(t), leader, Margin) :
          target' = [target EXCEPT ![t] = u]
    BY <1>2 DEF Select
  <2>2. u \notin excluded[t] /\ target'[t] = u
    BY <2>1, PreferredIsACandidate DEF TypeOK
  <2>3. /\ pc[t] = "routing" /\ pc'[t] = "admitting"
        /\ excluded' = excluded /\ attempts' = attempts
    BY <1>2 DEF Select, GoTo, TypeOK
  <2> QED
    BY <2>2, <2>3 DEF Charged
<1>3. CASE GiveUp(t) \/ Succeed(t) \/ Expire(t) \/ Disconnect(t)
  <2>1. pc'[t] = "done"
    BY <1>3 DEF GiveUp, Succeed, Expire, Disconnect, DropFuture, GoTo, TypeOK
  <2> QED
    BY <2>1 DEF Charged
<1>4. CASE Refused(t) \/ AtCapacity(t) \/ RestoreProbeSlot(t)
  <2>1. /\ pc[t] \in {"admitting", "acquiring", "restoring"} /\ pc'[t] = "routing"
        /\ excluded' = excluded /\ attempts' = attempts
    BY <1>4 DEF Refused, AtCapacity, RestoreProbeSlot, Skip, GoTo, TypeOK
  <2> QED
    BY <2>1 DEF Charged
<1>5. CASE EnterCircuit(t) \/ ProbeAtCapacity(t)
  <2>1. /\ pc[t] \in {"admitting", "acquiring"} /\ pc'[t] \in {"acquiring", "restoring"}
        /\ excluded' = excluded /\ attempts' = attempts /\ target' = target
    BY <1>5 DEF EnterCircuit, ProbeAtCapacity, GoTo, TypeOK
  <2> QED
    BY <2>1 DEF Charged
<1>6. CASE AcquirePermit(t)
  <2>1. /\ pc[t] = "acquiring" /\ pc'[t] = "inflight" /\ attempts'[t] = attempts[t] + 1
        /\ excluded' = excluded /\ target' = target
    BY <1>6 DEF AcquirePermit, GoTo, TypeOK
  <2> QED
    BY <2>1 DEF Charged
<1>7. ASSUME NEW ok \in BOOLEAN, NEW s \in Scores, Answer(t, ok, s) PROVE Charged(t)'
  <2>1. /\ pc[t] = "inflight" /\ pc'[t] = "settled"
        /\ excluded' = excluded /\ attempts' = attempts /\ target' = target
    BY <1>7 DEF Answer, GoTo, TypeOK
  <2> QED
    BY <2>1 DEF Charged
<1>8. CASE Retry(t)
  <2>1. /\ pc[t] = "settled" /\ pc'[t] = "routing" /\ attempts'[t] = attempts[t]
        /\ excluded'[t] = excluded[t] \cup {target[t]}
    BY <1>8 DEF Retry, EndAttempt, GoTo, TypeOK
  <2>2. attempts[t] = Cardinality(excluded[t]) + 1 /\ target[t] \notin excluded[t]
    BY <2>1 DEF Charged
  <2>3. Cardinality(excluded[t] \cup {target[t]}) = Cardinality(excluded[t]) + 1
    BY <2>2, ExcludedFinite, FS_AddElement
  <2> QED
    BY <2>1, <2>2, <2>3 DEF Charged
<1> QED
  BY <1>1, <1>2, <1>3, <1>4, <1>5, <1>6, <1>7, <1>8 DEF RequestStep, RunsOn

(* A request's step is no other request's business, but for the pool. *)
LEMMA OthersStand ==
  ASSUME TypeOK, NEW t \in Requests, RequestStep(t), NEW s \in Requests \ {t}
  PROVE  /\ pc'[s] = pc[s] /\ target'[s] = target[s] /\ skips'[s] = skips[s]
         /\ excluded'[s] = excluded[s] /\ attempts'[s] = attempts[s]
         /\ reply'[s] = reply[s]
<1>1. CASE Receive(t) \/ Select(t) \/ GiveUp(t) \/ EnterCircuit(t) \/ AcquirePermit(t)
           \/ ProbeAtCapacity(t)
  BY <1>1 DEF Receive, Select, GiveUp, EnterCircuit, AcquirePermit, ProbeAtCapacity,
              GoTo, TypeOK
<1>2. CASE Refused(t) \/ AtCapacity(t) \/ RestoreProbeSlot(t)
  BY <1>2 DEF Refused, AtCapacity, RestoreProbeSlot, Skip, GoTo, TypeOK
<1>3. ASSUME NEW ok \in BOOLEAN, NEW n \in Scores, Answer(t, ok, n)
      PROVE  /\ pc'[s] = pc[s] /\ target'[s] = target[s] /\ skips'[s] = skips[s]
             /\ excluded'[s] = excluded[s] /\ attempts'[s] = attempts[s]
             /\ reply'[s] = reply[s]
  BY <1>3 DEF Answer, FireOnce, GoTo, TypeOK
<1>4. CASE Succeed(t) \/ Retry(t) \/ Expire(t) \/ Disconnect(t)
  BY <1>4 DEF Succeed, Retry, Expire, Disconnect, DropFuture, EndAttempt, GoTo, TypeOK
<1> QED
  BY <1>1, <1>2, <1>3, <1>4 DEF RequestStep, RunsOn

LEMMA UpstreamsStandApart ==
  ASSUME NEW u \in Upstreams, UpstreamStep(u)
  PROVE  UNCHANGED requestVars /\ Witness
BY DEF UpstreamStep, HealthTrip, CooldownElapses, Rescore

LEMMA ChargedInit == Init => AllCharged
BY DEF Init, AllCharged, Charged

LEMMA AllChargedStep ==
  ASSUME TypeOK, AllCharged, [Next]_vars
  PROVE  AllCharged'
<1> SUFFICES ASSUME RetryDifferent, NEW s \in Requests
             PROVE  Charged(s)'
  BY DEF AllCharged
<1>1. Charged(s)
  BY DEF AllCharged
<1>2. ASSUME NEW t \in Requests, RequestStep(t) PROVE Charged(s)'
  <2>1. CASE t = s
    <3>1. RequestStep(s)
      BY <1>2, <2>1
    <3> QED
      BY <1>1, <3>1, ChargedStep
  <2>2. CASE t # s
    BY <1>1, <1>2, <2>2, OthersStand, ChargedStands
  <2> QED
    BY <2>1, <2>2
<1>3. ASSUME NEW u \in Upstreams, UpstreamStep(u) PROVE Charged(s)'
  BY <1>1, <1>3, UpstreamsStandApart, ChargedStands DEF requestVars
<1>4. CASE UNCHANGED vars
  BY <1>1, <1>4, ChargedStands DEF vars
<1> QED
  BY <1>2, <1>3, <1>4 DEF Next

(* With retry_on_different_upstream, no request is sent to an upstream a   *)
(* second time: as many upstreams as attempts, in any pool. *)
THEOREM RetriesGoElsewhere == Spec => []AttemptsAreDistinct
<1>1. Init => AllCharged
  BY ChargedInit
<1>2. TypeOK /\ AllCharged /\ [Next]_vars => AllCharged'
  BY AllChargedStep
<1>3. TypeOK /\ AllCharged => AttemptsAreDistinct
  <2> SUFFICES ASSUME TypeOK, AllCharged, RetryDifferent, NEW t \in Requests,
                      pc[t] \in {"inflight", "settled"}
               PROVE  attempts[t] = Cardinality(excluded[t] \cup {target[t]})
    BY DEF AttemptsAreDistinct
  <2>1. attempts[t] = Cardinality(excluded[t]) + 1 /\ target[t] \notin excluded[t]
    BY DEF AllCharged, Charged
  <2> QED
    BY <2>1, ExcludedFinite, FS_AddElement
<1> QED
  BY <1>1, <1>2, <1>3, ForwardingTypes, PTL DEF Spec

-----------------------------------------------------------------------------
(* 4. Exhaustion *)

(* What a request has seen throughout is open now, and it has skipped none *)
(* of it: a skip is of an upstream that was closed to it. *)
Seen(t) ==
  /\ avail[t] \subseteq Admissible(circuit, permits, score)
  /\ skips[t] \cap avail[t] = {}
  /\ pc[t] \in {"done", "inflight", "settled"} => skips[t] = {}

(* No request has given up with an upstream before its eyes. *)
GaveUpFairly(t) ==
  pc[t] = "done" /\ reply[t] \in Failures =>
    attempts[t] = MaxAttempts \/ avail[t] \subseteq excluded[t]

Fair == \A t \in Requests : Seen(t) /\ GaveUpFairly(t)

LEMMA WitnessNarrows ==
  ASSUME TypeOK, Witness, NEW s \in Requests
  PROVE  avail'[s] \subseteq avail[s] /\ avail'[s] \subseteq Admissible(circuit', permits', score')
BY DEF Witness

LEMMA SeenStep ==
  ASSUME TypeOK, NEW t \in Requests, Seen(t), RequestStep(t)
  PROVE  Seen(t)'
<1>1. CASE Receive(t)
  <2>1. /\ skips[t] = {} /\ skips'[t] = skips[t]
        /\ avail'[t] = Admissible(circuit, permits, score)
        /\ circuit' = circuit /\ permits' = permits /\ score' = score
        /\ pc'[t] = "routing"
    BY <1>1 DEF Receive, poolVars, GoTo, Seen, TypeOK
  <2> QED
    BY <2>1 DEF Seen
<1>2. CASE Refused(t) \/ AtCapacity(t) \/ RestoreProbeSlot(t)
  <2>1. /\ Skip(t) /\ Witness
        /\ pc'[t] = "routing" /\ skips'[t] = skips[t] \cup {target[t]}
    BY <1>2 DEF Refused, AtCapacity, RestoreProbeSlot, Skip, GoTo, TypeOK
  <2>2. target[t] \notin Admissible(circuit', permits', score')
    <3>1. CASE Refused(t)
      BY <3>1 DEF Refused, poolVars, Refuses, IsDropped, Closed, HalfOpen, Admissible
    <3>2. CASE AtCapacity(t)
      BY <3>2 DEF AtCapacity, poolVars, Admissible
    <3>3. CASE RestoreProbeSlot(t)
      BY <3>3 DEF RestoreProbeSlot, Closed, HalfOpen, Admissible, TypeOK
    <3> QED
      BY <1>2, <3>1, <3>2, <3>3
  <2> QED
    BY <2>1, <2>2, WitnessNarrows DEF Seen
<1>3. CASE Select(t) \/ EnterCircuit(t) \/ ProbeAtCapacity(t)
  <2>1. Witness /\ skips' = skips /\ pc'[t] \in {"admitting", "acquiring", "restoring"}
    BY <1>3 DEF Select, EnterCircuit, ProbeAtCapacity, GoTo, TypeOK
  <2> QED
    BY <2>1, WitnessNarrows DEF Seen
<1>4. CASE GiveUp(t) \/ AcquirePermit(t)
  <2>1. Witness /\ skips'[t] = {}
    BY <1>4 DEF GiveUp, AcquirePermit, TypeOK
  <2> QED
    BY <2>1, WitnessNarrows DEF Seen
<1>5. ASSUME NEW ok \in BOOLEAN, NEW s \in Scores, Answer(t, ok, s) PROVE Seen(t)'
  <2>1. Witness /\ skips' = skips /\ skips[t] = {}
    BY <1>5 DEF Answer, Seen
  <2> QED
    BY <2>1, WitnessNarrows DEF Seen
<1>6. CASE Succeed(t) \/ Retry(t) \/ Expire(t) \/ Disconnect(t)
  <2>1. Witness /\ skips' = skips /\ skips[t] = {}
    BY <1>6 DEF Succeed, Retry, Expire, Disconnect, DropFuture, EndAttempt, Seen
  <2> QED
    BY <2>1, WitnessNarrows DEF Seen
<1> QED
  BY <1>1, <1>2, <1>3, <1>4, <1>5, <1>6 DEF RequestStep, RunsOn

LEMMA GaveUpStep ==
  ASSUME TypeOK, NEW t \in Requests, Seen(t), RequestStep(t)
  PROVE  GaveUpFairly(t)'
<1>1. CASE GiveUp(t)
  <2>1. /\ Witness /\ attempts' = attempts /\ excluded' = excluded
        /\ attempts[t] = MaxAttempts \/ Choice(t) = {}
    BY <1>1 DEF GiveUp
  <2>2. ASSUME Choice(t) = {} PROVE avail[t] \subseteq excluded[t]
    <3> SUFFICES ASSUME NEW u \in avail[t], u \notin excluded[t] PROVE FALSE
      OBVIOUS
    <3>1. /\ u \in Upstreams /\ circuit[u] = Closed /\ score[u] > 0
          /\ u \notin skips[t]
      BY DEF Seen, Admissible
    <3>2. u \notin Dropped /\ u \in DOMAIN score
      BY <3>1 DEF Dropped, IsDropped, Closed, TypeOK
    <3> QED
      BY <2>2, <3>1, <3>2 DEF Choice, Candidates
  <2> QED
    BY <2>1, <2>2, WitnessNarrows DEF GaveUpFairly
<1>2. CASE Succeed(t) \/ Expire(t) \/ Disconnect(t)
  <2>1. reply'[t] \in {"ok", "deadline", "gone"}
    BY <1>2 DEF Succeed, Expire, Disconnect, DropFuture, TypeOK
  <2> QED
    BY <2>1 DEF GaveUpFairly, Failures
<1>3. ASSUME NEW ok \in BOOLEAN, NEW s \in Scores, Answer(t, ok, s) PROVE pc'[t] # "done"
  BY <1>3 DEF Answer, GoTo, TypeOK
<1>4. CASE \/ Receive(t) \/ Select(t) \/ EnterCircuit(t) \/ ProbeAtCapacity(t)
           \/ AcquirePermit(t) \/ Refused(t) \/ AtCapacity(t) \/ RestoreProbeSlot(t)
           \/ Retry(t)
  <2>1. pc'[t] # "done"
    BY <1>4 DEF Receive, Select, EnterCircuit, ProbeAtCapacity, AcquirePermit, Refused,
                AtCapacity, RestoreProbeSlot, Skip, Retry, GoTo, TypeOK
  <2> QED
    BY <2>1 DEF GaveUpFairly
<1>5. CASE pc'[t] # "done"
  BY <1>5 DEF GaveUpFairly
<1> QED
  BY <1>1, <1>2, <1>3, <1>4, <1>5 DEF RequestStep, RunsOn

(* A step that is not the request's own can only narrow what it has seen.  *)
LEMMA OnlookersStayFair ==
  ASSUME NEW s \in Requests, Seen(s), GaveUpFairly(s),
         avail'[s] \subseteq avail[s],
         avail'[s] \subseteq Admissible(circuit', permits', score'),
         pc'[s] = pc[s], skips'[s] = skips[s], excluded'[s] = excluded[s],
         attempts'[s] = attempts[s], reply'[s] = reply[s]
  PROVE  Seen(s)' /\ GaveUpFairly(s)'
BY DEF Seen, GaveUpFairly

(* And it does no more than that. *)
LEMMA AvailNarrows ==
  ASSUME TypeOK, NEW t \in Requests, RequestStep(t), NEW s \in Requests \ {t}, Seen(s)
  PROVE  /\ avail'[s] \subseteq avail[s]
         /\ avail'[s] \subseteq Admissible(circuit', permits', score')
<1>1. CASE Receive(t)
  <2>1. avail'[s] = avail[s] /\ circuit' = circuit /\ permits' = permits /\ score' = score
    BY <1>1 DEF Receive, poolVars, TypeOK
  <2> QED
    BY <2>1 DEF Seen
<1>2. CASE Witness
  BY <1>2, WitnessNarrows
<1>3. ASSUME NEW ok \in BOOLEAN, NEW n \in Scores, Answer(t, ok, n) PROVE Witness
  BY <1>3 DEF Answer
<1>4. RunsOn(t) \/ Disconnect(t) => Witness
  BY DEF RunsOn, Select, GiveUp, Refused, EnterCircuit, AcquirePermit, AtCapacity,
         ProbeAtCapacity, RestoreProbeSlot, Succeed, Retry, Expire, Disconnect,
         DropFuture, EndAttempt
<1> QED
  BY <1>1, <1>2, <1>3, <1>4 DEF RequestStep

LEMMA FairInit == Init => Fair
BY DEF Init, Fair, Seen, GaveUpFairly, Failures

LEMMA FairStep ==
  ASSUME TypeOK, Fair, [Next]_vars
  PROVE  Fair'
<1> SUFFICES ASSUME NEW s \in Requests
             PROVE  Seen(s)' /\ GaveUpFairly(s)'
  BY DEF Fair
<1>1. Seen(s) /\ GaveUpFairly(s)
  BY DEF Fair
<1>2. ASSUME NEW t \in Requests, RequestStep(t) PROVE Seen(s)' /\ GaveUpFairly(s)'
  <2>1. CASE t = s
    <3>1. RequestStep(s)
      BY <1>2, <2>1
    <3> QED
      BY <1>1, <3>1, SeenStep, GaveUpStep
  <2>2. CASE t # s
    BY <1>1, <1>2, <2>2, OthersStand, AvailNarrows, OnlookersStayFair
  <2> QED
    BY <2>1, <2>2
<1>3. ASSUME NEW u \in Upstreams, UpstreamStep(u) PROVE Seen(s)' /\ GaveUpFairly(s)'
  <2>1. UNCHANGED requestVars /\ Witness
    BY <1>3, UpstreamsStandApart
  <2> QED
    BY <1>1, <2>1, WitnessNarrows, OnlookersStayFair DEF requestVars
<1>4. CASE UNCHANGED vars
  BY <1>1, <1>4 DEF vars, Seen, GaveUpFairly
<1> QED
  BY <1>2, <1>3, <1>4 DEF Next

(* A request that fails with attempts to spare has tried every upstream    *)
(* that was open to it from its arrival to its end, in any pool. *)
THEOREM ExhaustionIsReal == Spec => []NoFalseExhaustion
<1>1. Init => Fair
  BY FairInit
<1>2. TypeOK /\ Fair /\ [Next]_vars => Fair'
  BY FairStep
<1>3. Fair => NoFalseExhaustion
  BY DEF Fair, GaveUpFairly, NoFalseExhaustion
<1> QED
  BY <1>1, <1>2, <1>3, ForwardingTypes, PTL DEF Spec

-----------------------------------------------------------------------------
(* 5. Termination *)

(* The upstream a request tries is not one it has skipped or excluded. *)
TargetIsNew(t) ==
  /\ pc[t] \in {"admitting", "acquiring", "restoring"} => target[t] \notin skips[t]
  /\ pc[t] \notin {"done", "routing"} => target[t] \notin excluded[t]

TargetsAreNew == \A t \in Requests : TargetIsNew(t)

LEMMA TargetIsNewStep ==
  ASSUME TypeOK, NEW t \in Requests, TargetIsNew(t), RequestStep(t)
  PROVE  TargetIsNew(t)'
<1>1. CASE Select(t)
  <2>1. PICK u \in Preferred(score, Choice(t), leader, Margin) :
          target' = [target EXCEPT ![t] = u]
    BY <1>1 DEF Select
  <2>2. /\ u \notin skips[t] /\ u \notin excluded[t] /\ target'[t] = u
        /\ skips' = skips /\ excluded' = excluded
    BY <1>1, <2>1, PreferredIsACandidate DEF Select, TypeOK
  <2> QED
    BY <2>2 DEF TargetIsNew
<1>2. CASE EnterCircuit(t) \/ ProbeAtCapacity(t)
  <2>1. /\ pc[t] \in {"admitting", "acquiring"}
        /\ target' = target /\ skips' = skips /\ excluded' = excluded
    BY <1>2 DEF EnterCircuit, ProbeAtCapacity
  <2> QED
    BY <2>1 DEF TargetIsNew
<1>3. CASE \/ Receive(t) \/ GiveUp(t) \/ Refused(t) \/ AtCapacity(t) \/ RestoreProbeSlot(t)
           \/ Succeed(t) \/ Retry(t) \/ Expire(t) \/ Disconnect(t)
  <2>1. pc'[t] \in {"done", "routing"}
    BY <1>3 DEF Receive, GiveUp, Refused, AtCapacity, RestoreProbeSlot, Skip,
                Succeed, Retry, Expire, Disconnect, DropFuture, GoTo, TypeOK
  <2> QED
    BY <2>1 DEF TargetIsNew
<1>4. CASE AcquirePermit(t) \/ \E ok \in BOOLEAN, s \in Scores : Answer(t, ok, s)
  <2>1. /\ pc[t] \in {"acquiring", "inflight"} /\ pc'[t] \in {"inflight", "settled"}
        /\ target' = target /\ excluded' = excluded
    BY <1>4 DEF AcquirePermit, Answer, GoTo, TypeOK
  <2> QED
    BY <2>1 DEF TargetIsNew
<1> QED
  BY <1>1, <1>2, <1>3, <1>4 DEF RequestStep, RunsOn

LEMMA TargetsAreNewStep ==
  ASSUME TypeOK, TargetsAreNew, [Next]_vars
  PROVE  TargetsAreNew'
<1> SUFFICES ASSUME NEW s \in Requests PROVE TargetIsNew(s)'
  BY DEF TargetsAreNew
<1>1. TargetIsNew(s)
  BY DEF TargetsAreNew
<1>2. ASSUME NEW t \in Requests, RequestStep(t) PROVE TargetIsNew(s)'
  <2>1. CASE t = s
    <3>1. RequestStep(s)
      BY <1>2, <2>1
    <3> QED
      BY <1>1, <3>1, TargetIsNewStep
  <2>2. CASE t # s
    BY <1>1, <1>2, <2>2, OthersStand DEF TargetIsNew
  <2> QED
    BY <2>1, <2>2
<1>3. ASSUME NEW u \in Upstreams, UpstreamStep(u) PROVE TargetIsNew(s)'
  BY <1>1, <1>3, UpstreamsStandApart DEF requestVars, TargetIsNew
<1>4. CASE UNCHANGED vars
  BY <1>1, <1>4 DEF vars, TargetIsNew
<1> QED
  BY <1>2, <1>3, <1>4 DEF Next

(* A step of a request that is not its first or its last. *)
LEMMA StepGetsOn ==
  ASSUME TypeOK, NEW t \in Requests, TargetIsNew(t), RequestStep(t),
         pc[t] # "done", pc'[t] # "done"
  PROVE  GetsOn(t)
<1>1. CASE Refused(t) \/ AtCapacity(t) \/ RestoreProbeSlot(t)
  <2>1. /\ pc[t] \in {"admitting", "acquiring", "restoring"}
        /\ attempts' = attempts /\ skips'[t] = skips[t] \cup {target[t]}
    BY <1>1 DEF Refused, AtCapacity, RestoreProbeSlot, Skip, TypeOK
  <2>2. target[t] \notin skips[t]
    BY <2>1 DEF TargetIsNew
  <2> QED
    BY <2>1, <2>2 DEF GetsOn
<1>2. CASE AcquirePermit(t)
  <2>1. attempts'[t] = attempts[t] + 1 /\ attempts[t] \in Nat
    BY <1>2 DEF AcquirePermit, TypeOK
  <2> QED
    BY <2>1 DEF GetsOn
<1>3. CASE Select(t) \/ EnterCircuit(t) \/ ProbeAtCapacity(t) \/ Retry(t)
  <2>1. attempts' = attempts /\ skips' = skips
    BY <1>3 DEF Select, EnterCircuit, ProbeAtCapacity, Retry, EndAttempt
  <2>2. \/ pc[t] = "routing" /\ pc'[t] = "admitting"
        \/ pc[t] = "admitting" /\ pc'[t] = "acquiring"
        \/ pc[t] = "acquiring" /\ pc'[t] = "restoring"
        \/ pc[t] = "settled" /\ pc'[t] = "routing"
    BY <1>3 DEF Select, EnterCircuit, ProbeAtCapacity, Retry, GoTo, TypeOK
  <2>3. Place(pc'[t]) > Place(pc[t])
    BY <2>2 DEF Place
  <2> QED
    BY <2>1, <2>3 DEF GetsOn
<1>4. ASSUME NEW ok \in BOOLEAN, NEW s \in Scores, Answer(t, ok, s) PROVE GetsOn(t)
  <2>1. attempts' = attempts /\ skips' = skips /\ pc[t] = "inflight" /\ pc'[t] = "settled"
    BY <1>4 DEF Answer, GoTo, TypeOK
  <2>2. Place(pc'[t]) > Place(pc[t])
    BY <2>1 DEF Place
  <2> QED
    BY <2>1, <2>2 DEF GetsOn
<1>5. ~Receive(t)
  BY DEF Receive
<1>6. ~(GiveUp(t) \/ Succeed(t) \/ Expire(t) \/ Disconnect(t))
  BY DEF GiveUp, Succeed, Expire, Disconnect, DropFuture, GoTo, TypeOK
<1> QED
  BY <1>1, <1>2, <1>3, <1>4, <1>5, <1>6 DEF RequestStep, RunsOn

(* Every step a pending request makes is one of a bounded number: the      *)
(* retries and the loop of select_and_admit end, in any pool, whatever     *)
(* the other requests and the health loop do meanwhile. *)
THEOREM RequestsGetOn == Spec => NoStepInVain
<1> DEFINE Moves(t) == pc[t] # "done" /\ pc'[t] \notin {"done", pc[t]}
<1>1. Init => TargetsAreNew
  BY DEF Init, TargetsAreNew, TargetIsNew
<1>2. TypeOK /\ TargetsAreNew /\ [Next]_vars => TargetsAreNew'
  BY TargetsAreNewStep
<1>3. TypeOK /\ TargetsAreNew /\ [Next]_vars =>
        [\A t \in Requests : pc[t] # "done" /\ pc'[t] \notin {"done", pc[t]} => GetsOn(t)]_vars
  <2> SUFFICES ASSUME TypeOK, TargetsAreNew, Next, NEW t \in Requests, Moves(t)
               PROVE  GetsOn(t)
    OBVIOUS
  <2>1. RequestStep(t)
    <3>1. PICK r \in Requests : RequestStep(r)
      BY UpstreamsStandApart DEF Next, requestVars
    <3>2. r = t
      BY <3>1, OthersStand
    <3> QED
      BY <3>1, <3>2
  <2> QED
    BY <2>1, StepGetsOn DEF TargetsAreNew
<1> QED
  BY <1>1, <1>2, <1>3, ForwardingTypes, PTL DEF Spec, NoStepInVain

-----------------------------------------------------------------------------
(* 6. Probe slots *)

(* A request that probes u goes on probing it through the steps of others. *)
LEMMA OthersProbe ==
  ASSUME TypeOK, NEW t \in Requests, RequestStep(t), NEW s \in Requests \ {t},
         NEW u \in Upstreams, s \in ProbersOf(u)
  PROVE  s \in ProbersOf(u)'
<1>1. probe'[s] = probe[s]
  <2>1. CASE Receive(t) \/ Select(t) \/ GiveUp(t) \/ EnterCircuit(t) \/ AcquirePermit(t)
             \/ ProbeAtCapacity(t)
    BY <2>1 DEF Receive, Select, GiveUp, EnterCircuit, AcquirePermit, ProbeAtCapacity, TypeOK
  <2>2. CASE Refused(t) \/ AtCapacity(t) \/ RestoreProbeSlot(t)
    BY <2>2 DEF Refused, AtCapacity, RestoreProbeSlot, Skip, TypeOK
  <2>3. ASSUME NEW ok \in BOOLEAN, NEW n \in Scores, Answer(t, ok, n) PROVE probe' = probe
    BY <2>3 DEF Answer
  <2>4. CASE Succeed(t) \/ Retry(t) \/ Expire(t) \/ Disconnect(t)
    BY <2>4 DEF Succeed, Retry, Expire, Disconnect, DropFuture, EndAttempt, TypeOK
  <2> QED
    BY <2>1, <2>2, <2>3, <2>4 DEF RequestStep, RunsOn
<1> QED
  BY <1>1, OthersStand DEF ProbersOf

(* The prober itself keeps the slot's claim while the slot is taken, or is *)
(* dropped. *)
LEMMA ProberProbes ==
  ASSUME TypeOK, NEW t \in Requests, RequestStep(t), NEW u \in Upstreams,
         t \in ProbersOf(u), circuit'[u] = HalfOpen(TRUE)
  PROVE  \/ t \in ProbersOf(u)'
         \/ pc[t] = "inflight" /\ reply'[t] \in {"deadline", "gone"}
<1>1. target[t] = u /\ probe[t] /\ pc[t] \in {"acquiring", "restoring", "inflight"}
  BY DEF ProbersOf
<1>2. CASE AcquirePermit(t) \/ ProbeAtCapacity(t)
  <2>1. target' = target /\ probe' = probe /\ pc'[t] \in {"restoring", "inflight"}
    BY <1>2 DEF AcquirePermit, ProbeAtCapacity, GoTo, TypeOK
  <2> QED
    BY <1>1, <2>1 DEF ProbersOf
<1>3. CASE Expire(t) \/ Disconnect(t)
  BY <1>3 DEF Expire, Disconnect, DropFuture, TypeOK
<1>4. ~RestoreProbeSlot(t)
  BY <1>1 DEF RestoreProbeSlot, HalfOpen, TypeOK
<1>5. ASSUME NEW ok \in BOOLEAN, NEW n \in Scores, Answer(t, ok, n) PROVE FALSE
  <2>1. circuit'[u] = Settled(circuit[u], ok, 1)
    BY <1>1, <1>5 DEF Answer, TypeOK
  <2> QED
    BY <2>1 DEF Settled, HalfOpen, Closed, Open
<1>6. ~( \/ Receive(t) \/ Select(t) \/ GiveUp(t) \/ Refused(t) \/ EnterCircuit(t)
         \/ AtCapacity(t) \/ Succeed(t) \/ Retry(t) )
  BY <1>1 DEF Receive, Select, GiveUp, Refused, EnterCircuit, AtCapacity, Succeed, Retry
<1> QED
  BY <1>2, <1>3, <1>4, <1>5, <1>6 DEF RequestStep, RunsOn

(* A slot is taken by a request that probes, and by nothing else. *)
LEMMA TakenByAProbe ==
  ASSUME TypeOK, Targeting, NEW t \in Requests, RequestStep(t), NEW u \in Upstreams,
         circuit[u] # HalfOpen(TRUE), circuit'[u] = HalfOpen(TRUE)
  PROVE  t \in ProbersOf(u)'
<1>1. CASE EnterCircuit(t)
  <2>1. target[t] \in Upstreams
    BY <1>1 DEF EnterCircuit, Targeting
  <2>2. target[t] = u /\ Entered(circuit[u]) = HalfOpen(TRUE)
    BY <1>1, <2>1 DEF EnterCircuit, TypeOK
  <2>3. BecomesProbe(circuit[u])
    BY <2>2 DEF Entered
  <2> QED
    BY <1>1, <2>2, <2>3 DEF EnterCircuit, GoTo, TypeOK, ProbersOf
<1>2. ~RestoreProbeSlot(t)
  BY DEF RestoreProbeSlot, HalfOpen, TypeOK
<1>3. ASSUME NEW ok \in BOOLEAN, NEW n \in Scores, Answer(t, ok, n) PROVE FALSE
  <2>1. circuit'[u] \in {circuit[u], Settled(circuit[u], ok, 1)}
    BY <1>3 DEF Answer, TypeOK
  <2> QED
    BY <2>1 DEF Settled, HalfOpen, Closed, Open
<1>4. ~( \/ Receive(t) \/ Select(t) \/ GiveUp(t) \/ Refused(t) \/ AcquirePermit(t)
         \/ AtCapacity(t) \/ ProbeAtCapacity(t) \/ Succeed(t) \/ Retry(t) \/ Expire(t)
         \/ Disconnect(t) )
  BY DEF Receive, Select, GiveUp, Refused, AcquirePermit, AtCapacity, ProbeAtCapacity,
         Succeed, Retry, Expire, Disconnect, DropFuture, EndAttempt, poolVars
<1> QED
  BY <1>1, <1>2, <1>3, <1>4 DEF RequestStep, RunsOn

(* In the pool as for one upstream: a taken probe slot loses its owner     *)
(* only when a deadline or a disconnect drops it, whoever else is on the   *)
(* upstream, and however often it is tripped. *)
THEOREM SlotsAreOrphanedByDrops == Spec => OnlyADropOrphansASlot
<1> DEFINE Orphaned(u) == SlotOwned(u) /\ ~SlotOwned(u)'
           Dropping(u) == \E t \in ProbersOf(u) : /\ pc[t] = "inflight"
                                                  /\ reply'[t] \in {"deadline", "gone"}
<1>1. TypeOK /\ Targeting /\ [Next]_vars => [\A u \in Upstreams : Orphaned(u) => Dropping(u)]_vars
  <2> SUFFICES ASSUME TypeOK, Targeting, Next, NEW u \in Upstreams,
                      SlotOwned(u), ~SlotOwned(u)'
               PROVE  Dropping(u)
    OBVIOUS
  <2>1. circuit'[u] = HalfOpen(TRUE) /\ ProbersOf(u)' = {}
    BY DEF SlotOwned
  <2>2. CASE circuit[u] = HalfOpen(TRUE)
    <3>1. PICK p \in Requests : p \in ProbersOf(u)
      BY <2>2 DEF SlotOwned, ProbersOf
    <3>2. ASSUME NEW t \in Requests, RequestStep(t) PROVE Dropping(u)
      <4>1. t = p
        BY <2>1, <3>1, <3>2, OthersProbe
      <4> QED
        BY <2>1, <3>1, <3>2, <4>1, ProberProbes
    <3>3. ~\E v \in Upstreams : UpstreamStep(v)
      BY <2>1, <3>1, UpstreamsStandApart DEF requestVars, ProbersOf
    <3> QED
      BY <3>2, <3>3 DEF Next
  <2>3. CASE circuit[u] # HalfOpen(TRUE)
    <3>1. ~\E t \in Requests : RequestStep(t)
      BY <2>1, <2>3, TakenByAProbe
    <3>2. ASSUME NEW v \in Upstreams, UpstreamStep(v) PROVE FALSE
      <4>1. circuit'[u] \in {circuit[u], Open(1), Cooled(circuit[u])}
        BY <3>2 DEF UpstreamStep, HealthTrip, CooldownElapses, Rescore, TypeOK
      <4> QED
        BY <2>1, <2>3, <4>1 DEF Cooled, Open, HalfOpen
    <3> QED
      BY <3>1, <3>2 DEF Next
  <2> QED
    BY <2>2, <2>3
<1> QED
  BY <1>1, ForwardingInductive, PTL DEF Spec, OnlyADropOrphansASlot

-----------------------------------------------------------------------------
(* 7. The promise *)

(* What is known of a request's attempts: an error if there has been one,  *)
(* an answer once it has settled. *)
Told(t) ==
  /\ pc[t] \in {"routing", "admitting", "acquiring", "restoring"} =>
       reply[t] = IF attempts[t] = 0 THEN "none" ELSE "upstream_error"
  /\ pc[t] = "settled" => reply[t] \in {"ok", "upstream_error"}
  /\ pc[t] \in {"inflight", "settled"} => attempts[t] > 0

AllTold == \A t \in Requests : Told(t)

LEMMA ToldStep ==
  ASSUME TypeOK, NEW t \in Requests, Told(t), RequestStep(t)
  PROVE  Told(t)'
<1>1. CASE Receive(t)
  <2>1. pc'[t] = "routing" /\ reply'[t] = "none" /\ attempts'[t] = 0
    BY <1>1 DEF Receive, GoTo, TypeOK
  <2> QED
    BY <2>1 DEF Told
<1>2. CASE \/ Select(t) \/ Refused(t) \/ AtCapacity(t) \/ RestoreProbeSlot(t)
           \/ EnterCircuit(t) \/ ProbeAtCapacity(t)
  <2>1. /\ pc[t] \in {"routing", "admitting", "acquiring", "restoring"}
        /\ pc'[t] \in {"routing", "admitting", "acquiring", "restoring"}
        /\ reply' = reply /\ attempts' = attempts
    BY <1>2 DEF Select, Refused, AtCapacity, RestoreProbeSlot, Skip, EnterCircuit,
                ProbeAtCapacity, GoTo, TypeOK
  <2> QED
    BY <2>1 DEF Told
<1>3. CASE AcquirePermit(t)
  <2>1. pc'[t] = "inflight" /\ attempts'[t] = attempts[t] + 1 /\ attempts[t] \in Nat
    BY <1>3 DEF AcquirePermit, GoTo, TypeOK
  <2> QED
    BY <2>1 DEF Told
<1>4. ASSUME NEW ok \in BOOLEAN, NEW s \in Scores, Answer(t, ok, s) PROVE Told(t)'
  <2>1. /\ pc[t] = "inflight" /\ pc'[t] = "settled" /\ attempts' = attempts
        /\ reply'[t] \in {"ok", "upstream_error"}
    BY <1>4 DEF Answer, FireOnce, GoTo, TypeOK
  <2> QED
    BY <2>1 DEF Told
<1>5. CASE Retry(t)
  <2>1. /\ pc[t] = "settled" /\ pc'[t] = "routing" /\ reply' = reply /\ attempts' = attempts
        /\ reply[t] # "ok" /\ attempts[t] \in Nat
    BY <1>5 DEF Retry, EndAttempt, GoTo, TypeOK
  <2> QED
    BY <2>1 DEF Told
<1>6. CASE GiveUp(t) \/ Succeed(t) \/ Expire(t) \/ Disconnect(t)
  <2>1. pc'[t] = "done"
    BY <1>6 DEF GiveUp, Succeed, Expire, Disconnect, DropFuture, GoTo, TypeOK
  <2> QED
    BY <2>1 DEF Told
<1> QED
  BY <1>1, <1>2, <1>3, <1>4, <1>5, <1>6 DEF RequestStep, RunsOn

LEMMA AllToldStep ==
  ASSUME TypeOK, AllTold, [Next]_vars
  PROVE  AllTold'
<1> SUFFICES ASSUME NEW s \in Requests PROVE Told(s)'
  BY DEF AllTold
<1>1. Told(s)
  BY DEF AllTold
<1>2. ASSUME NEW t \in Requests, RequestStep(t) PROVE Told(s)'
  <2>1. CASE t = s
    <3>1. RequestStep(s)
      BY <1>2, <2>1
    <3> QED
      BY <1>1, <3>1, ToldStep
  <2>2. CASE t # s
    BY <1>1, <1>2, <2>2, OthersStand DEF Told
  <2> QED
    BY <2>1, <2>2
<1>3. ASSUME NEW u \in Upstreams, UpstreamStep(u) PROVE Told(s)'
  BY <1>1, <1>3, UpstreamsStandApart DEF requestVars, Told
<1>4. CASE UNCHANGED vars
  BY <1>1, <1>4 DEF vars, Told
<1> QED
  BY <1>2, <1>3, <1>4 DEF Next

(* A request that goes from stop to stop changes its stage and no other's. *)
LEMMA StageFollows ==
  ASSUME TypeOK, NEW t \in Requests, NEW where \in PCs, GoTo(t, where)
  PROVE  /\ Stages' = [Stages EXCEPT ![t] = Stage(where)]
         /\ Stages[t] = Stage(pc[t])
BY DEF GoTo, TypeOK, Stages

(* And the upstream that serves it. *)
LEMMA ServingFollows ==
  ASSUME TypeOK, NEW t \in Requests, NEW where \in PCs, GoTo(t, where),
         \A s \in Requests \ {t} : target'[s] = target[s]
  PROVE  Serving' = [Serving EXCEPT
                       ![t] = IF where \in {"inflight", "settled"} THEN target'[t] ELSE None]
<1>1. \A s \in Requests \ {t} : pc'[s] = pc[s]
  BY DEF GoTo, TypeOK
<1>2. pc'[t] = where
  BY DEF GoTo, TypeOK
<1> QED
  BY <1>1, <1>2 DEF Serving

LEMMA NotServing ==
  ASSUME NEW t \in Requests, pc[t] \notin {"inflight", "settled"}
  PROVE  Serving[t] = None /\ [Serving EXCEPT ![t] = None] = Serving
BY DEF Serving

(* A step that the abstract core does not see. *)
LEMMA ChoosingIsHidden ==
  ASSUME TypeOK, NEW t \in Requests,
         \/ Select(t) \/ Refused(t) \/ AtCapacity(t) \/ RestoreProbeSlot(t)
         \/ EnterCircuit(t) \/ ProbeAtCapacity(t)
  PROVE  UNCHANGED <<Stages, Serving, excluded, attempts, reply>>
<1>1. /\ pc[t] \in {"routing", "admitting", "acquiring", "restoring"}
      /\ \E where \in {"routing", "admitting", "acquiring", "restoring"} : GoTo(t, where)
      /\ \A s \in Requests \ {t} : target'[s] = target[s]
  BY DEF Select, Refused, AtCapacity, RestoreProbeSlot, Skip, EnterCircuit, ProbeAtCapacity,
         TypeOK
<1>2. UNCHANGED <<excluded, attempts, reply>>
  BY DEF Select, Refused, AtCapacity, RestoreProbeSlot, EnterCircuit, ProbeAtCapacity
<1>3. PICK where \in {"routing", "admitting", "acquiring", "restoring"} : GoTo(t, where)
  BY <1>1
<1>4. where \in PCs /\ Stage(where) = "choosing" /\ Stage(pc[t]) = "choosing"
  BY <1>1 DEF PCs, Stage
<1>5. Stages' = Stages
  BY <1>3, <1>4, StageFollows DEF Stages
<1>6. Serving' = Serving
  BY <1>1, <1>3, <1>4, ServingFollows, NotServing
<1> QED
  BY <1>2, <1>5, <1>6

(* The permits of an upstream are its free places. *)
LEMMA ServedAreHolders ==
  ASSUME NEW u \in Upstreams
  PROVE  Abs!Served(u) = HoldersOf(u)
BY ForwardingAssumption DEF Abs!Served, Serving, HoldersOf

(* The abstract module counts as this one does. *)
LEMMA SameCount == \A S : Abs!Cardinality(S) = Cardinality(S)
BY DEF Abs!Cardinality, Cardinality

(* What a request does is a step of the abstract core, or none of its      *)
(* business. *)
LEMMA StepKeepsPromise ==
  ASSUME TypeOK, Targeting, PermitsBalanced, TargetsAreNew, AllTold,
         NEW t \in Requests, RequestStep(t)
  PROVE  Abs!Next \/ UNCHANGED Abs!absVars
<1> USE DEF PCs
<1>0. Told(t) /\ TargetIsNew(t)
  BY DEF AllTold, TargetsAreNew
<1>1. CASE Receive(t)
  <2>1. /\ pc[t] = "done" /\ GoTo(t, "routing") /\ target' = target
        /\ excluded' = [excluded EXCEPT ![t] = {}]
        /\ attempts' = [attempts EXCEPT ![t] = 0]
        /\ reply' = [reply EXCEPT ![t] = "none"]
    BY <1>1 DEF Receive
  <2>2. Stages[t] = "done" /\ Stages' = [Stages EXCEPT ![t] = "choosing"]
    BY <2>1, StageFollows DEF Stage
  <2>3. Serving' = Serving
    BY <2>1, ServingFollows, NotServing
  <2>4. Abs!Arrive(t)
    BY <2>1, <2>2, <2>3 DEF Abs!Arrive, Abs!MoveTo
  <2> QED
    BY <2>4 DEF Abs!Next
<1>2. CASE \/ Select(t) \/ Refused(t) \/ AtCapacity(t) \/ RestoreProbeSlot(t)
           \/ EnterCircuit(t) \/ ProbeAtCapacity(t)
  BY <1>2, ChoosingIsHidden DEF Abs!absVars
<1>3. CASE AcquirePermit(t)
  <2> DEFINE u == target[t]
  <2>1. /\ pc[t] = "acquiring" /\ GoTo(t, "inflight") /\ target' = target
        /\ permits[u] > 0 /\ u \in Upstreams /\ attempts[t] < MaxAttempts
        /\ attempts' = [attempts EXCEPT ![t] = @ + 1]
        /\ excluded' = excluded /\ reply' = reply
    BY <1>3 DEF AcquirePermit, Targeting
  <2>2. Stages[t] = "choosing" /\ Stages' = [Stages EXCEPT ![t] = "asking"]
    BY <2>1, StageFollows DEF Stage
  <2>3. Serving' = [Serving EXCEPT ![t] = u]
    BY <2>1, ServingFollows
  <2>4. u \notin excluded[t]
    BY <1>0, <2>1 DEF TargetIsNew
  <2>5. Cardinality(Abs!Served(u)) < MaxConcurrent
    <3>1. permits[u] + Cardinality(HoldersOf(u)) = MaxConcurrent /\ permits[u] \in Nat
      BY <2>1 DEF PermitsBalanced, TypeOK
    <3>2. Cardinality(HoldersOf(u)) \in Nat /\ MaxConcurrent \in Nat
      BY <2>1, HoldersFinite, ForwardingAssumption
    <3> QED
      BY <2>1, <3>1, <3>2, ServedAreHolders
  <2> HIDE DEF u
  <2>6. Abs!Send(t, u)
    BY <2>1, <2>2, <2>3, <2>4, <2>5, SameCount DEF Abs!Send, Abs!MoveTo
  <2> QED
    BY <2>1, <2>6 DEF Abs!Next
<1>4. ASSUME NEW ok \in BOOLEAN, NEW s \in Scores, Answer(t, ok, s)
      PROVE  Abs!Hear(t, ok)
  <2>1. /\ pc[t] = "inflight" /\ GoTo(t, "settled") /\ target' = target
        /\ reply' = [reply EXCEPT ![t] = IF ok THEN "ok" ELSE "upstream_error"]
        /\ excluded' = excluded /\ attempts' = attempts
    BY <1>4 DEF Answer, FireOnce
  <2>2. Stages[t] = "asking" /\ Stages' = [Stages EXCEPT ![t] = "answered"]
    BY <2>1, StageFollows DEF Stage
  <2>3. Serving' = Serving
    <3>1. \A s1 \in Requests : pc'[s1] \in {"inflight", "settled"} <=> pc[s1] \in {"inflight", "settled"}
      BY <2>1 DEF GoTo, TypeOK
    <3> QED
      BY <2>1, <3>1 DEF Serving
  <2> QED
    BY <2>1, <2>2, <2>3 DEF Abs!Hear, Abs!MoveTo
<1>5. ASSUME pc[t] \in {"inflight", "settled"}, EndAttempt(t),
             NEW where \in {"done", "routing"}, GoTo(t, where)
      PROVE  /\ Abs!LetGo(t) /\ attempts' = attempts /\ Serving[t] = target[t]
             /\ Stages' = [Stages EXCEPT ![t] = Stage(where)]
             /\ Stages[t] = Stage(pc[t])
  <2>1. \A s \in Requests \ {t} : target'[s] = target[s]
    BY <1>5 DEF EndAttempt, TypeOK
  <2>2. Serving' = [Serving EXCEPT ![t] = None]
    BY <1>5, <2>1, ServingFollows
  <2>3. Serving[t] = target[t]
    BY <1>5 DEF Serving
  <2> QED
    BY <1>5, <2>2, <2>3, StageFollows DEF EndAttempt, Abs!LetGo
<1>6. CASE Succeed(t)
  <2>1. /\ pc[t] = "settled" /\ reply[t] = "ok" /\ GoTo(t, "done") /\ EndAttempt(t)
        /\ excluded' = excluded /\ reply' = reply
    BY <1>6 DEF Succeed
  <2>2. Stages[t] = "answered" /\ Stages' = [Stages EXCEPT ![t] = "done"]
    BY <2>1, <1>5 DEF Stage
  <2>3. Abs!Deliver(t)
    BY <2>1, <2>2, <1>5 DEF Abs!Deliver, Abs!MoveTo
  <2> QED
    BY <2>3 DEF Abs!Next
<1>7. CASE Retry(t)
  <2>1. /\ pc[t] = "settled" /\ reply[t] # "ok" /\ GoTo(t, "routing") /\ EndAttempt(t)
        /\ excluded' = [excluded EXCEPT ![t] = IF RetryDifferent THEN @ \cup {target[t]} ELSE @]
        /\ reply' = reply
    BY <1>7 DEF Retry
  <2>2. Stages[t] = "answered" /\ Stages' = [Stages EXCEPT ![t] = "choosing"]
    BY <2>1, <1>5 DEF Stage
  <2>3. Abs!TryAgain(t)
    BY <2>1, <2>2, <1>5 DEF Abs!TryAgain, Abs!MoveTo
  <2> QED
    BY <2>3 DEF Abs!Next
<1>8. CASE GiveUp(t)
  <2>1. /\ pc[t] = "routing" /\ GoTo(t, "done") /\ target' = target
        /\ reply' = [reply EXCEPT ![t] = IF @ = "none" THEN "exhausted" ELSE @]
        /\ excluded' = excluded /\ attempts' = attempts
    BY <1>8 DEF GiveUp
  <2>2. Stages[t] = "choosing" /\ Stages' = [Stages EXCEPT ![t] = "done"]
    BY <2>1, StageFollows DEF Stage
  <2>3. Serving' = Serving
    BY <2>1, ServingFollows, NotServing
  <2>4. reply' = [reply EXCEPT
                    ![t] = IF attempts[t] = 0 THEN "exhausted" ELSE "upstream_error"]
    BY <1>0, <2>1 DEF Told
  <2>5. Abs!Fail(t)
    BY <2>1, <2>2, <2>3, <2>4 DEF Abs!Fail, Abs!MoveTo
  <2> QED
    BY <2>5 DEF Abs!Next
<1>9. ASSUME NEW why \in {"deadline", "gone"}, DropFuture(t, why)
      PROVE  Abs!Abandon(t, why)
  <2>1. /\ pc[t] = "inflight" /\ GoTo(t, "done") /\ EndAttempt(t)
        /\ excluded' = excluded /\ reply' = [reply EXCEPT ![t] = why]
    BY <1>9 DEF DropFuture
  <2>2. Stages[t] = "asking" /\ Stages' = [Stages EXCEPT ![t] = "done"]
    BY <2>1, <1>5 DEF Stage
  <2> QED
    BY <2>1, <2>2, <1>5 DEF Abs!Abandon, Abs!MoveTo
<1>10. CASE Expire(t) \/ Disconnect(t)
  BY <1>9, <1>10 DEF Expire, Disconnect, Abs!Next
<1>11. CASE \E ok \in BOOLEAN, s \in Scores : Answer(t, ok, s)
  BY <1>4, <1>11 DEF Abs!Next
<1> QED
  BY <1>1, <1>2, <1>3, <1>6, <1>7, <1>8, <1>10, <1>11 DEF RequestStep, RunsOn

LEMMA PromiseInit == Init => Abs!Init
BY DEF Init, Abs!Init, Stages, Stage, Serving

(* The forwarding core implements AbstractForwarding: whatever circuits,   *)
(* semaphores, scores and the leader do in between, each request is sent   *)
(* to one upstream after another, at most MaxAttempts times, to none over  *)
(* its cap and to none that has failed it, and is told what happened. *)
THEOREM ForwardingKeepsPromise == Spec => KeepsPromise
<1> DEFINE Inv == TypeOK /\ Targeting /\ PermitsBalanced
<1>1. Init => TargetsAreNew /\ AllTold
  BY DEF Init, TargetsAreNew, TargetIsNew, AllTold, Told
<1>2. Inv /\ TargetsAreNew /\ AllTold /\ [Next]_vars => TargetsAreNew' /\ AllTold'
  BY TargetsAreNewStep, AllToldStep
<1>3. Inv /\ TargetsAreNew /\ AllTold /\ [Next]_vars => [Abs!Next]_(Abs!absVars)
  <2> SUFFICES ASSUME Inv, TargetsAreNew, AllTold, [Next]_vars
               PROVE  Abs!Next \/ UNCHANGED Abs!absVars
    OBVIOUS
  <2>1. CASE \E t \in Requests : RequestStep(t)
    BY <2>1, StepKeepsPromise
  <2>2. ASSUME UNCHANGED <<pc, target, excluded, attempts, reply>>
        PROVE  UNCHANGED Abs!absVars
    BY <2>2 DEF Abs!absVars, Stages, Serving
  <2>3. CASE \E u \in Upstreams : UpstreamStep(u)
    BY <2>2, <2>3, UpstreamsStandApart DEF requestVars
  <2>4. CASE UNCHANGED vars
    BY <2>2, <2>4 DEF vars
  <2> QED
    BY <2>1, <2>3, <2>4 DEF Next
<1> QED
  BY <1>1, <1>2, <1>3, PromiseInit, ForwardingInductive, PTL DEF Spec, KeepsPromise, Abs!Spec

=============================================================================
