------------------------- MODULE HealthMonitorProofs -------------------------
(***************************************************************************)
(* What holds of HealthMonitor for every number of requests, every window, *)
(* threshold, cooldown and interval, and every delay of a recorder.        *)
(*                                                                         *)
(* The windows come first: what a push leaves in a queue that is not quite *)
(* sorted, and what it has to do with the latest error.                    *)
(***************************************************************************)
EXTENDS HealthMonitor, RollingWindowProofs, FiniteSetTheorems

-----------------------------------------------------------------------------
(* 1. Windows *)

LEMMA AgesAreNaturals ==
  /\ Window \in Nat /\ Delay \in Nat /\ MaxAge \in Nat
  /\ Window + 2 * Delay < MaxAge
  /\ \A e \in Outcomes : e.age \in 0..MaxAge /\ e.age \in Nat /\ e.err \in BOOLEAN
<1>1. Window \in Nat /\ Delay \in Nat
  BY MonitorAssumption
<1>2. MaxAge \in Nat /\ Window + 2 * Delay < MaxAge
  BY <1>1 DEF MaxAge
<1> QED
  BY <1>1, <1>2 DEF Outcomes

(* RollingWindowProofs, of outcomes. *)
LEMMA WhatAPushLeaves ==
  ASSUME NEW q \in Seq(Outcomes), NEW e \in Outcomes
  PROVE  LET p == Pushed(q, e, Window)
         IN /\ p \in Seq(Outcomes)
            /\ Len(p) \in Nat \ {0} /\ p[Len(p)] = e
            /\ p[1].age <= e.age + Window
            /\ \E k \in Nat : \A i \in 1..(Len(p) - 1) : i + k \in 1..Len(q) /\ p[i] = q[i + k]
<1>1. (\A x \in Outcomes : x.age \in Nat) /\ Window \in Nat
  BY AgesAreNaturals
<1>2. LeavesWindow(Outcomes, Pushed(q, e, Window), q, e, Window)
  BY <1>1, PushLeaves
<1> QED
  BY <1>2 DEF LeavesWindow

(* Sorted but for the delays of its recorders. *)
Sorted(q) == \A i, j \in 1..Len(q) : i < j => q[j].age <= q[i].age + Delay
NoOlder(q, n) == \A i \in 1..Len(q) : q[i].age <= n
ErrorsSince(q, n) == \A i \in 1..Len(q) : q[i].err => n <= q[i].age

LEMMA SortedPush ==
  ASSUME NEW q \in Seq(Outcomes), Sorted(q), NEW e \in Outcomes, e.age <= Delay
  PROVE  LET p == Pushed(q, e, Window)
         IN Sorted(p) /\ NoOlder(p, Window + 2 * Delay)
<1> DEFINE p == Pushed(q, e, Window)
<1>1. /\ p \in Seq(Outcomes) /\ Len(p) \in Nat \ {0} /\ p[Len(p)] = e
      /\ p[1].age <= e.age + Window
  BY WhatAPushLeaves
<1>2. PICK k \in Nat : \A i \in 1..(Len(p) - 1) : i + k \in 1..Len(q) /\ p[i] = q[i + k]
  BY WhatAPushLeaves
<1> HIDE DEF p
<1>3. \A i \in 1..Len(p) : p[i] \in Outcomes
  BY <1>1, ElementOfSeq
<1>4. \A i \in 1..Len(p) : p[i].age \in Nat
  BY <1>3, AgesAreNaturals
<1>5. e.age \in Nat /\ Delay \in Nat /\ Window \in Nat
  BY AgesAreNaturals
<1>6. ASSUME NEW i \in 1..Len(p), NEW j \in 1..Len(p), i < j
      PROVE  p[j].age <= p[i].age + Delay
  <2>1. CASE j = Len(p)
    BY <2>1, <1>1, <1>4, <1>5
  <2>2. CASE j # Len(p)
    <3>1. i \in 1..(Len(p) - 1) /\ j \in 1..(Len(p) - 1)
      BY <2>2, <1>1, <1>6
    <3>2. /\ i + k \in 1..Len(q) /\ j + k \in 1..Len(q) /\ i + k < j + k
          /\ p[i] = q[i + k] /\ p[j] = q[j + k]
      BY <3>1, <1>2, <1>6
    <3> QED BY <3>2 DEF Sorted
  <2> QED BY <2>1, <2>2
<1>7. ASSUME NEW j \in 1..Len(p) PROVE p[j].age <= Window + 2 * Delay
  <2>1. 1 \in 1..Len(p)
    BY <1>1
  <2>2. j = 1 \/ 1 < j
    BY <1>1
  <2>3. p[j].age <= p[1].age + Delay
    BY <2>1, <2>2, <1>4, <1>5, <1>6
  <2> QED BY <2>1, <2>3, <1>1, <1>4, <1>5
<1> QED
  BY <1>6, <1>7 DEF Sorted, NoOlder, p

LEMMA ErrorsPush ==
  ASSUME NEW q \in Seq(Outcomes), NEW e \in Outcomes, NEW n \in Nat, ErrorsSince(q, n)
  PROVE  ErrorsSince(Pushed(q, e, Window), IF e.err /\ e.age < n THEN e.age ELSE n)
<1> DEFINE p == Pushed(q, e, Window)
           m == IF e.err /\ e.age < n THEN e.age ELSE n
<1>1. /\ p \in Seq(Outcomes) /\ Len(p) \in Nat \ {0} /\ p[Len(p)] = e
  BY WhatAPushLeaves
<1>2. PICK k \in Nat : \A i \in 1..(Len(p) - 1) : i + k \in 1..Len(q) /\ p[i] = q[i + k]
  BY WhatAPushLeaves
<1> HIDE DEF p
<1>3. e.age \in Nat
  BY AgesAreNaturals
<1>4. m \in Nat /\ m <= n /\ (e.err => m <= e.age)
  BY <1>3
<1> HIDE DEF m
<1>5. ASSUME NEW i \in 1..Len(p), p[i].err PROVE m <= p[i].age
  <2>1. CASE i = Len(p)
    BY <2>1, <1>1, <1>4, <1>5
  <2>2. CASE i # Len(p)
    <3>1. i + k \in 1..Len(q) /\ p[i] = q[i + k]
      BY <2>2, <1>1, <1>2
    <3>2. n <= q[i + k].age
      BY <3>1, <1>5 DEF ErrorsSince
    <3>3. q[i + k].age \in Nat
      BY <3>1, ElementOfSeq, AgesAreNaturals
    <3> QED BY <3>1, <3>2, <3>3, <1>4
  <2> QED BY <2>1, <2>2
<1> QED
  BY <1>5 DEF ErrorsSince, p, m

(* A tick: every age grows by one, up to MaxAge. *)
Later(n) == IF n < MaxAge THEN n + 1 ELSE n
LEMMA WhatATickLeaves ==
  ASSUME NEW q \in Seq(Outcomes)
  PROVE  LET p == Aged(q, MaxAge)
         IN /\ p \in Seq(Outcomes) /\ Len(p) = Len(q)
            /\ \A i \in 1..Len(q) : p[i].age = Later(q[i].age) /\ p[i].err = q[i].err
<1>1. ASSUME NEW e \in Outcomes
      PROVE  /\ Older1(e, MaxAge) \in Outcomes
             /\ Older1(e, MaxAge).age = Later(e.age) /\ Older1(e, MaxAge).err = e.err
  <2>1. e.age \in 0..MaxAge /\ MaxAge \in Nat
    BY AgesAreNaturals
  <2>2. Older1(e, MaxAge).age = Later(e.age) /\ Older1(e, MaxAge).err = e.err
    BY DEF Outcomes, Later, Older1
  <2>3. Later(e.age) \in 0..MaxAge
    BY <2>1 DEF Later
  <2>4. Older1(e, MaxAge) = [age |-> Later(e.age), err |-> e.err]
    BY DEF Outcomes, Later, Older1
  <2> QED BY <2>2, <2>3, <2>4, AgesAreNaturals DEF Outcomes
<1>2. \A i \in 1..Len(q) : q[i] \in Outcomes
  BY ElementOfSeq
<1>3. LeavesAged(Outcomes, Aged(q, MaxAge), q, MaxAge)
  BY <1>1, TickLeaves
<1> QED
  BY <1>1, <1>2, <1>3 DEF LeavesAged

LEMMA SortedTick ==
  ASSUME NEW q \in Seq(Outcomes), NEW n \in 0..MaxAge, Sorted(q), ErrorsSince(q, n)
  PROVE  Sorted(Aged(q, MaxAge)) /\ ErrorsSince(Aged(q, MaxAge), Later(n))
<1> DEFINE p == Aged(q, MaxAge)
<1>1. /\ Len(p) = Len(q) /\ Len(q) \in Nat
      /\ \A i \in 1..Len(q) : p[i].age = Later(q[i].age) /\ p[i].err = q[i].err
  BY WhatATickLeaves, LenProperties
<1> HIDE DEF p
<1>2. \A i \in 1..Len(q) : q[i].age \in 0..MaxAge
  BY ElementOfSeq, AgesAreNaturals
<1>3. Delay \in Nat /\ MaxAge \in Nat
  BY AgesAreNaturals
<1>4. ASSUME NEW a \in 0..MaxAge, NEW b \in 0..MaxAge
      PROVE  /\ b <= a + Delay => Later(b) <= Later(a) + Delay
             /\ a <= b => Later(a) <= Later(b)
  BY <1>3 DEF Later
<1>5. ASSUME NEW i \in 1..Len(q), NEW j \in 1..Len(q), i < j
      PROVE  p[j].age <= p[i].age + Delay
  <2>1. q[j].age <= q[i].age + Delay
    BY <1>5 DEF Sorted
  <2> QED BY <2>1, <1>1, <1>2, <1>4
<1>6. ASSUME NEW i \in 1..Len(q), p[i].err PROVE Later(n) <= p[i].age
  <2>1. n <= q[i].age
    BY <1>1, <1>6 DEF ErrorsSince
  <2> QED BY <2>1, <1>1, <1>2, <1>4
<1> QED
  BY <1>1, <1>5, <1>6 DEF Sorted, ErrorsSince, p

(* A rate above the threshold takes an error. *)
LEMMA ARateTakesAnError ==
  ASSUME NEW q \in Seq(Outcomes), ErrorRateExceeds(q, Threshold)
  PROVE  \E i \in 1..Len(q) : q[i].err
<1> SUFFICES ASSUME ~\E i \in 1..Len(q) : q[i].err PROVE FALSE
  OBVIOUS
<1>1. DOMAIN q = 1..Len(q) /\ Len(q) \in Nat
  BY LenProperties
<1>2. Errors(q) = {}
  BY <1>1 DEF Errors
<1>3. Cardinality(Errors(q)) = 0
  BY <1>2, FS_EmptySet
<1>4. 100 * 0 > Threshold * Len(q)
  BY <1>3 DEF ErrorRateExceeds
<1>5. Threshold * Len(q) >= 0
  <2>1. Threshold \in Nat
    BY MonitorAssumption
  <2> QED BY <2>1, <1>1
<1> QED
  BY <1>4, <1>5, <1>1, MonitorAssumption

-----------------------------------------------------------------------------
(* 2. The invariants *)

(* No recorder is late by more than Delay. *)
InTime == poll.age <= Delay /\ \A t \in Requests : outcome[t].age <= Delay

(* The window of outcomes. *)
Kept ==
  /\ Sorted(window)
  /\ ErrorsSince(window, lastError)
  /\ monitor \in {"raising", "checking"} => NoOlder(window, Window + 2 * Delay)
  /\ OnlyRecentErrorsTrip

(* The tip, and what the monitor has read of it. *)
TipIsRight ==
  /\ TipCoversReports
  /\ monitor = "recording" /\ poll.err => last_slot <= tip
  /\ tipRead <= tip

MInv == TypeOK /\ InTime /\ Kept /\ TipIsRight

(* The methods of Upstream keep a circuit in one of its shapes. *)
LEMMA CircuitShapes ==
  ASSUME NEW N \in Nat, NEW c \in CircuitStates(N), NEW ok \in BOOLEAN
  PROVE  /\ Open(N) \in CircuitStates(N)
         /\ Entered(c) \in CircuitStates(N)
         /\ Settled(c, ok, N) \in CircuitStates(N)
         /\ Cooled(c) \in CircuitStates(N)
<1>1. /\ Open(N) \in CircuitStates(N)
      /\ HalfOpen(TRUE) \in CircuitStates(N)
      /\ Closed \in CircuitStates(N)
  BY DEF CircuitStates, Open, HalfOpen, Closed
<1>2. Entered(c) \in {c, HalfOpen(TRUE)} /\ Settled(c, ok, N) \in {c, Closed, Open(N)}
  BY DEF Entered, Settled
<1>3. Cooled(c) \in CircuitStates(N)
  BY DEF CircuitStates, Cooled, IsDropped, Open
<1> QED
  BY <1>1, <1>2, <1>3

LEMMA FreshOutcomes ==
  ASSUME NEW err \in BOOLEAN
  PROVE  Fresh(err) \in Outcomes /\ Fresh(err).age = 0 /\ Fresh(err).err = err
BY AgesAreNaturals DEF Fresh, Outcomes

LEMMA MInvInit == Init => MInv
<1> SUFFICES ASSUME Init PROVE MInv
  OBVIOUS
<1>1. /\ Fresh(FALSE) \in Outcomes /\ Fresh(FALSE).age = 0
      /\ Delay \in Nat /\ MaxAge \in Nat
  BY FreshOutcomes, AgesAreNaturals
<1>2. window \in Seq(Outcomes) /\ Len(window) = 0
  BY EmptySeq DEF Init
<1>3. 0 \in Slots /\ Interval \in 0..Interval /\ Closed \in CircuitStates(Cooldown)
  BY MonitorAssumption DEF Slots, CircuitStates, Closed
<1> DEFINE f == Fresh(FALSE)
<1>a. f \in Outcomes /\ f.age = 0
  BY <1>1
<1>b. poll = f /\ outcome = [t \in Requests |-> f]
  BY DEF Init
<1> HIDE DEF f
<1>4. TypeOK
  <2>1. poll \in Outcomes /\ outcome \in [Requests -> Outcomes]
    BY <1>a, <1>b
  <2>2. /\ pc \in [Requests -> {"idle", "inflight", "recording", "recorded"}]
        /\ probe \in [Requests -> BOOLEAN]
        /\ up \in BOOLEAN /\ cleared \in {"no", "tripped", "readmitted"}
    BY DEF Init
  <2>3. /\ last_slot \in Slots /\ tip \in Slots /\ tipRead \in Slots
        /\ lastError \in 0..MaxAge /\ sleep \in 0..Interval
        /\ circuit \in CircuitStates(Cooldown)
    BY <1>1, <1>3 DEF Init
  <2> QED BY <2>1, <2>2, <2>3, <1>2 DEF Init, TypeOK
<1>5. InTime
  BY <1>1, <1>a, <1>b DEF InTime
<1>6. Kept
  BY <1>2 DEF Init, Kept, Sorted, ErrorsSince, OnlyRecentErrorsTrip
<1>7. TipIsRight
  BY DEF Init, TipIsRight, TipCoversReports
<1> QED
  BY <1>4, <1>5, <1>6, <1>7 DEF MInv

(* Recording an outcome in time. *)
LEMMA RecordKeeps ==
  ASSUME TypeOK, Kept, NEW e \in Outcomes, e.age <= Delay, Record(e)
  PROVE  /\ window' \in Seq(Outcomes) /\ Sorted(window')
         /\ NoOlder(window', Window + 2 * Delay)
         /\ lastError' \in 0..MaxAge /\ lastError' <= lastError
         /\ ErrorsSince(window', lastError')
         /\ cleared' \in {"no", "tripped", "readmitted"}
<1>1. window \in Seq(Outcomes) /\ lastError \in 0..MaxAge /\ cleared \in {"no", "tripped", "readmitted"}
  BY DEF TypeOK
<1>2. e.age \in 0..MaxAge /\ e.err \in BOOLEAN /\ MaxAge \in Nat
  BY AgesAreNaturals
<1>3. /\ window' = Pushed(window, e, Window)
      /\ lastError' = IF e.err /\ e.age < lastError THEN e.age ELSE lastError
      /\ cleared' = IF e.err THEN "no" ELSE cleared
  BY DEF Record
<1>4. window' \in Seq(Outcomes)
  BY <1>1, <1>3, WhatAPushLeaves
<1>5. Sorted(window') /\ NoOlder(window', Window + 2 * Delay)
  BY <1>1, <1>3, SortedPush DEF Kept
<1>6. lastError' \in 0..MaxAge /\ lastError' <= lastError
  BY <1>1, <1>2, <1>3
<1>7. ErrorsSince(window', lastError')
  <2>1. lastError \in Nat /\ ErrorsSince(window, lastError)
    BY <1>1, <1>2 DEF Kept
  <2>2. ErrorsSince(Pushed(window, e, Window), IF e.err /\ e.age < lastError THEN e.age ELSE lastError)
    BY <2>1, <1>1, ErrorsPush
  <2> QED BY <2>2, <1>3
<1>8. cleared' \in {"no", "tripped", "readmitted"}
  BY <1>1, <1>3
<1> QED
  BY <1>4, <1>5, <1>6, <1>7, <1>8

LEMMA Types ==
  ASSUME TypeOK
  PROVE  /\ up \in BOOLEAN /\ cleared \in {"no", "tripped", "readmitted"}
         /\ window \in Seq(Outcomes)
         /\ circuit \in CircuitStates(Cooldown) /\ Cooldown \in Nat
         /\ pc \in [Requests -> {"idle", "inflight", "recording", "recorded"}]
         /\ probe \in [Requests -> BOOLEAN]
         /\ outcome \in [Requests -> Outcomes]
         /\ poll \in Outcomes
         /\ sleep \in 0..Interval /\ Interval \in Nat
         /\ last_slot \in Nat /\ tip \in Nat /\ tipRead \in Nat
         /\ lastError \in 0..MaxAge
BY MonitorAssumption DEF TypeOK, Slots

(* What a step that neither records nor lets a tick pass leaves of Kept. *)
LEMMA KeptOtherwise ==
  ASSUME Kept, UNCHANGED <<window, lastError>>,
         monitor' \in {"raising", "checking"} => monitor \in {"raising", "checking"},
         monitor' = "tripping" => monitor = "tripping"
  PROVE  Kept'
<1>1. NoOlder(window, Window + 2 * Delay) => NoOlder(window', Window + 2 * Delay)
  OBVIOUS
<1>2. Sorted(window') /\ ErrorsSince(window', lastError')
  BY DEF Kept
<1>3. OnlyRecentErrorsTrip'
  BY DEF Kept, OnlyRecentErrorsTrip
<1> QED
  BY <1>1, <1>2, <1>3 DEF Kept

LEMMA InTimeOtherwise == InTime /\ UNCHANGED <<poll, outcome>> => InTime'
BY DEF InTime

LEMMA TipOtherwise ==
  ASSUME TipIsRight, UNCHANGED slotVars,
         monitor \in {"recording", "raising"} => monitor' = monitor,
         monitor' = "recording" => monitor = "recording" /\ poll' = poll
  PROVE  TipIsRight'
BY DEF TipIsRight, TipCoversReports, slotVars

LEMMA MInvStep == MInv /\ [Next]_vars => MInv'
<1> SUFFICES ASSUME TypeOK, InTime, Kept, TipIsRight, [Next]_vars PROVE MInv'
  BY DEF MInv
<1>1. ASSUME Flip PROVE MInv'
  <2>1. up' = ~up /\ UNCHANGED <<window, circuit, requestVars, monitorVars, slotVars, lastError, cleared>>
    BY <1>1 DEF Flip
  <2>2. up' \in BOOLEAN
    BY <2>1, Types
  <2>3. TypeOK'
    BY <2>1, <2>2 DEF TypeOK, requestVars, monitorVars, slotVars
  <2> QED BY <2>1, <2>3, KeptOtherwise, InTimeOtherwise, TipOtherwise
          DEF MInv, requestVars, monitorVars
<1>2. ASSUME NEW t \in Requests, Send(t) PROVE MInv'
  <2>1. circuit' \in CircuitStates(Cooldown)
    BY <1>2, CircuitShapes, Types DEF Send
  <2>2. /\ probe' \in [Requests -> BOOLEAN]
        /\ pc' \in [Requests -> {"idle", "inflight", "recording", "recorded"}]
    BY <1>2, Types DEF Send, BecomesProbe
  <2>3. UNCHANGED <<up, window, outcome, monitorVars, slotVars, lastError, cleared>>
    BY <1>2 DEF Send
  <2>4. TypeOK'
    BY <2>1, <2>2, <2>3 DEF TypeOK, monitorVars, slotVars
  <2> QED BY <2>3, <2>4, KeptOtherwise, InTimeOtherwise, TipOtherwise DEF MInv, monitorVars
<1>3. ASSUME NEW t \in Requests, NEW err \in BOOLEAN, Answer(t, err) PROVE MInv'
  <2>1. PICK f \in Outcomes : f.age = 0 /\ outcome' = [outcome EXCEPT ![t] = f]
    BY <1>3, FreshOutcomes DEF Answer
  <2>2. outcome' \in [Requests -> Outcomes]
    BY <2>1, Types
  <2>3. pc' \in [Requests -> {"idle", "inflight", "recording", "recorded"}]
    BY <1>3, Types DEF Answer
  <2>4. UNCHANGED <<up, window, circuit, probe, monitorVars, slotVars, lastError, cleared>>
    BY <1>3 DEF Answer
  <2>5. TypeOK'
    BY <2>2, <2>3, <2>4 DEF TypeOK, monitorVars, slotVars
  <2>6. InTime'
    BY <2>1, <2>4, AgesAreNaturals, Types DEF InTime, monitorVars
  <2> QED BY <2>4, <2>5, <2>6, KeptOtherwise, TipOtherwise DEF MInv, monitorVars
<1>4. ASSUME NEW t \in Requests, RecordAnswer(t) PROVE MInv'
  <2>1. Record(outcome[t]) /\ outcome[t] \in Outcomes /\ outcome[t].age <= Delay
    BY <1>4, Types DEF RecordAnswer, InTime
  <2>2. UNCHANGED <<up, circuit, probe, outcome, monitorVars, slotVars>>
    BY <1>4 DEF RecordAnswer
  <2>3. pc' \in [Requests -> {"idle", "inflight", "recording", "recorded"}]
    BY <1>4, Types DEF RecordAnswer
  <2>4. /\ window' \in Seq(Outcomes) /\ Sorted(window')
        /\ NoOlder(window', Window + 2 * Delay)
        /\ lastError' \in 0..MaxAge /\ lastError' <= lastError
        /\ ErrorsSince(window', lastError') /\ cleared' \in {"no", "tripped", "readmitted"}
    BY <2>1, RecordKeeps
  <2>5. TypeOK'
    BY <2>2, <2>3, <2>4 DEF TypeOK, monitorVars, slotVars
  <2>6. OnlyRecentErrorsTrip'
    <3>1. Window \in Nat /\ Delay \in Nat /\ MaxAge \in Nat /\ lastError \in Nat /\ lastError' \in Nat
      BY <2>4, Types, AgesAreNaturals
    <3> QED BY <3>1, <2>2, <2>4 DEF Kept, OnlyRecentErrorsTrip, monitorVars
  <2>7. Kept'
    BY <2>4, <2>6 DEF Kept
  <2> QED BY <2>2, <2>5, <2>7, InTimeOtherwise, TipOtherwise DEF MInv, monitorVars
<1>5. ASSUME NEW t \in Requests, Settle(t) PROVE MInv'
  <2>1. (~outcome[t].err) \in BOOLEAN
    OBVIOUS
  <2>2. circuit' \in CircuitStates(Cooldown)
    BY <1>5, <2>1, CircuitShapes, Types DEF Settle
  <2>3. PICK f \in Outcomes : f.age = 0 /\ outcome' = [outcome EXCEPT ![t] = f]
    BY <1>5, FreshOutcomes DEF Settle
  <2>4. outcome' \in [Requests -> Outcomes]
    BY <2>3, Types
  <2>5. /\ probe' \in [Requests -> BOOLEAN]
        /\ pc' \in [Requests -> {"idle", "inflight", "recording", "recorded"}]
        /\ cleared' \in {"no", "tripped", "readmitted"}
    BY <1>5, Types DEF Settle
  <2>6. UNCHANGED <<up, window, monitorVars, slotVars, lastError>>
    BY <1>5 DEF Settle
  <2>7. TypeOK'
    BY <2>2, <2>4, <2>5, <2>6 DEF TypeOK, monitorVars, slotVars
  <2>8. InTime'
    BY <2>3, <2>6, AgesAreNaturals, Types DEF InTime, monitorVars
  <2> QED BY <2>6, <2>7, <2>8, KeptOtherwise, TipOtherwise DEF MInv, monitorVars
<1>6. ASSUME NEW t \in Requests, Drop(t) PROVE MInv'
  <2>1. /\ probe' \in [Requests -> BOOLEAN]
        /\ pc' \in [Requests -> {"idle", "inflight", "recording", "recorded"}]
    BY <1>6, Types DEF Drop
  <2>2. UNCHANGED <<up, window, circuit, outcome, monitorVars, slotVars, lastError, cleared>>
    BY <1>6 DEF Drop
  <2>3. TypeOK'
    BY <2>1, <2>2 DEF TypeOK, monitorVars, slotVars
  <2> QED BY <2>2, <2>3, KeptOtherwise, InTimeOtherwise, TipOtherwise DEF MInv, monitorVars
<1> DEFINE Quiet == UNCHANGED <<up, pc, probe, outcome, window, lastError, cleared>>
<1>7. ASSUME Wake PROVE MInv'
  <2>1. Quiet /\ UNCHANGED <<circuit, sleep, poll, slotVars>>
        /\ monitor = "sleeping" /\ monitor' = "polling"
    BY <1>7 DEF Wake, MonitorGoes, poolVars, requestVars
  <2>2. TypeOK'
    BY <2>1 DEF TypeOK, slotVars
  <2> QED BY <2>1, <2>2, KeptOtherwise, InTimeOtherwise, TipOtherwise DEF MInv
<1>8. ASSUME NEW s \in Slots, PollAnswered(s) PROVE MInv'
  <2>1. /\ Quiet /\ UNCHANGED <<circuit, sleep, tip, tipRead>>
        /\ monitor = "polling" /\ monitor' = "recording" /\ last_slot' = s
    BY <1>8 DEF PollAnswered, MonitorGoes, poolVars, requestVars
  <2>2. poll' \in Outcomes /\ poll'.age = 0 /\ poll'.err = FALSE
    BY <1>8, FreshOutcomes DEF PollAnswered
  <2>3. TypeOK'
    BY <2>1, <2>2 DEF TypeOK
  <2>4. InTime'
    BY <2>1, <2>2, AgesAreNaturals DEF InTime
  <2>5. TipIsRight'
    BY <2>1, <2>2 DEF TipIsRight, TipCoversReports
  <2> QED BY <2>1, <2>3, <2>4, <2>5, KeptOtherwise DEF MInv
<1>9. ASSUME PollFailed PROVE MInv'
  <2>1. /\ Quiet /\ UNCHANGED <<circuit, sleep, slotVars>>
        /\ monitor = "polling" /\ monitor' = "recording"
    BY <1>9 DEF PollFailed, MonitorGoes, poolVars, requestVars
  <2>2. poll' \in Outcomes /\ poll'.age = 0
    BY <1>9, FreshOutcomes DEF PollFailed
  <2>3. TypeOK'
    BY <2>1, <2>2 DEF TypeOK, slotVars
  <2>4. InTime'
    BY <2>1, <2>2, AgesAreNaturals DEF InTime
  <2>5. TipIsRight'
    BY <2>1 DEF TipIsRight, TipCoversReports, slotVars
  <2> QED BY <2>1, <2>3, <2>4, <2>5, KeptOtherwise DEF MInv
<1>10. ASSUME RecordPoll PROVE MInv'
  <2>1. /\ Record(poll) /\ poll \in Outcomes /\ poll.age <= Delay
        /\ UNCHANGED <<up, pc, probe, outcome, circuit, sleep, last_slot, tip>>
        /\ monitor = "recording"
        /\ monitor' = IF poll.err THEN "checking" ELSE "raising"
        /\ tipRead' = IF poll.err THEN 0 ELSE tip
    BY <1>10, Types DEF RecordPoll, MonitorGoes, poolVars, requestVars, InTime
  <2>2. /\ window' \in Seq(Outcomes) /\ Sorted(window')
        /\ NoOlder(window', Window + 2 * Delay)
        /\ lastError' \in 0..MaxAge
        /\ ErrorsSince(window', lastError') /\ cleared' \in {"no", "tripped", "readmitted"}
    BY <2>1, RecordKeeps
  <2>3. poll' \in Outcomes /\ poll'.age = 0
    BY <1>10, FreshOutcomes DEF RecordPoll
  <2>4. tipRead' \in Slots
    BY <2>1, MonitorAssumption DEF TypeOK, Slots
  <2>5. monitor' \in {"raising", "checking"}
    BY <2>1
  <2>6. TypeOK'
    BY <2>1, <2>2, <2>3, <2>4, <2>5 DEF TypeOK
  <2>7. InTime'
    BY <2>1, <2>3, AgesAreNaturals DEF InTime
  <2>8. Kept'
    BY <2>2, <2>5 DEF Kept, OnlyRecentErrorsTrip
  <2>9. TipIsRight'
    BY <2>1, <2>5, Types DEF TipIsRight, TipCoversReports
  <2> QED BY <2>6, <2>7, <2>8, <2>9 DEF MInv
<1>11. ASSUME RaiseTip PROVE MInv'
  <2>1. /\ Quiet /\ UNCHANGED <<circuit, sleep, poll, last_slot>>
        /\ monitor = "raising" /\ monitor' = "checking"
        /\ last_slot <= tipRead \/ tipRead = tip
        /\ tip' = (IF last_slot > tipRead THEN last_slot ELSE tip) /\ tipRead' = 0
    BY <1>11 DEF RaiseTip, MonitorGoes, poolVars, requestVars
  <2>2. tip' \in Slots /\ tipRead' \in Slots
    BY <2>1, MonitorAssumption DEF TypeOK, Slots
  <2>3. TypeOK'
    BY <2>1, <2>2 DEF TypeOK
  <2>4. TipIsRight'
    BY <2>1, Types DEF TipIsRight, TipCoversReports
  <2> QED BY <2>1, <2>3, <2>4, KeptOtherwise, InTimeOtherwise DEF MInv
<1>12. ASSUME RaiseTipAgain PROVE MInv'
  <2>1. /\ Quiet /\ UNCHANGED <<circuit, sleep, poll, last_slot, tip>>
        /\ monitor = "raising" /\ monitor' = "raising" /\ tipRead' = tip
    BY <1>12 DEF RaiseTipAgain, MonitorGoes, poolVars, requestVars
  <2>2. TypeOK'
    BY <2>1 DEF TypeOK
  <2>3. TipIsRight'
    BY <2>1, Types DEF TipIsRight, TipCoversReports
  <2> QED BY <2>1, <2>2, <2>3, KeptOtherwise, InTimeOtherwise DEF MInv
<1>13. ASSUME Check PROVE MInv'
  <2>1. /\ Quiet /\ UNCHANGED <<circuit, sleep, poll, slotVars>>
        /\ monitor = "checking" /\ monitor' \in {"tripping", "seeding"}
        /\ monitor' = "tripping" => ErrorRateExceeds(window, Threshold)
    BY <1>13 DEF Check, MonitorGoes, poolVars, requestVars
  <2>2. TypeOK'
    BY <2>1 DEF TypeOK, slotVars
  <2>3. ASSUME monitor' = "tripping" PROVE lastError <= Window + 2 * Delay
    <3>1. PICK i \in 1..Len(window) : window[i].err
      BY <2>1, <2>3, ARateTakesAnError, Types
    <3>2. lastError <= window[i].age /\ window[i].age <= Window + 2 * Delay
      BY <2>1, <3>1 DEF Kept, ErrorsSince, NoOlder
    <3>3. window[i] \in Outcomes
      BY Types, ElementOfSeq
    <3>4. window[i].age \in Nat /\ lastError \in 0..MaxAge /\ Window \in Nat /\ Delay \in Nat
      BY <3>3, Types, AgesAreNaturals
    <3> QED BY <3>2, <3>4
  <2>4. OnlyRecentErrorsTrip'
    BY <2>1, <2>3 DEF OnlyRecentErrorsTrip
  <2>5. Sorted(window') /\ ErrorsSince(window', lastError')
    BY <2>1 DEF Kept
  <2>6. Kept'
    BY <2>1, <2>4, <2>5 DEF Kept
  <2> QED BY <2>1, <2>2, <2>6, InTimeOtherwise, TipOtherwise DEF MInv
<1>14. ASSUME Trip PROVE MInv'
  <2>1. /\ UNCHANGED <<up, pc, probe, outcome, window, lastError, sleep, poll, slotVars>>
        /\ monitor = "tripping" /\ monitor' = "seeding"
        /\ circuit' = Open(Cooldown) /\ cleared' = "tripped"
    BY <1>14 DEF Trip, MonitorGoes, poolVars, requestVars
  <2>2. circuit' \in CircuitStates(Cooldown)
    BY <2>1, CircuitShapes, Types
  <2>3. TypeOK'
    BY <2>1, <2>2 DEF TypeOK, slotVars
  <2> QED BY <2>1, <2>3, KeptOtherwise, InTimeOtherwise, TipOtherwise DEF MInv
<1>15. ASSUME Seed PROVE MInv'
  <2>1. /\ Quiet /\ UNCHANGED <<circuit, poll, slotVars>>
        /\ monitor = "seeding" /\ monitor' = "sleeping" /\ sleep' = Interval
    BY <1>15 DEF Seed, MonitorGoes, poolVars, requestVars
  <2>2. sleep' \in 0..Interval
    BY <2>1, Types
  <2>3. TypeOK'
    BY <2>1, <2>2 DEF TypeOK, slotVars
  <2> QED BY <2>1, <2>3, KeptOtherwise, InTimeOtherwise, TipOtherwise DEF MInv
<1>16. ASSUME NEW s \in Slots, OtherMonitor(s) PROVE MInv'
  <2>1. /\ Quiet /\ UNCHANGED <<circuit, monitorVars, last_slot, tipRead>>
        /\ s > tip /\ tip' = s
    BY <1>16 DEF OtherMonitor, poolVars, requestVars
  <2>2. TypeOK'
    BY <2>1 DEF TypeOK, monitorVars
  <2>3. TipIsRight'
    <3>1. s \in Nat
      BY MonitorAssumption DEF Slots
    <3> QED BY <2>1, <3>1, Types DEF TipIsRight, TipCoversReports, monitorVars
  <2> QED BY <2>1, <2>2, <2>3, KeptOtherwise, InTimeOtherwise DEF MInv, monitorVars
<1>17. ASSUME Tick PROVE MInv'
  <2>1. /\ window' = Aged(window, MaxAge)
        /\ circuit' = Cooled(circuit)
        /\ sleep' = IF monitor = "sleeping" THEN sleep - 1 ELSE sleep
        /\ lastError' = Later(lastError)
        /\ UNCHANGED <<up, pc, probe, monitor, slotVars, cleared>>
    BY <1>17 DEF Tick, Later
  <2>2. /\ monitor \in {"polling", "recording", "seeding"} \/ (monitor = "sleeping" /\ sleep > 0)
        /\ monitor = "recording" => poll.age < Delay
        /\ \A t \in Requests : pc[t] = "recording" => outcome[t].age < Delay
    BY <1>17 DEF Tick, Waiting, MayWait
  <2>3. ASSUME NEW e \in Outcomes, e.age < Delay
        PROVE  /\ Older(e) \in Outcomes /\ Older(e).age <= Delay
               /\ Older(e).err = e.err
    <3>1. e.age \in Nat /\ Delay \in Nat /\ MaxAge \in Nat /\ Delay <= MaxAge /\ e.err \in BOOLEAN
      BY AgesAreNaturals
    <3>2. Older(e) = [age |-> e.age + 1, err |-> e.err]
      BY DEF Older, Outcomes
    <3> QED BY <2>3, <3>1, <3>2 DEF Outcomes
  <2>4. /\ poll' = IF monitor = "recording" THEN Older(poll) ELSE poll
        /\ outcome' = [t \in Requests |->
                        IF pc[t] = "recording" THEN Older(outcome[t]) ELSE outcome[t]]
    BY <1>17 DEF Tick
  <2>5. poll' \in Outcomes /\ poll'.age <= Delay /\ poll'.err = poll.err
    BY <2>2, <2>3, <2>4, Types DEF InTime
  <2>6. ASSUME NEW t \in Requests
        PROVE  outcome'[t] \in Outcomes /\ outcome'[t].age <= Delay
    BY <2>2, <2>3, <2>4, Types DEF InTime
  <2>7. outcome' \in [Requests -> Outcomes]
    BY <2>4, <2>6
  <2>8. window' \in Seq(Outcomes)
    BY <2>1, WhatATickLeaves, Types
  <2>9. sleep' \in 0..Interval /\ lastError' \in 0..MaxAge
    BY <2>1, <2>2, Types, AgesAreNaturals DEF Later
  <2>10. circuit' \in CircuitStates(Cooldown)
    BY <2>1, CircuitShapes, Types
  <2>11. TypeOK'
    BY <2>1, <2>5, <2>7, <2>8, <2>9, <2>10 DEF TypeOK, slotVars
  <2>12. InTime'
    BY <2>5, <2>6 DEF InTime
  <2>13. Sorted(window') /\ ErrorsSince(window', lastError')
    BY <2>1, SortedTick, Types DEF Kept
  <2>14. Kept'
    BY <2>1, <2>2, <2>13 DEF Kept, OnlyRecentErrorsTrip
  <2>15. TipIsRight'
    BY <2>1, <2>5 DEF TipIsRight, TipCoversReports, slotVars
  <2> QED BY <2>11, <2>12, <2>14, <2>15 DEF MInv
<1>18. ASSUME UNCHANGED vars PROVE MInv'
  <2>1. TypeOK'
    BY <1>18 DEF vars, requestVars, monitorVars, slotVars, TypeOK
  <2> QED BY <1>18, <2>1, KeptOtherwise, InTimeOtherwise, TipOtherwise
          DEF MInv, vars, requestVars, monitorVars
<1> QED
  BY <1>1, <1>2, <1>3, <1>4, <1>5, <1>6, <1>7, <1>8, <1>9, <1>10, <1>11, <1>12, <1>13, <1>14,
     <1>15, <1>16, <1>17, <1>18
  DEF Next, RequestStep, RequestRunsOn, MonitorRunsOn, PollEnds

THEOREM MonitorInvariant == Spec => []MInv
<1> QED
  BY MInvInit, MInvStep, PTL DEF Spec

-----------------------------------------------------------------------------
(* 3. What follows *)

(* Types: no age is above MaxAge, no wait above the interval. *)
THEOREM MonitorTypes == Spec => []TypeOK
<1>1. MInv => TypeOK
  BY DEF MInv
<1> QED
  BY <1>1, MonitorInvariant, PTL

(* Recorders that read their clock before they hold the queue's lock can   *)
(* push out of order, but by no more than they were held up.               *)
THEOREM WindowIsNearlySorted == Spec => []NearlySorted
<1>1. MInv => NearlySorted
  <2> SUFFICES ASSUME MInv PROVE NearlySorted
    OBVIOUS
  <2>1. DOMAIN window = 1..Len(window)
    BY Types, LenProperties DEF MInv
  <2> QED BY <2>1 DEF MInv, Kept, Sorted, NearlySorted
<1> QED
  BY <1>1, MonitorInvariant, PTL

(* Pruning from the front, on push only, is enough for the check: what it  *)
(* counts is no older than the window and twice the delay.                 *)
THEOREM RateIsRecent == Spec => []CheckedWindowIsRecent
<1>1. MInv => CheckedWindowIsRecent
  <2> SUFFICES ASSUME MInv PROVE CheckedWindowIsRecent
    OBVIOUS
  <2>1. DOMAIN window = 1..Len(window)
    BY Types, LenProperties DEF MInv
  <2> QED BY <2>1 DEF MInv, Kept, NoOlder, CheckedWindowIsRecent
<1> QED
  BY <1>1, MonitorInvariant, PTL

(* An upstream is tripped for an error of about the last window, or not at *)
(* all, for any threshold, even 0.                                         *)
THEOREM TripsHaveARecentCause == Spec => []OnlyRecentErrorsTrip
<1>1. MInv => OnlyRecentErrorsTrip
  BY DEF MInv, Kept
<1> QED
  BY <1>1, MonitorInvariant, PTL

(* The compare-and-swap loop leaves the tip no lower than the slot it was  *)
(* run for, however the other monitors interfere.                          *)
THEOREM TipCovers == Spec => []TipCoversReports
<1>1. MInv => TipCoversReports
  BY DEF MInv, TipIsRight
<1> QED
  BY <1>1, MonitorInvariant, PTL

(* And it never lowers the tip. *)
THEOREM TipOnlyRises == Spec => TipNeverGoesDown
<1>1. ASSUME MInv, [Next]_vars PROVE tip <= tip'
  <2>1. tip \in Nat /\ last_slot \in Nat /\ tipRead \in Nat
    BY <1>1, Types DEF MInv
  <2>2. CASE RaiseTip
    BY <2>1, <2>2 DEF RaiseTip
  <2>3. CASE \E s \in Slots : OtherMonitor(s)
    <3>1. Slots \subseteq Nat
      BY MonitorAssumption DEF Slots
    <3> QED BY <2>1, <2>3, <3>1 DEF OtherMonitor
  <2>4. CASE ~RaiseTip /\ ~\E s \in Slots : OtherMonitor(s)
    <3>1. tip' = tip
      BY <1>1, <2>4 DEF Next, RequestStep, RequestRunsOn, MonitorRunsOn, PollEnds, Flip, Send,
           Answer, RecordAnswer, Settle, Drop, Wake, PollAnswered, PollFailed, RecordPoll,
           RaiseTipAgain, Check, Trip, Seed, Tick, slotVars, vars
    <3> QED BY <2>1, <3>1
  <2> QED BY <2>2, <2>3, <2>4
<1>2. MInv /\ [Next]_vars => [tip <= tip']_vars
  BY <1>1
<1> QED
  BY <1>2, MonitorInvariant, PTL DEF Spec, TipNeverGoesDown

-----------------------------------------------------------------------------
(* 4. A recovered upstream stays recovered *)

NoErrorUnderway == ~poll.err /\ \A t \in Requests : ~outcome[t].err

(* While the upstream is up nothing puts an error under way, *)
LEMMA NoErrorComes ==
  ASSUME TypeOK, up, NoErrorUnderway, [Next]_vars
  PROVE  NoErrorUnderway'
<1> USE DEF requestVars, monitorVars, slotVars, poolVars, MonitorGoes
<1>1. outcome \in [Requests -> Outcomes] /\ poll \in Outcomes
  BY Types
<1>2. Fresh(FALSE).err = FALSE
  BY FreshOutcomes
<1>3. ASSUME UNCHANGED <<poll, outcome>> PROVE NoErrorUnderway'
  BY <1>3 DEF NoErrorUnderway
<1>4. ASSUME NEW t \in Requests, outcome' = [outcome EXCEPT ![t] = Fresh(FALSE)], poll' = poll
      PROVE  NoErrorUnderway'
  BY <1>1, <1>2, <1>4 DEF NoErrorUnderway
<1>5. ASSUME NEW t \in Requests, RequestStep(t) PROVE NoErrorUnderway'
  <2>1. CASE Send(t) \/ RecordAnswer(t) \/ Drop(t)
    BY <2>1, <1>3 DEF Send, RecordAnswer, Drop
  <2>2. ASSUME NEW err \in BOOLEAN, Answer(t, err) PROVE NoErrorUnderway'
    <3>1. err = FALSE
      BY <2>2 DEF Answer, MayAnswer
    <3> QED BY <2>2, <3>1, <1>4 DEF Answer
  <2>3. CASE Settle(t)
    BY <2>3, <1>4 DEF Settle
  <2> QED BY <1>5, <2>1, <2>2, <2>3 DEF RequestStep, RequestRunsOn
<1>6. CASE MonitorRunsOn
  <2>1. CASE RecordPoll
    BY <2>1, <1>2 DEF RecordPoll, NoErrorUnderway
  <2>2. CASE Wake \/ RaiseTip \/ RaiseTipAgain \/ Check \/ Trip
    BY <2>2, <1>3 DEF Wake, RaiseTip, RaiseTipAgain, Check, Trip
  <2> QED BY <1>6, <2>1, <2>2 DEF MonitorRunsOn
<1>7. CASE PollEnds
  <2>1. ~PollFailed
    BY DEF PollFailed, MayAnswer
  <2>2. PICK s \in Slots : PollAnswered(s)
    BY <1>7, <2>1 DEF PollEnds
  <2> QED BY <2>2, <1>2 DEF PollAnswered, NoErrorUnderway
<1>8. CASE Flip \/ Seed \/ \E s \in Slots : OtherMonitor(s)
  BY <1>8, <1>3 DEF Flip, Seed, OtherMonitor
<1>9. CASE Tick
  <2>1. poll'.err = poll.err
    BY <1>1, <1>9 DEF Tick, Older, Outcomes
  <2>2. ASSUME NEW t \in Requests PROVE outcome'[t].err = outcome[t].err
    BY <1>1, <1>9 DEF Tick, Older, Outcomes
  <2> QED BY <2>1, <2>2 DEF NoErrorUnderway
<1>10. CASE UNCHANGED vars
  BY <1>10, <1>3 DEF vars
<1> QED
  BY <1>5, <1>6, <1>7, <1>8, <1>9, <1>10 DEF Next

(* so that none is recorded, and the last one grows older. *)
LEMMA LastErrorAges ==
  ASSUME TypeOK, NoErrorUnderway, [Next]_vars
  PROVE  lastError <= lastError'
<1> USE DEF requestVars, monitorVars, slotVars, poolVars
<1>1. lastError \in 0..MaxAge /\ MaxAge \in Nat
  BY Types, AgesAreNaturals
<1>2. lastError' = lastError => lastError <= lastError'
  BY <1>1
<1>3. CASE Tick
  BY <1>1, <1>3 DEF Tick
<1>4. CASE RecordPoll \/ \E t \in Requests : RecordAnswer(t)
  BY <1>2, <1>4 DEF RecordPoll, RecordAnswer, Record, NoErrorUnderway
<1>5. CASE ~Tick /\ ~RecordPoll /\ ~\E t \in Requests : RecordAnswer(t)
  BY <1>2, <1>5 DEF Next, RequestStep, RequestRunsOn, MonitorRunsOn, PollEnds, Flip, Send,
     Answer, Settle, Drop, Wake, PollAnswered, PollFailed, RaiseTip,
     RaiseTipAgain, Check, Trip, Seed, OtherMonitor, vars
<1> QED
  BY <1>3, <1>4, <1>5

(* Without a trip and a failed probe the cooldown only runs down. *)
LEMMA CooldownRunsDown ==
  ASSUME TypeOK, NoErrorUnderway, monitor # "tripping", [Next]_vars
  PROVE  circuit'.until <= circuit.until
<1> USE DEF requestVars, monitorVars, slotVars, poolVars
<1>1. circuit \in CircuitStates(Cooldown) /\ Cooldown \in Nat
  BY Types
<1>2. circuit.until \in Nat
  BY <1>1 DEF CircuitStates
<1>3. circuit' = circuit => circuit'.until <= circuit.until
  BY <1>2
<1>4. ASSUME NEW t \in Requests, Send(t) PROVE circuit'.until <= circuit.until
  BY <1>2, <1>4 DEF Send, Entered, HalfOpen
<1>5. ASSUME NEW t \in Requests, Settle(t) PROVE circuit'.until <= circuit.until
  <2>1. ~outcome[t].err
    BY DEF NoErrorUnderway
  <2>2. circuit' = circuit \/ circuit' = Settled(circuit, TRUE, Cooldown)
    BY <1>5, <2>1 DEF Settle
  <2>3. Settled(circuit, TRUE, Cooldown) \in {circuit, Closed} /\ Closed.until = 0
    BY DEF Settled, Closed
  <2>4. circuit' = circuit \/ circuit' = Closed
    BY <2>2, <2>3
  <2>5. ASSUME circuit' = Closed PROVE circuit'.until = 0
    BY <2>3, <2>5
  <2> QED BY <1>2, <1>3, <2>4, <2>5
<1>6. CASE Tick
  BY <1>2, <1>6 DEF Tick, Cooled, IsDropped, Open
<1>7. CASE ~Tick /\ ~\E t \in Requests : Send(t) \/ Settle(t)
  BY <1>3, <1>7 DEF Next, RequestStep, RequestRunsOn, MonitorRunsOn, MonitorGoes, PollEnds, Flip,
     Answer, RecordAnswer, Drop, Wake, PollAnswered, PollFailed, RecordPoll, RaiseTip,
     RaiseTipAgain, Check, Trip, Seed, OtherMonitor, vars
<1> QED
  BY <1>4, <1>5, <1>6, <1>7

(* What RecoveredStaysUp needs of each step (upstream/health.rs:79-83 and  *)
(* client.rs:143-160): no rest begins without an error of about the last   *)
(* window, on the monitor's part or a probe's.                             *)
THEOREM RestsHaveACause == Spec => NoRestWithoutCause
<1>1. ASSUME MInv, MInv', Recovered, up', [Next]_vars
      PROVE  Recovered' /\ circuit'.until <= circuit.until
  <2>1. TypeOK /\ TypeOK' /\ NoErrorUnderway
    BY <1>1 DEF MInv, Recovered, NoErrorUnderway
  <2>2. Window + 2 * Delay \in Nat /\ lastError \in Nat /\ lastError' \in Nat
    BY <1>1, AgesAreNaturals DEF MInv, TypeOK
  <2>3. lastError > Window + 2 * Delay /\ up
    BY <1>1 DEF Recovered
  <2>4. monitor # "tripping"
    BY <1>1, <2>2, <2>3 DEF MInv, Kept, OnlyRecentErrorsTrip
  <2>5. lastError' > Window + 2 * Delay
    BY <1>1, <2>1, <2>2, <2>3, LastErrorAges
  <2>6. Recovered'
    BY <1>1, <2>1, <2>3, <2>5, NoErrorComes DEF NoErrorUnderway, Recovered
  <2> QED BY <1>1, <2>1, <2>4, <2>6, CooldownRunsDown
<1>2. MInv /\ MInv' /\ [Next]_vars
        => [Recovered /\ up' => Recovered' /\ circuit'.until <= circuit.until]_vars
  BY <1>1
<1> QED
  BY <1>2, MonitorInvariant, PTL DEF Spec, NoRestWithoutCause

=============================================================================
