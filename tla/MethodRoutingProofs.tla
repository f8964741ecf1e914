------------------------- MODULE MethodRoutingProofs -------------------------
(***************************************************************************)
(* What holds of MethodRouting for any pool, any number of requests, any   *)
(* weights, average, margin, window and latencies.                         *)
(*                                                                         *)
(* A score is a sum of quotients, and whether it is zero decides if an     *)
(* upstream is a candidate at all.  So the arithmetic comes first: an      *)
(* average lies between the old one and the sample, one with a success in  *)
(* it is positive, and no quotient of a score is rounded to zero.          *)
(***************************************************************************)
EXTENDS MethodRouting, RollingWindowProofs, FiniteSetTheorems

-----------------------------------------------------------------------------
(* 1. Arithmetic *)

LEMMA Quotients ==
  ASSUME NEW a \in Nat, NEW b \in Nat \ {0}
  PROVE  /\ a \div b \in Nat
         /\ b * (a \div b) <= a
         /\ a < b * (a \div b) + b
OBVIOUS

LEMMA NoQuotientVanishes ==
  ASSUME NEW a \in Nat, NEW b \in Nat \ {0}, b <= a
  PROVE  a \div b \in Nat \ {0}
<1>1. a \div b \in Nat /\ a < b * (a \div b) + b
  BY Quotients
<1>2. CASE a \div b = 0
  <2>1. a < b * 0 + b
    BY <1>1, <1>2
  <2> QED BY <2>1
<1> QED
  BY <1>1, <1>2

LEMMA ProductsGrow ==
  ASSUME NEW k \in Nat, NEW a \in Nat, NEW b \in Nat, a <= b
  PROVE  k * a \in Nat /\ k * b \in Nat /\ k * a <= k * b
<1>1. PICK d \in Nat : b = a + d
  <2>1. b - a \in Nat /\ b = a + (b - a)
    OBVIOUS
  <2> QED BY <2>1
<1>2. k * b = k * a + k * d
  BY <1>1
<1>3. k * a \in Nat /\ k * b \in Nat /\ k * d \in Nat
  BY <1>1
<1> QED
  BY <1>2, <1>3

(* A product of natural numbers is zero only if one of them is. *)
LEMMA ZeroProduct ==
  ASSUME NEW a \in Nat, NEW b \in Nat \ {0}, a * b = 0
  PROVE  a = 0
<1>1. a * 1 <= a * b
  <2>1. a * b >= a * 1
    BY ProductsGrow
  <2> QED BY <2>1
<1> QED
  BY <1>1

(* An average stays within any bounds that hold of both its parts. *)
LEMMA EwmaWithin ==
  ASSUME NEW old \in Nat, NEW x \in Nat
  PROVE  /\ Ewma(old, x) \in Nat
         /\ \A m \in Nat : old <= m /\ x <= m => Ewma(old, x) <= m
         /\ \A m \in Nat : m <= old /\ m <= x => m <= Ewma(old, x)
<1> DEFINE n == Alpha * x + (100 - Alpha) * old + 50
           e == n \div 100
<1>1. Alpha \in Nat /\ 100 - Alpha \in Nat
  BY RoutingAssumption
<1>2. n \in Nat
  BY <1>1
<1>3. ASSUME NEW m \in Nat PROVE Alpha * m + (100 - Alpha) * m = 100 * m
  BY <1>1
<1>4. ASSUME NEW m \in Nat, m <= old, m <= x PROVE 100 * m + 50 <= n
  <2>1. /\ Alpha * m \in Nat /\ Alpha * x \in Nat /\ Alpha * m <= Alpha * x
        /\ (100 - Alpha) * m \in Nat /\ (100 - Alpha) * old \in Nat
        /\ (100 - Alpha) * m <= (100 - Alpha) * old
    BY <1>1, <1>4, ProductsGrow
  <2> QED BY <1>3, <1>4, <2>1
<1>5. ASSUME NEW m \in Nat, old <= m, x <= m PROVE n <= 100 * m + 50
  <2>1. /\ Alpha * m \in Nat /\ Alpha * x \in Nat /\ Alpha * x <= Alpha * m
        /\ (100 - Alpha) * m \in Nat /\ (100 - Alpha) * old \in Nat
        /\ (100 - Alpha) * old <= (100 - Alpha) * m
    BY <1>1, <1>5, ProductsGrow
  <2> QED BY <1>3, <1>5, <2>1
<1> HIDE DEF n
<1>6. e \in Nat /\ 100 * e <= n /\ n < 100 * e + 100
  BY <1>2, Quotients
<1>7. Ewma(old, x) = e
  BY DEF Ewma, e, n
<1> HIDE DEF e
<1>8. ASSUME NEW m \in Nat, old <= m, x <= m PROVE e <= m
  BY <1>2, <1>5, <1>6, <1>8
<1>9. ASSUME NEW m \in Nat, m <= old, m <= x PROVE m <= e
  BY <1>2, <1>4, <1>6, <1>9
<1> QED
  BY <1>6, <1>7, <1>8, <1>9

(* A success shows in the average, whatever came before it. *)
LEMMA EwmaOfSuccess ==
  ASSUME NEW old \in Nat
  PROVE  Ewma(old, Full) > 0
<1> DEFINE n == Alpha * Full + (100 - Alpha) * old + 50
<1>1. Alpha * Full \in Nat /\ 50 <= Alpha * Full /\ (100 - Alpha) * old \in Nat
  BY RoutingAssumption
<1>2. n \in Nat /\ 100 <= n
  BY <1>1
<1> HIDE DEF n
<1>3. n \div 100 \in Nat \ {0}
  BY <1>2, NoQuotientVanishes
<1> QED
  BY <1>3 DEF Ewma, n

-----------------------------------------------------------------------------
(* 2. The invariant *)

Entries == [age : 0..(Window + 1), latency : Latencies]

(* No average latency is beyond what the scale of scores resolves. *)
Resolved(ms) == 100 + Unit * ms <= 100 * One

(* An average of latencies: none yet, or one between two of them. *)
Averaged(u) ==
  IF u \in measured
  THEN \E least, most \in Latencies : latency[u] \in least..most
  ELSE latency[u] = 0

(* Only a failure brings the average of successes down to zero. *)
StaysPositive == \A u \in Upstreams : u \notin failing => success[u] > 0

RInv == TypeOK /\ StaysPositive

LEMMA Constants ==
  /\ Full \in Nat \ {0} /\ One \in Nat /\ Full <= One /\ 1000 <= One
  /\ Window \in Nat /\ Unit \in Nat /\ SuccessWeight \in Nat
  /\ Latencies \subseteq Nat /\ Speeds \subseteq Nat /\ None \notin Upstreams
  /\ Resolved(0) /\ \A ms \in Latencies : Resolved(ms)
  /\ \A e \in Entries : e.age \in Nat
<1>1. /\ Full \in Nat \ {0} /\ Scale \in Nat /\ Full <= 1000 * Scale
      /\ Window \in Nat /\ Unit \in Nat /\ SuccessWeight \in Nat
      /\ Latencies \subseteq Nat /\ Speeds \subseteq Nat /\ None \notin Upstreams
      /\ \A ms \in Latencies : 100 + Unit * ms <= 100 * 1000 * Scale
  BY RoutingAssumption
<1>2. One \in Nat /\ Full <= One /\ 1000 <= One /\ 100 * One = 100 * 1000 * Scale
  BY <1>1 DEF One
<1>3. Resolved(0)
  BY <1>1, <1>2 DEF Resolved
<1>4. \A ms \in Latencies : Resolved(ms)
  BY <1>1, <1>2 DEF Resolved
<1>5. \A e \in Entries : e.age \in Nat
  BY <1>1 DEF Entries
<1> QED
  BY <1>1, <1>2, <1>3, <1>4, <1>5

LEMMA AveragesAreResolved ==
  ASSUME TypeOK, NEW u \in Upstreams
  PROVE  Resolved(latency[u])
<1>1. latency[u] \in Nat
  BY DEF TypeOK
<1>2. CASE u \notin measured
  BY <1>2, Constants DEF TypeOK
<1>3. CASE u \in measured
  <2>1. PICK least \in Latencies, most \in Latencies : latency[u] \in least..most
    BY <1>3 DEF TypeOK
  <2>2. most \in Nat /\ latency[u] <= most /\ Resolved(most)
    BY <2>1, Constants
  <2>3. Unit * latency[u] <= Unit * most /\ Unit * latency[u] \in Nat /\ Unit * most \in Nat
    BY <1>1, <2>2, Constants, ProductsGrow
  <2> QED BY <2>2, <2>3, Constants DEF Resolved
<1> QED
  BY <1>2, <1>3

LEMMA RInvInit == Init => RInv
<1> SUFFICES ASSUME Init PROVE RInv
  OBVIOUS
<1>1. speed \in [Upstreams -> Speeds]
  <2>1. (CHOOSE s \in Speeds : TRUE) \in Speeds
    BY RoutingAssumption
  <2> QED BY <2>1 DEF Init
<1>2. latency \in [Upstreams -> Nat] /\ success \in [Upstreams -> 0..Full]
  BY Constants DEF Init
<1>3. sent \in [Upstreams -> Seq(Entries)]
  <2>1. <<>> \in Seq(Entries)
    BY EmptySeq
  <2> QED BY <2>1 DEF Init
<1>4. TypeOK
  BY <1>1, <1>2, <1>3 DEF Init, TypeOK, Entries
<1>5. \A u \in Upstreams : success[u] > 0
  BY Constants DEF Init
<1> QED
  BY <1>4, <1>5 DEF RInv, StaysPositive

(* Whom a request may turn to. *)
LEMMA ChoiceIsAnUpstream ==
  ASSUME TypeOK, NEW r \in Requests
  PROVE  Choice(r) \subseteq Upstreams
<1>1. DOMAIN Scores(excluded[r]) \subseteq Upstreams
  BY DEF Scores, Ranked
<1> DEFINE c == Candidates(Scores(excluded[r]), dropped, excluded[r])
<1>2. c \subseteq Upstreams
  BY <1>1 DEF Candidates
<1> HIDE DEF c
<1>3. Preferred(Scores(excluded[r]), c, leader, Margin) \subseteq c
  BY DEF Preferred, HoldsLead, Best
<1> QED
  BY <1>2, <1>3 DEF Choice, c

(* Recording keeps the averages, and what the queue holds. *)
LEMMA RecordKeeps ==
  ASSUME RInv, NEW u \in Upstreams, NEW ok \in BOOLEAN, NEW ms \in Latencies,
         Record(u, ok, ms)
  PROVE  /\ latency' \in [Upstreams -> Nat] /\ success' \in [Upstreams -> 0..Full]
         /\ measured' \subseteq Upstreams /\ failing' \subseteq measured'
         /\ sent' \in [Upstreams -> Seq(Entries)]
         /\ \A v \in Upstreams : Averaged(v)'
         /\ StaysPositive'
<1> DEFINE s == IF ok THEN Full ELSE 0
           l2 == IF u \notin measured THEN ms ELSE Ewma(latency[u], ms)
           s2 == IF u \notin measured THEN s ELSE Ewma(success[u], s)
<1>1. /\ latency \in [Upstreams -> Nat] /\ success \in [Upstreams -> 0..Full]
      /\ measured \subseteq Upstreams /\ failing \subseteq measured
      /\ sent \in [Upstreams -> Seq(Entries)]
      /\ \A v \in Upstreams : Averaged(v)
  BY DEF RInv, TypeOK, Entries, Averaged
<1>2. ms \in Nat /\ Full \in Nat \ {0} /\ s \in 0..Full /\ (ok => s = Full)
  BY Constants
<1>3. latency' = [latency EXCEPT ![u] = l2] /\ success' = [success EXCEPT ![u] = s2]
  BY DEF Record, Updated
<1>4. /\ measured' = measured \cup {u}
      /\ failing' = IF ok THEN failing \ {u} ELSE failing \cup {u}
  BY DEF Record
<1> HIDE DEF s
<1>5. l2 \in Nat /\ \E least, most \in Latencies : l2 \in least..most
  <2>1. CASE u \notin measured
    BY <2>1, <1>2
  <2>2. CASE u \in measured
    <3>1. PICK least \in Latencies, most \in Latencies : latency[u] \in least..most
      BY <2>2, <1>1 DEF Averaged
    <3>2. latency[u] \in Nat /\ least \in Nat /\ most \in Nat
      BY <1>1, Constants
    <3>3. /\ l2 \in Nat
          /\ \A m \in Nat : latency[u] <= m /\ ms <= m => l2 <= m
          /\ \A m \in Nat : m <= latency[u] /\ m <= ms => m <= l2
      BY <2>2, <3>2, <1>2, EwmaWithin
    <3> HIDE DEF l2
    <3>4. PICK lo \in {least, ms} : lo <= latency[u] /\ lo <= ms
      BY <3>1, <3>2, <1>2
    <3>5. PICK hi \in {most, ms} : latency[u] <= hi /\ ms <= hi
      BY <3>1, <3>2, <1>2
    <3>6. l2 \in lo..hi
      BY <3>2, <3>3, <3>4, <3>5, <1>2
    <3> QED BY <3>3, <3>4, <3>5, <3>6
  <2> QED BY <2>1, <2>2
<1>6. s2 \in 0..Full /\ (ok => s2 > 0)
  <2>1. CASE u \notin measured
    BY <2>1, <1>2
  <2>2. CASE u \in measured
    <3>1. success[u] \in Nat /\ success[u] <= Full /\ s \in Nat /\ s <= Full /\ Full \in Nat
      BY <1>1, <1>2
    <3>2. s2 \in Nat /\ s2 <= Full
      BY <2>2, <3>1, EwmaWithin
    <3>3. ok => s2 > 0
      BY <2>2, <3>1, <1>2, EwmaOfSuccess
    <3> HIDE DEF s2
    <3> QED BY <3>1, <3>2, <3>3
  <2> QED BY <2>1, <2>2
<1> HIDE DEF l2, s2
<1>7. latency' \in [Upstreams -> Nat] /\ \A v \in Upstreams : Averaged(v)'
  <2>1. latency' \in [Upstreams -> Nat]
    BY <1>1, <1>3, <1>5
  <2>2. ASSUME NEW v \in Upstreams PROVE Averaged(v)'
    <3>1. latency'[v] = IF v = u THEN l2 ELSE latency[v]
      BY <1>1, <1>3
    <3>2. v \in measured' <=> (v \in measured \/ v = u)
      BY <1>4
    <3>3. CASE v = u
      BY <3>1, <3>2, <3>3, <1>5 DEF Averaged
    <3>4. CASE v # u
      BY <3>1, <3>2, <3>4, <1>1 DEF Averaged
    <3> QED BY <3>3, <3>4
  <2> QED BY <2>1, <2>2
<1>8. success' \in [Upstreams -> 0..Full]
  BY <1>1, <1>3, <1>6
<1>9. StaysPositive'
  <2>1. ASSUME NEW v \in Upstreams, v \notin failing' PROVE success'[v] > 0
    <3>1. success'[v] = IF v = u THEN s2 ELSE success[v]
      BY <1>1, <1>3
    <3>2. CASE v = u
      BY <2>1, <3>1, <3>2, <1>4, <1>6
    <3>3. CASE v # u
      <4>1. v \notin failing
        BY <2>1, <3>3, <1>4
      <4> QED BY <4>1, <3>1, <3>3 DEF RInv, StaysPositive
    <3> QED BY <3>2, <3>3
  <2> QED BY <2>1 DEF StaysPositive
<1>10. sent' \in [Upstreams -> Seq(Entries)]
  <2> DEFINE e == [age |-> 0, latency |-> ms]
             p == Pushed(sent[u], e, Window)
  <2>1. e \in Entries
    BY Constants DEF Entries
  <2>2. sent' = sent \/ sent' = [sent EXCEPT ![u] = p]
    BY DEF Record
  <2> HIDE DEF e
  <2>3. sent[u] \in Seq(Entries)
    BY <1>1
  <2>4. (\A x \in Entries : x.age \in Nat) /\ Window \in Nat
    BY Constants
  <2>5. LeavesWindow(Entries, p, sent[u], e, Window)
    BY <2>1, <2>3, <2>4, PushLeaves
  <2>6. p \in Seq(Entries)
    BY <2>5 DEF LeavesWindow
  <2> HIDE DEF p
  <2> QED BY <2>2, <2>6, <1>1
<1>11. measured' \subseteq Upstreams /\ failing' \subseteq measured'
  BY <1>1, <1>4
<1> QED
  BY <1>7, <1>8, <1>9, <1>10, <1>11

LEMMA TickKeeps ==
  ASSUME TypeOK, Tick
  PROVE  sent' \in [Upstreams -> Seq(Entries)]
<1>1. ASSUME NEW e \in Entries PROVE Older1(e, Window + 1) \in Entries
  <2>1. Window + 1 \in Nat /\ e.age \in 0..(Window + 1) /\ e.latency \in Latencies
    BY Constants DEF Entries
  <2> DEFINE a == IF e.age < Window + 1 THEN e.age + 1 ELSE e.age
  <2>2. a \in 0..(Window + 1)
    BY <2>1
  <2>3. Older1(e, Window + 1) = [age |-> a, latency |-> e.latency]
    BY DEF Older1, Entries
  <2> HIDE DEF a
  <2> QED BY <2>1, <2>2, <2>3 DEF Entries
<1>2. ASSUME NEW u \in Upstreams PROVE Aged(sent[u], Window + 1) \in Seq(Entries)
  <2>1. sent[u] \in Seq(Entries)
    BY DEF TypeOK, Entries
  <2>2. LeavesAged(Entries, Aged(sent[u], Window + 1), sent[u], Window + 1)
    BY <1>1, <2>1, TickLeaves
  <2> QED BY <2>2 DEF LeavesAged
<1>3. sent' = [u \in Upstreams |-> Aged(sent[u], Window + 1)]
  BY DEF Tick
<1> QED
  BY <1>2, <1>3

LEMMA RInvStep == RInv /\ [Next]_vars => RInv'
<1> SUFFICES ASSUME RInv, [Next]_vars PROVE RInv'
  OBVIOUS
<1> USE DEF configVars, worldVars, statusVars, statsVars, requestVars
<1>1. TypeOK /\ StaysPositive
  BY DEF RInv
<1>2. ASSUME NEW r \in Requests, Select(r) PROVE RInv'
  <2>1. PICK u \in Upstreams : at' = [at EXCEPT ![r] = u] /\ leader' = u
    BY <1>1, <1>2, ChoiceIsAnUpstream DEF Select
  <2>2. TypeOK'
    BY <1>1, <1>2, <2>1 DEF Select, TypeOK
  <2> QED BY <1>1, <1>2, <2>2 DEF Select, RInv, StaysPositive
<1>3. ASSUME NEW r \in Requests, Answer(r) PROVE RInv'
  <2>1. PICK ok \in BOOLEAN, ms \in Latencies :
          /\ at[r] # None
          /\ Record(at[r], ok, ms)
          /\ excluded' = [excluded EXCEPT ![r] = IF ok THEN {} ELSE @ \cup {at[r]}]
          /\ at' = [at EXCEPT ![r] = None]
          /\ UNCHANGED <<configVars, worldVars, statusVars, leader>>
    BY <1>3 DEF Answer
  <2>2. at[r] \in Upstreams
    BY <1>1, <2>1 DEF TypeOK
  <2>3. /\ latency' \in [Upstreams -> Nat] /\ success' \in [Upstreams -> 0..Full]
        /\ measured' \subseteq Upstreams /\ failing' \subseteq measured'
        /\ sent' \in [Upstreams -> Seq(Entries)]
        /\ \A v \in Upstreams : Averaged(v)'
        /\ StaysPositive'
    BY <2>1, <2>2, RecordKeeps
  <2>4. /\ at' \in [Requests -> Upstreams \cup {None}]
        /\ excluded' \in [Requests -> SUBSET Upstreams]
    BY <1>1, <2>1, <2>2 DEF TypeOK
  <2>5. TypeOK'
    BY <1>1, <2>1, <2>3, <2>4 DEF TypeOK, Entries, Averaged
  <2> QED BY <2>3, <2>5 DEF RInv
<1>4. ASSUME NEW r \in Requests, GiveUp(r) PROVE RInv'
  <2>1. TypeOK'
    BY <1>1, <1>4 DEF GiveUp, TypeOK
  <2> QED BY <1>1, <1>4, <2>1 DEF GiveUp, RInv, StaysPositive
<1>5. ASSUME NEW u \in Upstreams, Poll(u) PROVE RInv'
  <2>1. PICK ok \in BOOLEAN, ms \in Latencies :
          /\ Record(u, ok, ms)
          /\ UNCHANGED <<configVars, worldVars, statusVars, requestVars>>
    BY <1>5 DEF Poll
  <2>2. /\ latency' \in [Upstreams -> Nat] /\ success' \in [Upstreams -> 0..Full]
        /\ measured' \subseteq Upstreams /\ failing' \subseteq measured'
        /\ sent' \in [Upstreams -> Seq(Entries)]
        /\ \A v \in Upstreams : Averaged(v)'
        /\ StaysPositive'
    BY <2>1, RecordKeeps
  <2>3. TypeOK'
    BY <1>1, <2>1, <2>2 DEF TypeOK, Entries, Averaged
  <2> QED BY <2>2, <2>3 DEF RInv
<1>6. CASE Disturb
  <2>1. TypeOK'
    BY <1>1, <1>6 DEF Disturb, TypeOK
  <2> QED BY <1>1, <1>6, <2>1 DEF Disturb, RInv, StaysPositive
<1>7. CASE CalmDown
  <2>1. TypeOK'
    BY <1>1, <1>7 DEF CalmDown, TypeOK
  <2> QED BY <1>1, <1>7, <2>1 DEF CalmDown, RInv, StaysPositive
<1>8. CASE Tick
  <2>1. sent' \in [Upstreams -> Seq(Entries)]
    BY <1>1, <1>8, TickKeeps
  <2>2. TypeOK'
    BY <1>1, <1>8, <2>1 DEF Tick, TypeOK, Entries
  <2> QED BY <1>1, <1>8, <2>2 DEF Tick, RInv, StaysPositive
<1>9. CASE UNCHANGED vars
  <2>1. TypeOK'
    BY <1>1, <1>9 DEF vars, TypeOK
  <2> QED BY <1>1, <1>9, <2>1 DEF vars, RInv, StaysPositive
<1> QED
  BY <1>2, <1>3, <1>4, <1>5, <1>6, <1>7, <1>8, <1>9 DEF Next

(* The invariant holds of every run. *)
THEOREM RoutingInvariant == Spec => []RInv
<1>1. Init => RInv
  BY RInvInit
<1>2. RInv /\ [Next]_vars => RInv'
  BY RInvStep
<1> QED
  BY <1>1, <1>2, PTL DEF Spec

-----------------------------------------------------------------------------
(* 3. Theorems *)

(* Types: queues keep what was recorded, and an average of stats.rs stays   *)
(* between what answers may have taken.                                    *)
THEOREM RoutingTypes == Spec => []TypeOK
<1>1. RInv => TypeOK
  BY DEF RInv
<1> QED
  BY <1>1, RoutingInvariant, PTL

(* Both parts of a score are positive, unless the upstream failed last, in *)
(* which case one is; so a score of zero takes a zero weight.              *)
LEMMA ZeroScores ==
  ASSUME RInv, NEW u \in Upstreams, MethodScore(u) = 0
  PROVE  /\ latency_weight = 0
         /\ SuccessWeight = 0 \/ u \in failing
<1> DEFINE ls == IF u \in measured THEN LatencyScore(latency[u]) ELSE One \div 2
           ss == IF u \in measured THEN (One * success[u]) \div Full ELSE One \div 2
           k == IF u \in lagging THEN 1 ELSE 10
<1>1. latency_weight \in Nat /\ latency[u] \in Nat /\ success[u] \in Nat
  <2>1. PICK s \in Setups : latency_weight = s.latency_weight
    BY DEF RInv, TypeOK
  <2>2. s.latency_weight \in 0..100
    BY RoutingAssumption
  <2>3. latency \in [Upstreams -> Nat] /\ success \in [Upstreams -> 0..Full]
    BY DEF RInv, TypeOK
  <2>4. latency[u] \in Nat /\ success[u] \in 0..Full
    BY <2>3
  <2> QED BY <2>1, <2>2, <2>4, Constants
<1>2. One \div 2 \in Nat \ {0}
  BY Constants, NoQuotientVanishes
<1>3. LatencyScore(latency[u]) \in Nat \ {0}
  <2>1. Unit * latency[u] \in Nat
    BY <1>1, Constants
  <2>2. 100 + Unit * latency[u] <= 100 * One
    BY AveragesAreResolved DEF RInv, Resolved
  <2>3. 100 + Unit * latency[u] \in Nat \ {0} /\ 100 * One \in Nat
    BY <2>1, Constants
  <2> QED BY <2>2, <2>3, NoQuotientVanishes DEF LatencyScore
<1>4. /\ (One * success[u]) \div Full \in Nat
      /\ success[u] > 0 => (One * success[u]) \div Full \in Nat \ {0}
  <2>1. One * success[u] \in Nat /\ Full \in Nat \ {0}
    BY <1>1, Constants
  <2>2. (One * success[u]) \div Full \in Nat
    BY <2>1, Quotients
  <2>3. ASSUME success[u] > 0 PROVE Full <= One * success[u]
    <3>1. One * 1 <= One * success[u]
      BY <2>3, <1>1, Constants, ProductsGrow
    <3> QED BY <3>1, <2>1, Constants
  <2>4. ASSUME success[u] > 0 PROVE (One * success[u]) \div Full \in Nat \ {0}
    BY <2>1, <2>3, <2>4, NoQuotientVanishes
  <2> QED BY <2>2, <2>4
<1>5. ls \in Nat \ {0} /\ ss \in Nat /\ k \in Nat \ {0}
  BY <1>2, <1>3, <1>4
<1>6. u \notin failing => ss # 0
  <2>1. u \notin failing => success[u] > 0
    BY DEF RInv, StaysPositive
  <2> QED BY <2>1, <1>2, <1>4
<1>7. MethodScore(u) = (latency_weight * ls + SuccessWeight * ss) * k
  BY DEF MethodScore, Weighted
<1> HIDE DEF ls, ss, k
<1>8. SuccessWeight \in Nat /\ latency_weight * ls \in Nat /\ SuccessWeight * ss \in Nat
  BY <1>1, <1>5, Constants
<1>9. latency_weight * ls + SuccessWeight * ss = 0
  <2>1. latency_weight * ls + SuccessWeight * ss \in Nat
    BY <1>8
  <2> QED BY <2>1, <1>5, <1>7, ZeroProduct
<1>10. latency_weight * ls = 0 /\ SuccessWeight * ss = 0
  BY <1>8, <1>9
<1>11. latency_weight = 0
  BY <1>1, <1>5, <1>10, ZeroProduct
<1>12. ss # 0 => SuccessWeight = 0
  BY <1>5, <1>8, <1>10, ZeroProduct
<1> QED
  BY <1>6, <1>11, <1>12

(* What shuts an upstream out of a method's routing (router.rs:87): only   *)
(* weights of zero, together with failures that no success has followed;   *)
(* never lag, latency or what came before a success.                       *)
THEOREM ShutOutOnlyByFailure == Spec => []OnlyFailuresShutOut
<1>1. RInv => OnlyFailuresShutOut
  BY ZeroScores DEF OnlyFailuresShutOut
<1> QED
  BY <1>1, RoutingInvariant, PTL

-----------------------------------------------------------------------------
(* 4. A safe lead is kept *)

(* More arithmetic: quotients and scores go up and down with their parts.  *)
LEMMA QuotientsGrow ==
  ASSUME NEW a \in Nat, NEW b \in Nat, a <= b, NEW c \in Nat \ {0}
  PROVE  a \div c <= b \div c
<1> DEFINE p == a \div c
           q == b \div c
<1>1. p \in Nat /\ c * p <= a /\ q \in Nat /\ b < c * q + c
  BY Quotients
<1> HIDE DEF p, q
<1>2. ASSUME ~(p <= q) PROVE FALSE
  <2>1. c * (q + 1) <= c * p
    BY <1>1, <1>2, ProductsGrow
  <2>2. c * (q + 1) = c * q + c /\ c * q \in Nat /\ c * p \in Nat
    BY <1>1
  <2> QED BY <1>1, <2>1, <2>2
<1> QED
  BY <1>2 DEF p, q

LEMMA QuotientsFall ==
  ASSUME NEW a \in Nat, NEW c \in Nat \ {0}, NEW d \in Nat \ {0}, c <= d
  PROVE  a \div d <= a \div c
<1> DEFINE p == a \div d
           q == a \div c
<1>1. p \in Nat /\ d * p <= a /\ q \in Nat /\ a < c * q + c
  BY Quotients
<1> HIDE DEF p, q
<1>2. ASSUME ~(p <= q) PROVE FALSE
  <2>1. c * (q + 1) <= c * p
    BY <1>1, <1>2, ProductsGrow
  <2>2. p * c <= p * d
    BY <1>1, ProductsGrow
  <2>3. c * (q + 1) = c * q + c /\ c * p = p * c /\ d * p = p * d
    BY <1>1
  <2>4. c * q \in Nat /\ c * p \in Nat /\ d * p \in Nat
    BY <1>1
  <2> QED BY <1>1, <2>1, <2>2, <2>3, <2>4
<1> QED
  BY <1>2 DEF p, q

(* The slower, the lower. *)
LEMMA LatencyScoreFalls ==
  ASSUME NEW a \in Nat, NEW b \in Nat, a <= b
  PROVE  /\ LatencyScore(a) \in Nat /\ LatencyScore(b) \in Nat
         /\ LatencyScore(b) <= LatencyScore(a)
<1>1. Unit * a \in Nat /\ Unit * b \in Nat /\ Unit * a <= Unit * b
  BY Constants, ProductsGrow
<1>2. /\ 100 + Unit * a \in Nat \ {0} /\ 100 + Unit * b \in Nat \ {0}
      /\ 100 + Unit * a <= 100 + Unit * b /\ 100 * One \in Nat
  BY <1>1, Constants
<1> QED
  BY <1>2, Quotients, QuotientsFall DEF LatencyScore

LEMMA WeightedGrows ==
  ASSUME latency_weight \in Nat,
         NEW a \in Nat, NEW b \in Nat, a <= b, NEW c \in Nat, NEW d \in Nat, c <= d
  PROVE  /\ Weighted(a, c) \in Nat /\ Weighted(b, d) \in Nat
         /\ Weighted(a, c) <= Weighted(b, d)
<1>1. /\ latency_weight * a \in Nat /\ latency_weight * b \in Nat
      /\ latency_weight * a <= latency_weight * b
  BY ProductsGrow
<1>2. /\ SuccessWeight * c \in Nat /\ SuccessWeight * d \in Nat
      /\ SuccessWeight * c <= SuccessWeight * d
  BY Constants, ProductsGrow
<1> QED
  BY <1>1, <1>2 DEF Weighted

(* In a calm world nothing is dropped and nothing lags. *)
CalmInv == calm => dropped = {} /\ lagging = {}

LEMMA CalmIsCalm == Spec => []CalmInv
<1>1. Init => CalmInv
  BY DEF Init, CalmInv
<1>2. CalmInv /\ [Next]_vars => CalmInv'
  <2> USE DEF CalmInv, configVars, worldVars, statusVars, statsVars, requestVars
  <2> SUFFICES ASSUME CalmInv, [Next]_vars PROVE CalmInv'
    OBVIOUS
  <2>1. ASSUME NEW r \in Requests, Select(r) \/ Answer(r) \/ GiveUp(r) PROVE CalmInv'
    BY <2>1 DEF Select, Answer, GiveUp
  <2>2. ASSUME NEW u \in Upstreams, Poll(u) PROVE CalmInv'
    BY <2>2 DEF Poll
  <2>3. CASE Disturb \/ CalmDown \/ Tick
    BY <2>3 DEF Disturb, CalmDown, Tick
  <2>4. CASE UNCHANGED vars
    BY <2>4 DEF vars
  <2> QED BY <2>1, <2>2, <2>3, <2>4 DEF Next
<1> QED
  BY <1>1, <1>2, PTL DEF Spec

LEMMA NumbersOf ==
  ASSUME TypeOK, NEW u \in Upstreams
  PROVE  /\ latency_weight \in Nat /\ Noise \in Nat /\ 100 - Margin \in Nat
         /\ latency[u] \in Nat /\ success[u] \in 0..Full /\ speed[u] \in Nat
<1>1. PICK s \in Setups : latency_weight = s.latency_weight
  BY DEF TypeOK
<1>2. s.latency_weight \in 0..100 /\ Noise \in Nat /\ Margin \in 0..99
  BY RoutingAssumption
<1>3. /\ latency \in [Upstreams -> Nat] /\ success \in [Upstreams -> 0..Full]
      /\ speed \in [Upstreams -> Speeds]
  BY DEF TypeOK
<1>4. latency[u] \in Nat /\ success[u] \in 0..Full /\ speed[u] \in Speeds
  BY <1>3
<1>5. latency_weight \in Nat /\ 100 - Margin \in Nat
  BY <1>1, <1>2
<1> QED
  BY <1>2, <1>4, <1>5, Constants

(* The share of successes, on the scale of scores. *)
LEMMA SuccessShare ==
  ASSUME NEW a \in 0..Full, NEW b \in 0..Full, a <= b
  PROVE  /\ (One * a) \div Full \in Nat /\ (One * b) \div Full \in Nat
         /\ (One * a) \div Full <= (One * b) \div Full
         /\ (One * b) \div Full <= One
<1>1. One * a \in Nat /\ One * b \in Nat /\ One * a <= One * b /\ One * b <= One * Full
  BY Constants, ProductsGrow
<1>2. (One * a) \div Full <= (One * b) \div Full
  BY <1>1, Constants, QuotientsGrow
<1> DEFINE q == (One * b) \div Full
<1>3. q \in Nat /\ Full * q <= One * b /\ (One * a) \div Full \in Nat
  BY <1>1, Constants, Quotients
<1> HIDE DEF q
<1>4. ASSUME ~(q <= One) PROVE FALSE
  <2>1. Full * (One + 1) <= Full * q
    BY <1>3, <1>4, Constants, ProductsGrow
  <2>2. Full * (One + 1) = One * Full + Full /\ Full * q \in Nat /\ One * Full \in Nat
    BY <1>3, Constants
  <2> QED BY <1>1, <1>3, <2>1, <2>2, Constants
<1> QED
  BY <1>2, <1>3, <1>4 DEF q

(* Now, a score is between the least and the most it can come to. *)
LEMMA ScoreWithin ==
  ASSUME TypeOK, calm, CalmInv, NEW u \in Upstreams
  PROVE  /\ MethodScore(u) \in Nat /\ Ceiling(u) \in Nat /\ MethodScore(u) <= 10 * Ceiling(u)
         /\ Floor(u) \in Nat /\ (u \in measured => 10 * Floor(u) <= MethodScore(u))
<1> DEFINE l == latency[u]
           slow == Slower(l, speed[u] + Noise)
           fast == Faster(l, speed[u])
           share == (One * success[u]) \div Full
           half == One \div 2
<1>1. /\ latency_weight \in Nat /\ l \in Nat /\ success[u] \in 0..Full
      /\ speed[u] \in Nat /\ speed[u] + Noise \in Nat
  BY NumbersOf
<1>2. slow \in Nat /\ l <= slow /\ fast \in Nat /\ fast <= l
  BY <1>1 DEF Slower, Faster
<1>3. share \in Nat /\ share <= One
  BY <1>1, SuccessShare
<1>4. half \in Nat /\ One \in Nat
  BY Constants, Quotients
<1>5. lagging = {}
  BY DEF CalmInv
<1> HIDE DEF l, slow, fast, share, half
<1>6. /\ LatencyScore(l) \in Nat /\ LatencyScore(slow) \in Nat /\ LatencyScore(fast) \in Nat
      /\ LatencyScore(slow) <= LatencyScore(l) /\ LatencyScore(l) <= LatencyScore(fast)
  BY <1>1, <1>2, LatencyScoreFalls
<1>7. /\ Weighted(LatencyScore(slow), share) \in Nat
      /\ Weighted(LatencyScore(l), share) \in Nat
      /\ Weighted(LatencyScore(fast), One) \in Nat
      /\ Weighted(LatencyScore(slow), share) <= Weighted(LatencyScore(l), share)
      /\ Weighted(LatencyScore(l), share) <= Weighted(LatencyScore(fast), One)
  <2>1. share <= share
    BY <1>3
  <2>2. /\ Weighted(LatencyScore(slow), share) \in Nat
        /\ Weighted(LatencyScore(l), share) \in Nat
        /\ Weighted(LatencyScore(slow), share) <= Weighted(LatencyScore(l), share)
    BY <1>1, <1>3, <1>6, <2>1, WeightedGrows
  <2>3. /\ Weighted(LatencyScore(fast), One) \in Nat
        /\ Weighted(LatencyScore(l), share) <= Weighted(LatencyScore(fast), One)
    BY <1>1, <1>3, <1>4, <1>6, WeightedGrows
  <2> QED BY <2>2, <2>3
<1>8. Floor(u) = Weighted(LatencyScore(slow), share)
  BY DEF Floor, l, slow, share
<1>9. CASE u \in measured
  <2>1. MethodScore(u) = Weighted(LatencyScore(l), share) * 10
    BY <1>5, <1>9 DEF MethodScore, l, share
  <2>2. Ceiling(u) = Weighted(LatencyScore(fast), One)
    BY <1>9 DEF Ceiling, l, fast
  <2> QED BY <1>7, <1>8, <2>1, <2>2
<1>10. CASE u \notin measured
  <2>1. MethodScore(u) = Weighted(half, half) * 10
    BY <1>5, <1>10 DEF MethodScore, half
  <2>2. Ceiling(u) = Slower(Merit(u), Weighted(half, half))
    BY <1>10 DEF Ceiling, half
  <2>3. Weighted(half, half) \in Nat
    BY <1>1, <1>4, Constants DEF Weighted
  <2>4. LatencyScore(speed[u]) \in Nat
    <3>1. speed[u] <= speed[u]
      BY <1>1
    <3> QED BY <1>1, <3>1, LatencyScoreFalls
  <2>5. Merit(u) \in Nat
    BY <1>1, <1>4, <2>4, Constants DEF Merit, Weighted
  <2> QED BY <1>7, <1>8, <1>10, <2>1, <2>2, <2>3, <2>5 DEF Slower
<1> QED
  BY <1>9, <1>10

(* A sample in a calm world raises no ceiling and lowers no floor. *)
LEMMA CalmSample ==
  ASSUME RInv, calm, NEW u \in Upstreams, NEW ok \in BOOLEAN, NEW ms \in Latencies,
         MayTake(u, ok, ms), Record(u, ok, ms), UNCHANGED <<configVars, worldVars>>,
         NEW v \in Upstreams
  PROVE  /\ Ceiling(v)' <= Ceiling(v)
         /\ v \in measured => Floor(v) <= Floor(v)'
<1> USE DEF configVars, worldVars
<1>1. TypeOK /\ latency_weight' = latency_weight /\ speed' = speed
  BY DEF RInv
<1>2. ok /\ ms \in Nat /\ speed[u] <= ms /\ ms <= speed[u] + Noise
  <2>1. ms \in speed[u]..(speed[u] + Noise) /\ ok
    BY DEF MayTake
  <2>2. speed[u] \in Nat /\ Noise \in Nat
    BY <1>1, NumbersOf
  <2> QED BY <2>1, <2>2
<1>3. /\ latency_weight \in Nat /\ Noise \in Nat /\ speed[v] \in Nat
      /\ latency[v] \in Nat /\ success[v] \in 0..Full
  BY <1>1, NumbersOf
<1>4. latency'[v] \in Nat /\ success'[v] \in 0..Full
  <2>1. latency' \in [Upstreams -> Nat] /\ success' \in [Upstreams -> 0..Full]
    BY RecordKeeps
  <2> QED BY <2>1
<1>5. measured' = measured \cup {u}
  BY DEF Record
<1>6. v # u => latency'[v] = latency[v] /\ success'[v] = success[v]
  <2>1. latency \in [Upstreams -> Nat] /\ success \in [Upstreams -> 0..Full]
    BY <1>1 DEF TypeOK
  <2> QED BY <2>1 DEF Record, Updated
<1>7. /\ u \notin measured => latency'[u] = ms
      /\ u \in measured => /\ latency'[u] = Ewma(latency[u], ms)
                          /\ success'[u] = Ewma(success[u], Full)
  <2>1. latency \in [Upstreams -> Nat] /\ success \in [Upstreams -> 0..Full]
    BY <1>1 DEF TypeOK
  <2> QED BY <1>2, <2>1 DEF Record, Updated
<1> DEFINE slow == Slower(latency[v], speed[v] + Noise)
           slow2 == Slower(latency'[v], speed[v] + Noise)
           fast == Faster(latency[v], speed[v])
           fast2 == Faster(latency'[v], speed[v])
<1>8. slow \in Nat /\ slow2 \in Nat /\ fast \in Nat /\ fast2 \in Nat
  BY <1>3, <1>4 DEF Slower, Faster
<1>9. ASSUME v \in measured
      PROVE  slow2 <= slow /\ fast <= fast2 /\ success[v] <= success'[v]
  <2>1. CASE v # u
    BY <2>1, <1>3, <1>6, <1>8
  <2>2. CASE v = u
    <3>1. /\ latency'[v] = Ewma(latency[v], ms) /\ success'[v] = Ewma(success[v], Full)
          /\ ms \in Nat /\ speed[v] <= ms /\ ms <= speed[v] + Noise
      BY <2>2, <1>2, <1>7, <1>9
    <3>2. latency[v] <= slow /\ ms <= slow /\ fast <= latency[v] /\ fast <= ms
      BY <3>1, <1>3 DEF Slower, Faster
    <3>3. latency'[v] <= slow /\ fast <= latency'[v]
      <4>1. latency[v] \in Nat /\ ms \in Nat /\ slow \in Nat /\ fast \in Nat
        BY <3>1, <1>3, <1>8
      <4> HIDE DEF slow, fast
      <4>2. Ewma(latency[v], ms) <= slow /\ fast <= Ewma(latency[v], ms)
        BY <3>2, <4>1, EwmaWithin
      <4> QED BY <3>1, <4>2
    <3>4. speed[v] + Noise <= slow /\ fast <= speed[v]
      BY <1>3 DEF Slower, Faster
    <3>5. success[v] <= success'[v]
      <4>1. success[v] \in Nat /\ Full \in Nat /\ success[v] <= success[v] /\ success[v] <= Full
        BY <1>3, Constants
      <4> QED BY <4>1, <3>1, EwmaWithin
    <3> QED BY <3>3, <3>4, <3>5 DEF Slower, Faster
  <2> QED BY <2>1, <2>2
<1>10. ASSUME v \in measured PROVE Floor(v) <= Floor(v)'
  <2> HIDE DEF slow, slow2
  <2>1. LatencyScore(slow) \in Nat /\ LatencyScore(slow2) \in Nat
        /\ LatencyScore(slow) <= LatencyScore(slow2)
    BY <1>8, <1>9, <1>10, LatencyScoreFalls
  <2>2. /\ (One * success[v]) \div Full \in Nat /\ (One * success'[v]) \div Full \in Nat
        /\ (One * success[v]) \div Full <= (One * success'[v]) \div Full
    BY <1>3, <1>4, <1>9, <1>10, SuccessShare
  <2>3. Weighted(LatencyScore(slow), (One * success[v]) \div Full)
          <= Weighted(LatencyScore(slow2), (One * success'[v]) \div Full)
    BY <1>3, <2>1, <2>2, WeightedGrows
  <2>4. Floor(v) = Weighted(LatencyScore(slow), (One * success[v]) \div Full)
    BY DEF Floor, slow
  <2>5. Floor(v)' = Weighted(LatencyScore(slow2), (One * success'[v]) \div Full)
    BY <1>1 DEF Floor, slow2, Weighted
  <2> QED BY <2>3, <2>4, <2>5
<1>11. Ceiling(v)' <= Ceiling(v)
  <2> DEFINE half == One \div 2
             cap(ms2) == Weighted(LatencyScore(ms2), One)
  <2>1. half \in Nat /\ One \in Nat /\ One <= One
    BY Constants, Quotients
  <2>2. ASSUME NEW a \in Nat, NEW b \in Nat, a <= b
        PROVE  cap(a) \in Nat /\ cap(b) \in Nat /\ cap(b) <= cap(a)
    BY <2>1, <2>2, <1>3, LatencyScoreFalls, WeightedGrows
  <2>3. Weighted(half, half) \in Nat /\ Weighted(half, half)' = Weighted(half, half)
    BY <2>1, <1>1, <1>3, Constants DEF Weighted
  <2>4. Merit(v) = cap(speed[v]) /\ Merit(v)' = cap(speed[v])
    BY <1>1 DEF Merit, Weighted
  <2>5. v \in measured' => Ceiling(v)' = cap(fast2)
    BY <1>1 DEF Ceiling, Weighted, fast2
  <2>6. v \notin measured' => Ceiling(v)' = Slower(cap(speed[v]), Weighted(half, half))
    BY <1>1, <2>3, <2>4 DEF Ceiling, half, Slower
  <2>7. Ceiling(v) = IF v \in measured THEN cap(fast)
                     ELSE Slower(cap(speed[v]), Weighted(half, half))
    BY <2>4 DEF Ceiling, fast, half
  <2>8. cap(speed[v]) \in Nat
    BY <1>3, <2>2
  <2> HIDE DEF cap, half
  <2>9. CASE v \in measured
    <3> HIDE DEF fast, fast2
    <3>1. cap(fast2) <= cap(fast)
      BY <2>2, <1>8, <1>9, <2>9
    <3> QED BY <3>1, <2>5, <2>7, <2>9, <1>5
  <2>10. CASE v \notin measured /\ v = u
    <3>1. latency'[v] = ms /\ fast2 = speed[v]
      BY <2>10, <1>2, <1>3, <1>7 DEF Faster
    <3> HIDE DEF fast, fast2
    <3> QED BY <3>1, <2>3, <2>5, <2>7, <2>8, <2>10, <1>5 DEF Slower
  <2>11. CASE v \notin measured /\ v # u
    <3> HIDE DEF fast, fast2
    <3> QED BY <2>3, <2>6, <2>7, <2>8, <2>11, <1>5 DEF Slower
  <2> QED BY <2>9, <2>10, <2>11
<1> QED
  BY <1>10, <1>11

Bounds == \A u \in Upstreams : Floor(u) \in Nat /\ Ceiling(u) \in Nat
LEMMA BoundsAreNumbers == TypeOK /\ calm /\ CalmInv => Bounds
  BY ScoreWithin DEF Bounds

(* Whoever selects now takes the leader. *)
LEMMA SafeLeadHolds ==
  ASSUME TypeOK, CalmInv, LeadIsSafe, NEW r \in Requests
  PROVE  Choice(r) = {leader}
<1> DEFINE score == [u \in Upstreams |-> MethodScore(u)]
           cs == Candidates(score, {}, {})
<1>1. calm /\ dropped = {} /\ excluded[r] = {} /\ leader \in measured /\ leader \in Upstreams
  BY DEF LeadIsSafe, CalmInv, TypeOK
<1>2. Scores(excluded[r]) = score
  BY DEF LeadIsSafe, Scores, Ranked
<1>3. 100 - Margin \in Nat /\ Floor(leader) \in Nat /\ Floor(leader) > 0
  BY <1>1, NumbersOf, ScoreWithin DEF LeadIsSafe
<1>4. score[leader] \in Nat /\ 10 * Floor(leader) <= score[leader]
  BY <1>1, ScoreWithin
<1>5. leader \in cs
  BY <1>1, <1>3, <1>4 DEF Candidates
<1>6. ASSUME NEW v \in cs PROVE 100 * score[leader] >= (100 - Margin) * score[v]
  <2>1. v \in Upstreams
    BY DEF Candidates
  <2>2. score[v] \in Nat /\ Ceiling(v) \in Nat /\ score[v] <= 10 * Ceiling(v)
    BY <1>1, <2>1, ScoreWithin
  <2>3. CASE v = leader
    <3>1. (100 - Margin) * score[v] <= 100 * score[v]
      <4>1. 100 - Margin <= 100
        BY RoutingAssumption
      <4>2. score[v] * (100 - Margin) <= score[v] * 100
        BY <4>1, <1>3, <2>2, ProductsGrow
      <4> HIDE DEF score
      <4> QED BY <4>2, <1>3, <2>2
    <3> QED BY <2>3, <3>1
  <2>4. CASE v # leader
    <3> DEFINE m == 100 - Margin
    <3>1. 100 * Floor(leader) >= m * Ceiling(v)
      BY <2>1, <2>4 DEF LeadIsSafe
    <3>2. m \in Nat
      BY <1>3
    <3> HIDE DEF m, score
    <3>3. m * score[v] <= m * (10 * Ceiling(v))
      BY <2>2, <3>2, ProductsGrow
    <3>4. m * (10 * Ceiling(v)) = 10 * (m * Ceiling(v)) /\ m * Ceiling(v) \in Nat
      BY <2>2, <3>2
    <3>5. m * score[v] \in Nat
      BY <2>2, <3>2
    <3>6. 100 * score[leader] >= m * score[v]
      BY <1>3, <1>4, <3>1, <3>3, <3>4, <3>5
    <3> QED BY <3>6 DEF m
  <2> QED BY <2>3, <2>4
<1>7. Preferred(score, cs, leader, Margin) = {leader}
  BY <1>5, <1>6 DEF Preferred, HoldsLead
<1> HIDE DEF score
<1> QED
  BY <1>1, <1>2, <1>7 DEF Choice, cs

(* A sample leaves a safe lead safe. *)
LEMMA SafeLeadSurvives ==
  ASSUME RInv, LeadIsSafe, NEW u \in Upstreams, NEW ok \in BOOLEAN, NEW ms \in Latencies,
         MayTake(u, ok, ms), Record(u, ok, ms), UNCHANGED <<configVars, worldVars, leader>>,
         RInv', CalmInv', calm, CalmInv,
         \A r \in Requests : excluded'[r] = {}
  PROVE  LeadIsSafe'
<1>1. /\ TypeOK /\ TypeOK' /\ leader' = leader /\ leader \in measured /\ leader \in Upstreams
      /\ calm' /\ method' # Sending /\ leader' \in measured'
  BY DEF RInv, TypeOK, LeadIsSafe, configVars, worldVars, Record
<1>2. 100 - Margin \in Nat
  BY <1>1, NumbersOf
<1>3. Bounds /\ Bounds'
  <2>1. TypeOK /\ calm /\ CalmInv /\ (TypeOK /\ calm /\ CalmInv)'
    BY <1>1
  <2> QED BY <2>1, BoundsAreNumbers, PTL
<1>4. Floor(leader) <= Floor(leader)' /\ Floor(leader)' \in Nat /\ Floor(leader)' > 0
  <2> DEFINE l == leader
  <2>1. Floor(l) <= Floor(l)'
    BY <1>1, CalmSample
  <2>2. Floor(l) \in Nat /\ Floor(l)' \in Nat /\ Floor(l) > 0
    BY <1>1, <1>3 DEF Bounds, LeadIsSafe
  <2> QED BY <2>1, <2>2
<1>5. ASSUME NEW v \in Upstreams \ {leader}
      PROVE  100 * Floor(leader)' >= (100 - Margin) * Ceiling(v)'
  <2> DEFINE m == 100 - Margin
  <2>1. Ceiling(v)' <= Ceiling(v)
    BY CalmSample
  <2>2. Ceiling(v) \in Nat /\ Ceiling(v)' \in Nat /\ Floor(leader) \in Nat
    BY <1>1, <1>3 DEF Bounds
  <2>3. 100 * Floor(leader) >= m * Ceiling(v)
    BY DEF LeadIsSafe
  <2>4. m \in Nat
    BY <1>2
  <2> HIDE DEF m
  <2>5. /\ m * Ceiling(v)' <= m * Ceiling(v)
        /\ m * Ceiling(v)' \in Nat /\ m * Ceiling(v) \in Nat
    BY <2>1, <2>2, <2>4, ProductsGrow
  <2>6. 100 * Floor(leader)' >= m * Ceiling(v)'
    BY <2>2, <2>3, <2>5, <1>4
  <2> QED BY <2>6 DEF m
<1> QED
  BY <1>1, <1>4, <1>5 DEF LeadIsSafe

LEMMA SafeLeadStep == RInv /\ RInv' /\ CalmInv /\ CalmInv' /\ LeadIsSafe /\ [Next]_vars
                        => LeadIsSafe' /\ leader' = leader
<1> SUFFICES ASSUME RInv, RInv', CalmInv, CalmInv', LeadIsSafe, [Next]_vars
             PROVE  LeadIsSafe' /\ leader' = leader
  OBVIOUS
<1>1. calm /\ TypeOK /\ \A r \in Requests : excluded[r] = {}
  BY DEF LeadIsSafe, RInv
<1>2. ASSUME UNCHANGED <<configVars, worldVars, leader, excluded, measured, latency, success>>
      PROVE  LeadIsSafe' /\ leader' = leader
  BY <1>2 DEF LeadIsSafe, Floor, Ceiling, Merit, Weighted, configVars, worldVars
<1> USE DEF configVars, worldVars, statusVars, statsVars, requestVars
<1>3. ASSUME NEW r \in Requests, Select(r) PROVE LeadIsSafe' /\ leader' = leader
  <2>1. leader' = leader
    BY <1>1, <1>3, SafeLeadHolds DEF Select
  <2> QED BY <1>2, <1>3, <2>1 DEF Select
<1>4. ASSUME NEW r \in Requests, Answer(r) PROVE LeadIsSafe' /\ leader' = leader
  <2>1. PICK ok \in BOOLEAN, ms \in Latencies :
          /\ at[r] # None /\ MayTake(at[r], ok, ms) /\ Record(at[r], ok, ms)
          /\ excluded' = [excluded EXCEPT ![r] = IF ok THEN {} ELSE @ \cup {at[r]}]
          /\ UNCHANGED <<configVars, worldVars, statusVars, leader>>
    BY <1>4 DEF Answer
  <2>2. at[r] \in Upstreams /\ ok
    BY <1>1, <2>1 DEF TypeOK, MayTake
  <2>3. \A q \in Requests : excluded'[q] = {}
    BY <1>1, <2>1, <2>2 DEF TypeOK
  <2> QED BY <1>1, <2>1, <2>2, <2>3, SafeLeadSurvives
<1>5. ASSUME NEW r \in Requests, GiveUp(r) PROVE LeadIsSafe' /\ leader' = leader
  <2>1. excluded' = excluded
    BY <1>1, <1>5 DEF GiveUp, TypeOK
  <2> QED BY <1>2, <1>5, <2>1 DEF GiveUp
<1>6. ASSUME NEW u \in Upstreams, Poll(u) PROVE LeadIsSafe' /\ leader' = leader
  <2>1. PICK ok \in BOOLEAN, ms \in Latencies :
          /\ MayTake(u, ok, ms) /\ Record(u, ok, ms)
          /\ UNCHANGED <<configVars, worldVars, statusVars, requestVars>>
    BY <1>6 DEF Poll
  <2>2. \A q \in Requests : excluded'[q] = {}
    BY <1>1, <2>1
  <2> QED BY <1>1, <2>1, <2>2, SafeLeadSurvives
<1>7. CASE Disturb \/ CalmDown
  BY <1>1, <1>7 DEF Disturb, CalmDown
<1>8. CASE Tick
  BY <1>2, <1>8 DEF Tick
<1>9. CASE UNCHANGED vars
  BY <1>2, <1>9 DEF vars
<1> QED
  BY <1>3, <1>4, <1>5, <1>6, <1>7, <1>8, <1>9 DEF Next

(* Hysteresis (router.rs:98-150) settles, as far as safety goes:           *)
(* in a calm world a leader whose worst score is within the margin of the  *)
(* others' best is never displaced again, whatever samples follow.         *)
THEOREM SafeLeadsAreKept == Spec => SafeLeadIsKept
<1>1. RInv /\ RInv' /\ CalmInv /\ CalmInv' /\ [Next]_vars
        => [LeadIsSafe => LeadIsSafe' /\ leader' = leader]_vars
  BY SafeLeadStep
<1> QED
  BY <1>1, RoutingInvariant, CalmIsCalm, PTL DEF Spec, SafeLeadIsKept

-----------------------------------------------------------------------------
(* 5. Nobody is overlooked *)

(* Numbers have a least, and bounded ones a greatest.                      *)
LEMMA LeastOf ==
  ASSUME NEW T \in SUBSET Nat, T # {}
  PROVE  \E x \in T : \A y \in T : x <= y
<1>1. PICK x \in T : \A y \in T : ~(<<y, x>> \in OpToRel(<, Nat))
  BY NatLessThanWellFounded, WFMin
<1>2. \A y \in T : ~(y < x)
  BY <1>1 DEF OpToRel
<1> QED
  BY <1>2

LEMMA GreatestOf ==
  ASSUME NEW S, S # {}, NEW f \in [S -> Nat], NEW bound \in Nat, \A u \in S : f[u] <= bound
  PROVE  \E u \in S : \A v \in S : f[v] <= f[u]
<1> DEFINE T == {bound - f[u] : u \in S}
<1>1. T \in SUBSET Nat /\ T # {}
  <2>1. \A u \in S : f[u] \in Nat /\ bound - f[u] \in Nat
    OBVIOUS
  <2> QED BY <2>1
<1>2. PICK x \in T : \A y \in T : x <= y
  <2> HIDE DEF T
  <2> QED BY <1>1, LeastOf
<1>3. PICK u \in S : x = bound - f[u]
  BY <1>2
<1>4. ASSUME NEW v \in S PROVE f[v] <= f[u]
  <2>1. bound - f[u] <= bound - f[v]
    BY <1>2, <1>3
  <2>2. f[u] \in Nat /\ f[v] \in Nat
    OBVIOUS
  <2> QED BY <2>1, <2>2
<1> QED
  BY <1>4

(* A queue is finite: its latencies are bounded, *)
LEMMA QueueIsBounded ==
  ASSUME NEW q \in Seq(Entries)
  PROVE  \E m \in Nat : \A i \in 1..Len(q) : q[i].latency <= m
<1> DEFINE Upto(n) == \E m \in Nat : \A i \in 1..n : q[i].latency <= m
           T == {n \in 0..Len(q) : ~Upto(n)}
<1>1. Len(q) \in Nat /\ \A i \in 1..Len(q) : q[i].latency \in Nat
  <2>1. \A i \in 1..Len(q) : q[i] \in Entries
    BY ElementOfSeq
  <2> QED BY <2>1, LenProperties, Constants DEF Entries
<1>2. ASSUME T # {} PROVE FALSE
  <2>1. T \in SUBSET Nat
    BY <1>1
  <2>2. PICK n \in T : \A k \in T : n <= k
    <3> HIDE DEF T
    <3> QED BY <1>2, <2>1, LeastOf
  <2>3. n \in 0..Len(q) /\ ~Upto(n)
    OBVIOUS
  <2> HIDE DEF T
  <2>4. Upto(0)
    <3>1. 0 \in Nat /\ \A i \in 1..0 : q[i].latency <= 0
      OBVIOUS
    <3> QED BY <3>1
  <2>5. n # 0
    BY <2>3, <2>4
  <2>6. n - 1 \in 0..Len(q) /\ ~(n <= n - 1)
    BY <2>3, <2>5, <1>1
  <2>7. Upto(n - 1)
    <3> HIDE DEF Upto
    <3> QED BY <2>2, <2>6 DEF T
  <2>8. PICK m \in Nat : \A i \in 1..(n - 1) : q[i].latency <= m
    BY <2>7
  <2>9. n \in 1..Len(q) /\ q[n].latency \in Nat
    <3> HIDE DEF Upto
    <3>1. n \in 1..Len(q)
      BY <1>1, <2>3, <2>5
    <3> QED BY <1>1, <3>1
  <2> DEFINE m2 == m + q[n].latency
  <2>10. m2 \in Nat /\ \A i \in 1..n : q[i].latency <= m2
    <3>1. ASSUME NEW i \in 1..n PROVE q[i].latency <= m2
      <4>1. i = n \/ i \in 1..(n - 1)
        BY <2>9
      <4>2. q[i].latency \in Nat
        BY <1>1, <2>9
      <4>3. CASE i = n
        BY <4>3, <2>9
      <4>4. CASE i \in 1..(n - 1)
        <5>1. q[i].latency <= m
          BY <4>4, <2>8
        <5> QED BY <5>1, <4>2, <2>9
      <4> QED BY <4>1, <4>3, <4>4
    <3>2. m2 \in Nat
      BY <2>9
    <3> QED BY <3>1, <3>2
  <2>11. Upto(n)
    <3> HIDE DEF m2
    <3> QED BY <2>10
  <2> QED BY <2>3, <2>11
<1>3. Upto(Len(q))
  <2>1. Len(q) \in 0..Len(q)
    BY <1>1
  <2> HIDE DEF Upto
  <2> QED BY <1>2, <2>1
<1> QED
  BY <1>3

(* and it has an upper median: send_tx_p50 is one of its latencies.        *)
LEMMA MedianExists ==
  ASSUME TypeOK, NEW u \in Upstreams, sent[u] # <<>>
  PROVE  P50(u) \in Nat \ {0}
<1> DEFINE q == sent[u]
           n == Len(q)
           Below(l) == {i \in DOMAIN q : q[i].latency < l}
           Upto(l) == {i \in DOMAIN q : q[i].latency <= l}
           L == {q[i].latency : i \in DOMAIN q}
           T == {l \in Nat : Cardinality(Upto(l)) > n \div 2}
<1>1. q \in Seq(Entries)
  BY DEF TypeOK, Entries
<1> HIDE DEF q
<1>2. n \in Nat \ {0} /\ DOMAIN q = 1..n
  BY <1>1, LenProperties, EmptySeq DEF q
<1>3. \A i \in 1..n : q[i].latency \in Nat \ {0}
  <2>1. \A i \in 1..n : q[i] \in Entries
    BY <1>1, ElementOfSeq
  <2>2. Latencies \subseteq Nat \ {0}
    BY RoutingAssumption
  <2> QED BY <2>1, <2>2 DEF Entries
<1> HIDE DEF n
<1>4. IsFiniteSet(1..n) /\ Cardinality(1..n) = n
  BY <1>2, FS_Interval
<1>5. n \div 2 \in Nat /\ n \div 2 < n
  <2>1. n \div 2 \in Nat /\ 2 * (n \div 2) <= n
    BY <1>2, Quotients
  <2> QED BY <2>1, <1>2
<1>6. T \in SUBSET Nat /\ T # {}
  <2>1. PICK m \in Nat : \A i \in 1..n : q[i].latency <= m
    BY <1>1, QueueIsBounded DEF n
  <2>2. Upto(m) = 1..n
    BY <1>2, <2>1
  <2>3. m \in T
    BY <1>4, <1>5, <2>2
  <2> QED BY <2>3
<1>7. PICK l \in T : \A k \in T : l <= k
  <2> HIDE DEF T
  <2> QED BY <1>6, LeastOf
<1>8. l \in Nat /\ Cardinality(Upto(l)) > n \div 2
  BY <1>7
<1>9. IsFiniteSet(Below(l)) /\ Cardinality(Below(l)) \in Nat
  BY <1>2, <1>4, FS_Subset, FS_CardinalityType
<1>10. Cardinality(Below(l)) <= n \div 2
  <2>1. CASE l = 0
    <3>1. Below(l) = {}
      BY <2>1, <1>2, <1>3
    <3>2. Cardinality(Below(l)) = 0
      BY <3>1, FS_EmptySet
    <3> HIDE DEF Below
    <3> QED BY <3>2, <1>5
  <2>2. CASE l # 0
    <3>1. l - 1 \in Nat /\ ~(l <= l - 1)
      BY <2>2, <1>8
    <3>2. l - 1 \notin T
      BY <3>1, <1>7
    <3>3. Below(l) = Upto(l - 1)
      BY <1>2, <1>3, <1>8, <3>1
    <3>4. ~(Cardinality(Upto(l - 1)) > n \div 2)
      BY <3>1, <3>2
    <3> HIDE DEF Below, Upto
    <3> QED BY <3>3, <3>4, <1>5, <1>9
  <2> QED BY <2>1, <2>2
<1>11. l \in L
  <2>1. ASSUME l \notin L PROVE FALSE
    <3>1. Upto(l) = Below(l)
      BY <2>1, <1>2, <1>3, <1>8
    <3> HIDE DEF Below, Upto
    <3> QED BY <3>1, <1>5, <1>8, <1>9, <1>10
  <2> QED BY <2>1
<1>12. P50(u) = CHOOSE x \in L : Cardinality(Below(x)) <= n \div 2 /\ Cardinality(Upto(x)) > n \div 2
  BY DEF P50, q, n
<1>13. P50(u) \in L
  <2> HIDE DEF L, Below, Upto
  <2> QED BY <1>8, <1>10, <1>11, <1>12
<1> QED
  BY <1>2, <1>3, <1>13

(* The ranking of sendTransaction has somebody to offer: its fastest.      *)
LEMMA RankingOffers ==
  ASSUME TypeOK, NEW exclude, Ranked(exclude) # {}
  PROVE  LET ranked == Ranked(exclude)
         IN /\ \E u \in ranked : RankScore(u, ranked) > 0
            /\ \E bound \in Nat : \A u \in ranked :
                 RankScore(u, ranked) \in Nat /\ RankScore(u, ranked) <= bound
<1> DEFINE ranked == Ranked(exclude)
           P == {P50(v) : v \in ranked}
           best == CHOOSE p \in P : \A v \in ranked : p <= P50(v)
<1>1. \A u \in ranked : u \in Upstreams /\ sent[u] # <<>>
  BY DEF Ranked
<1>2. \A u \in ranked : P50(u) \in Nat \ {0}
  BY <1>1, MedianExists
<1>3. ranked # {}
  OBVIOUS
<1> HIDE DEF ranked
<1>4. P \in SUBSET Nat /\ P # {}
  BY <1>2, <1>3
<1>5. PICK p \in P : \A y \in P : p <= y
  <2> HIDE DEF P
  <2> QED BY <1>4, LeastOf
<1>6. best \in P /\ \A v \in ranked : best <= P50(v)
  <2>1. \A v \in ranked : p <= P50(v)
    BY <1>5
  <2> HIDE DEF P
  <2> QED BY <1>5, <2>1
<1>7. PICK b \in ranked : P50(b) = best
  BY <1>6
<1>8. \A u \in ranked : RankScore(u, ranked) = (One * best) \div P50(u)
  BY DEF RankScore
<1> HIDE DEF best
<1>9. best \in Nat \ {0} /\ One * best \in Nat /\ best <= One * best
  <2>1. best \in Nat \ {0}
    BY <1>2, <1>7
  <2>2. best * 1 <= best * One /\ best * One \in Nat
    BY <2>1, Constants, ProductsGrow
  <2>3. best * One = One * best
    BY <2>1, Constants
  <2> QED BY <2>1, <2>2, <2>3
<1>10. RankScore(b, ranked) > 0
  <2>1. (One * best) \div best \in Nat \ {0}
    BY <1>9, NoQuotientVanishes
  <2> QED BY <2>1, <1>7, <1>8
<1>11. ASSUME NEW u \in ranked
       PROVE  RankScore(u, ranked) \in Nat /\ RankScore(u, ranked) <= One * best
  <2> DEFINE s == (One * best) \div P50(u)
  <2>1. s \in Nat /\ P50(u) * s <= One * best /\ P50(u) \in Nat \ {0}
    BY <1>2, <1>9, Quotients
  <2>2. s = RankScore(u, ranked)
    BY <1>8
  <2> HIDE DEF s
  <2>3. s * 1 <= s * P50(u) /\ s * P50(u) = P50(u) * s /\ s * P50(u) \in Nat
    BY <2>1, ProductsGrow
  <2> QED BY <2>1, <2>2, <2>3, <1>9
<1> QED
  BY <1>9, <1>10, <1>11 DEF ranked

(* A score of MethodScore is a number, and there is a highest possible.    *)
LEMMA ScoresAreBounded ==
  ASSUME TypeOK
  PROVE  \E bound \in Nat : \A u \in Upstreams :
           MethodScore(u) \in Nat /\ MethodScore(u) <= bound
<1> DEFINE top == Weighted(100 * One, One)
<1>1. One \in Nat /\ 100 * One \in Nat /\ One \div 2 \in Nat /\ One \div 2 <= One
  <2>1. One \div 2 \in Nat /\ 2 * (One \div 2) <= One
    BY Constants, Quotients
  <2> QED BY <2>1, Constants
<1>2. ASSUME NEW u \in Upstreams
      PROVE  MethodScore(u) \in Nat /\ MethodScore(u) <= 10 * top /\ top \in Nat
  <2> DEFINE ls == IF u \in measured THEN LatencyScore(latency[u]) ELSE One \div 2
             ss == IF u \in measured THEN (One * success[u]) \div Full ELSE One \div 2
             k == IF u \in lagging THEN 1 ELSE 10
  <2>1. latency_weight \in Nat /\ latency[u] \in Nat /\ success[u] \in 0..Full
    BY NumbersOf
  <2>2. LatencyScore(latency[u]) \in Nat /\ LatencyScore(latency[u]) <= 100 * One
    <3>1. LatencyScore(0) = (100 * One) \div 100
      <4>1. 100 + Unit * 0 = 100
        BY Constants
      <4> QED BY <4>1 DEF LatencyScore
    <3>2. LatencyScore(latency[u]) \in Nat /\ LatencyScore(latency[u]) <= LatencyScore(0)
      BY <2>1, LatencyScoreFalls
    <3> DEFINE d == (100 * One) \div 100
    <3>3. d \in Nat /\ 100 * d <= 100 * One
      BY <1>1, Quotients
    <3> HIDE DEF d
    <3> QED BY <3>1, <3>2, <3>3, <1>1 DEF d
  <2>3. (One * success[u]) \div Full \in Nat /\ (One * success[u]) \div Full <= One
    <3>1. success[u] <= success[u]
      BY <2>1, Constants
    <3> QED BY <2>1, <3>1, SuccessShare
  <2>4. ls \in Nat /\ ls <= 100 * One /\ ss \in Nat /\ ss <= One /\ k \in {1, 10}
    <3> HIDE DEF One
    <3> QED BY <1>1, <2>2, <2>3
  <2>5. MethodScore(u) = Weighted(ls, ss) * k
    BY DEF MethodScore
  <2> HIDE DEF ls, ss, k
  <2>6. Weighted(ls, ss) \in Nat /\ top \in Nat /\ Weighted(ls, ss) <= top
    BY <1>1, <2>1, <2>4, WeightedGrows
  <2> HIDE DEF top
  <2> QED BY <2>4, <2>5, <2>6
<1> HIDE DEF top
<1>3. CASE Upstreams = {}
  BY <1>3
<1>4. CASE Upstreams # {}
  <2>1. 10 * top \in Nat
    BY <1>2, <1>4
  <2> QED BY <1>2, <2>1
<1> QED
  BY <1>3, <1>4

(* Among candidates there is a best one, and hysteresis names somebody.    *)
LEMMA SomebodyIsPreferred ==
  ASSUME NEW S, NEW score, DOMAIN score = S, NEW gone, NEW exclude, NEW lead, NEW margin,
         \E bound \in Nat : \A u \in S : score[u] \in Nat /\ score[u] <= bound,
         NEW w \in S, w \notin exclude, w \notin gone, score[w] > 0
  PROVE  Preferred(score, Candidates(score, gone, exclude), lead, margin) # {}
<1> DEFINE c == Candidates(score, gone, exclude)
           f == [u \in c |-> score[u]]
<1>1. PICK bound \in Nat : \A u \in S : score[u] \in Nat /\ score[u] <= bound
  OBVIOUS
<1>2. w \in c /\ c \subseteq S
  BY DEF Candidates
<1> HIDE DEF c
<1>3. f \in [c -> Nat] /\ \A u \in c : f[u] = score[u] /\ f[u] <= bound
  BY <1>1, <1>2
<1>4. PICK u \in c : \A v \in c : f[v] <= f[u]
  <2> HIDE DEF f
  <2> QED BY <1>2, <1>3, GreatestOf
<1>5. u \in Best(score, c)
  BY <1>3, <1>4 DEF Best
<1> QED
  BY <1>5 DEF Preferred, c

(* select_for_method (router.rs:19-93) turns a request away only for want  *)
(* of an upstream: with one that is neither excluded nor dropped, and was  *)
(* not last heard of by a failure of the method, there is a choice.        *)
THEOREM NobodyOverlooked == Spec => []NobodyIsOverlooked
<1>1. ASSUME RInv, NEW r \in Requests, Choice(r) = {},
             NEW u \in Upstreams \ (excluded[r] \cup dropped)
      PROVE  /\ latency_weight = 0
             /\ SuccessWeight = 0 \/ u \in failing
  <2> DEFINE x == excluded[r]
             ranked == Ranked(x)
             score == Scores(x)
  <2>1. TypeOK
    BY <1>1 DEF RInv
  <2>2. CASE ranked # {}
    <3>1. score = [v \in ranked |-> RankScore(v, ranked)]
      BY <2>2 DEF Scores
    <3>2. /\ \E v \in ranked : RankScore(v, ranked) > 0
          /\ \E bound \in Nat : \A v \in ranked :
               RankScore(v, ranked) \in Nat /\ RankScore(v, ranked) <= bound
      BY <2>1, <2>2, RankingOffers
    <3>3. \A v \in ranked : v \notin x /\ v \notin dropped
      BY DEF Ranked
    <3> HIDE DEF score, ranked
    <3>4. Preferred(score, Candidates(score, dropped, x), leader, Margin) # {}
      BY <3>1, <3>2, <3>3, SomebodyIsPreferred
    <3> QED BY <3>4, <1>1 DEF Choice, score
  <2>3. CASE ranked = {}
    <3>1. score = [v \in Upstreams |-> MethodScore(v)]
      BY <2>3 DEF Scores
    <3>2. \E bound \in Nat : \A v \in Upstreams :
             MethodScore(v) \in Nat /\ MethodScore(v) <= bound
      BY <2>1, ScoresAreBounded
    <3>3. MethodScore(u) \in Nat
      BY <3>2
    <3>4. CASE MethodScore(u) = 0
      BY <3>4, <1>1, ZeroScores
    <3>5. CASE MethodScore(u) > 0
      <4> HIDE DEF score
      <4>1. Preferred(score, Candidates(score, dropped, x), leader, Margin) # {}
        BY <3>1, <3>2, <3>5, SomebodyIsPreferred
      <4> QED BY <4>1, <1>1 DEF Choice, score
    <3> QED BY <3>3, <3>4, <3>5
  <2> QED BY <2>2, <2>3
<1>2. RInv => NobodyIsOverlooked
  BY <1>1 DEF NobodyIsOverlooked
<1> QED
  BY <1>2, RoutingInvariant, PTL

=============================================================================
