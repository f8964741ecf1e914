---------------------------- MODULE MetricsProofs ----------------------------
(***************************************************************************)
(* What holds of Metrics for any upstreams, attempts, bounds, latencies    *)
(* and number of requests: the counters account for each other, and a page *)
(* scraped while they move is still a histogram.                           *)
(***************************************************************************)
EXTENDS Metrics, FiniteSetTheorems, TLAPS

-----------------------------------------------------------------------------
(* 1. The counters *)

(* Types, but for the bound on requests, which follows from Accounted. *)
Counted ==
  /\ routing_decisions \in [Upstreams -> 0..MaxRouted]
  /\ requests \in [Upstreams -> [Statuses -> Nat]]
  /\ duration_buckets \in [Upstreams -> [Buckets -> Nat]]
  /\ duration_sum \in [Upstreams -> Nat] /\ duration_count \in [Upstreams -> Nat]
  /\ pc \in [Attempts -> {"idle", "inflight", "counted", "filled", "summed"}]
  /\ at \in [Attempts -> Upstreams \cup {Nobody}]
  /\ latency \in [Attempts -> Nat]
  /\ cut \in [Upstreams -> Nat]

(* An attempt under way has an upstream. *)
Located == \A a \in Attempts : pc[a] # "idle" => at[a] \in Upstreams

CInv == Counted /\ Located /\ Accounted

(* On, as a function of the two variables it is about. *)
Group(p, t, u, S) == {a \in Attempts : t[a] = u /\ p[a] \in S}

LEMMA OnIsFinite ==
  ASSUME NEW u, NEW S
  PROVE  /\ IsFiniteSet(On(u, S)) /\ Cardinality(On(u, S)) \in Nat
         /\ On(u, S) \subseteq Attempts
         /\ Cardinality(On(u, S)) <= Cardinality(Attempts) /\ Cardinality(Attempts) \in Nat
<1>1. On(u, S) \subseteq Attempts /\ IsFiniteSet(Attempts)
  BY MetricsAssumption DEF On
<1> QED
  BY <1>1, FS_Subset, FS_CardinalityType

(* An attempt that moves leaves one group and joins another. *)
LEMMA Moving ==
  ASSUME NEW a \in Attempts, \A x \in Attempts \ {a} : pc'[x] = pc[x] /\ at'[x] = at[x],
         NEW u, NEW S
  PROVE  Cardinality(Group(pc', at', u, S))
           = Cardinality(Group(pc, at, u, S)) - (IF at[a] = u /\ pc[a] \in S THEN 1 ELSE 0)
                                              + (IF at'[a] = u /\ pc'[a] \in S THEN 1 ELSE 0)
<1> DEFINE rest == Group(pc, at, u, S) \ {a}
<1>1. /\ IsFiniteSet(Group(pc, at, u, S)) /\ Cardinality(Group(pc, at, u, S)) \in Nat
  BY OnIsFinite DEF On, Group
<1>2. /\ IsFiniteSet(rest)
      /\ Cardinality(rest) = Cardinality(Group(pc, at, u, S))
                               - (IF a \in Group(pc, at, u, S) THEN 1 ELSE 0)
  BY <1>1, FS_RemoveElement
<1>3. a \notin rest /\ (a \in Group(pc, at, u, S) <=> at[a] = u /\ pc[a] \in S)
  BY DEF Group
<1>4. Group(pc', at', u, S) = IF at'[a] = u /\ pc'[a] \in S THEN rest \cup {a} ELSE rest
  BY DEF Group
<1>5. Cardinality(rest \cup {a}) = Cardinality(rest) + 1
  BY <1>2, <1>3, FS_AddElement
<1>6. Cardinality(rest) \in Nat
  BY <1>2, FS_CardinalityType
<1> HIDE DEF rest
<1> QED
  BY <1>1, <1>2, <1>3, <1>4, <1>5, <1>6

LEMMA NobodyMoves ==
  ASSUME UNCHANGED <<pc, at>>, NEW u, NEW S PROVE On(u, S)' = On(u, S)
BY DEF On

LEMMA CInvInit == Init => CInv
<1> SUFFICES ASSUME Init PROVE CInv
  OBVIOUS
<1>1. \A u \in Upstreams, S \in {{"inflight"}, {"counted"}, {"filled", "summed"}} :
        Cardinality(On(u, S)) = 0
  <2> SUFFICES ASSUME NEW u \in Upstreams, NEW S \in {{"inflight"}, {"counted"}, {"filled", "summed"}}
               PROVE  Cardinality(On(u, S)) = 0
    OBVIOUS
  <2>1. On(u, S) = {}
    BY DEF Init, On
  <2> QED BY <2>1, FS_EmptySet
<1>2. Counted
  BY MetricsAssumption DEF Init, Counted, PerUpstream, NoRequests, NoBuckets
<1>3. Located
  BY DEF Init, Located
<1>4. Accounted
  BY <1>1 DEF Init, Accounted, Answered, PerUpstream, NoRequests, NoBuckets, Statuses, Buckets
<1> QED
  BY <1>2, <1>3, <1>4 DEF CInv

LEMMA NumbersAreNaturals ==
  ASSUME Counted, NEW u \in Upstreams
  PROVE  /\ routing_decisions[u] \in Nat /\ cut[u] \in Nat
         /\ duration_count[u] \in Nat
         /\ \A s \in Statuses : requests[u][s] \in Nat
         /\ requests[u]["ok"] \in Nat /\ requests[u]["error"] \in Nat
         /\ Answered(requests[u]) \in Nat
         /\ \A b \in Buckets : duration_buckets[u][b] \in Nat
         /\ Inf \in Buckets /\ duration_buckets[u][Inf] \in Nat
BY DEF Counted, Statuses, Answered, Buckets

LEMMA CInvStep == CInv /\ [Next]_vars => CInv'
<1> SUFFICES ASSUME Counted, Located, Accounted, [Next]_vars PROVE CInv'
  BY DEF CInv
<1> DEFINE Inflight(u) == Cardinality(Group(pc, at, u, {"inflight"}))
           Half(u) == Cardinality(Group(pc, at, u, {"counted"}))
           Late(u) == Cardinality(Group(pc, at, u, {"filled", "summed"}))
<1>n. \A u \in Upstreams : Inflight(u) \in Nat /\ Half(u) \in Nat /\ Late(u) \in Nat
  BY OnIsFinite DEF On, Group
<1>p. /\ pc \in [Attempts -> {"idle", "inflight", "counted", "filled", "summed"}]
      /\ at \in [Attempts -> Upstreams \cup {Nobody}]
  BY DEF Counted
<1>1. ASSUME NEW a \in Attempts, NEW v \in Upstreams, Route(a, v) PROVE CInv'
  <2>1. /\ pc[a] = "idle" /\ pc' = [pc EXCEPT ![a] = "inflight"] /\ at' = [at EXCEPT ![a] = v]
        /\ routing_decisions[v] < MaxRouted
        /\ routing_decisions' = [routing_decisions EXCEPT ![v] = @ + 1]
        /\ UNCHANGED <<requests, duration_buckets, duration_sum, duration_count, latency, cut>>
    BY <1>1 DEF Route, Goes, histogram
  <2>2. Counted'
    BY <2>1, MetricsAssumption DEF Counted
  <2>3. Located'
    BY <2>1, <1>p DEF Located
  <2>4. ASSUME NEW u \in Upstreams
        PROVE  /\ Inflight(u)' = Inflight(u) + (IF v = u THEN 1 ELSE 0)
               /\ Half(u)' = Half(u) /\ Late(u)' = Late(u)
    <3>1. /\ \A x \in Attempts \ {a} : pc'[x] = pc[x] /\ at'[x] = at[x]
          /\ pc'[a] = "inflight" /\ at'[a] = v
      BY <2>1, <1>p
    <3>2. Inflight(u)' = Inflight(u) - (IF at[a] = u /\ pc[a] \in {"inflight"} THEN 1 ELSE 0)
                                     + (IF at'[a] = u /\ pc'[a] \in {"inflight"} THEN 1 ELSE 0)
      BY <3>1, Moving
    <3>3. Half(u)' = Half(u) - (IF at[a] = u /\ pc[a] \in {"counted"} THEN 1 ELSE 0)
                             + (IF at'[a] = u /\ pc'[a] \in {"counted"} THEN 1 ELSE 0)
      BY <3>1, Moving
    <3>4. Late(u)' = Late(u) - (IF at[a] = u /\ pc[a] \in {"filled", "summed"} THEN 1 ELSE 0)
                             + (IF at'[a] = u /\ pc'[a] \in {"filled", "summed"} THEN 1 ELSE 0)
      BY <3>1, Moving
    <3> HIDE DEF Inflight, Half, Late
    <3> QED BY <2>1, <3>1, <3>2, <3>3, <3>4, <1>n
  <2>5. ASSUME NEW u \in Upstreams
        PROVE  routing_decisions'[u] = routing_decisions[u] + (IF v = u THEN 1 ELSE 0)
    BY <2>1, NumbersAreNaturals DEF Counted
  <2>6. Accounted'
    <3> HIDE DEF Inflight, Half, Late
    <3> SUFFICES ASSUME NEW u \in Upstreams
        PROVE /\ routing_decisions'[u] = Answered(requests[u]) + cut[u] + Inflight(u)'
              /\ Answered(requests[u]) = duration_buckets[u][Inf] + Half(u)'
              /\ duration_buckets[u][Inf] = duration_count[u] + Late(u)'
      BY <2>1 DEF Accounted, On, Group, Inflight, Half, Late
    <3>1. /\ routing_decisions[u] = Answered(requests[u]) + cut[u] + Inflight(u)
          /\ Answered(requests[u]) = duration_buckets[u][Inf] + Half(u)
          /\ duration_buckets[u][Inf] = duration_count[u] + Late(u)
      BY DEF Accounted, On, Group, Inflight, Half, Late
    <3> QED BY <3>1, <2>4, <2>5, <1>n, NumbersAreNaturals
  <2> QED BY <2>2, <2>3, <2>6 DEF CInv
<1>2. ASSUME NEW a \in Attempts, NEW s \in Statuses, NEW l \in Latencies, CountRequest(a, s, l) PROVE CInv'
  <2>1. /\ pc[a] = "inflight" /\ pc' = [pc EXCEPT ![a] = "counted"] /\ at' = [at EXCEPT ![a] = at[a]]
        /\ at[a] \in Upstreams
        /\ latency' = [latency EXCEPT ![a] = l] /\ requests' = [requests EXCEPT ![at[a]][s] = @ + 1]
        /\ UNCHANGED <<routing_decisions, duration_buckets, duration_sum, duration_count, cut>>
    BY <1>2, <1>p DEF CountRequest, Goes, histogram, counters, Leaves, Located
  <2>2. Counted'
    <3>1. latency' \in [Attempts -> Nat]
      BY <2>1, MetricsAssumption DEF Counted
    <3>2. requests' \in [Upstreams -> [Statuses -> Nat]]
      BY <2>1 DEF Counted
    <3> QED BY <2>1, <3>1, <3>2 DEF Counted
  <2>3. Located'
    BY <2>1, <1>p DEF Located
  <2>4. ASSUME NEW u \in Upstreams
        PROVE  /\ Inflight(u)' = Inflight(u) - (IF at[a] = u THEN 1 ELSE 0)
               /\ Half(u)' = Half(u) + (IF at[a] = u THEN 1 ELSE 0)
               /\ Late(u)' = Late(u)
    <3>1. /\ \A x \in Attempts \ {a} : pc'[x] = pc[x] /\ at'[x] = at[x]
          /\ pc'[a] = "counted" /\ at'[a] = at[a] /\ Nobody # u
      BY <2>1, <1>p, MetricsAssumption
    <3>2. Inflight(u)' = Inflight(u) - (IF at[a] = u /\ pc[a] \in {"inflight"} THEN 1 ELSE 0)
                                     + (IF at'[a] = u /\ pc'[a] \in {"inflight"} THEN 1 ELSE 0)
      BY <3>1, Moving
    <3>3. Half(u)' = Half(u) - (IF at[a] = u /\ pc[a] \in {"counted"} THEN 1 ELSE 0)
                             + (IF at'[a] = u /\ pc'[a] \in {"counted"} THEN 1 ELSE 0)
      BY <3>1, Moving
    <3>4. Late(u)' = Late(u) - (IF at[a] = u /\ pc[a] \in {"filled", "summed"} THEN 1 ELSE 0)
                             + (IF at'[a] = u /\ pc'[a] \in {"filled", "summed"} THEN 1 ELSE 0)
      BY <3>1, Moving
    <3> HIDE DEF Inflight, Half, Late
    <3> QED BY <2>1, <3>1, <3>2, <3>3, <3>4, <1>n
  <2>5. ASSUME NEW u \in Upstreams
        PROVE  Answered(requests'[u]) = Answered(requests[u]) + (IF at[a] = u THEN 1 ELSE 0)
    <3>1. CASE at[a] # u
      BY <2>1, <3>1, NumbersAreNaturals DEF Counted
    <3>2. CASE at[a] = u
      <4>1. requests'[u] = [requests[u] EXCEPT ![s] = @ + 1]
        BY <2>1, <3>2 DEF Counted
      <4>2. requests[u] \in [Statuses -> Nat]
        BY DEF Counted
      <4>3. s = "ok" \/ s = "error"
        BY DEF Statuses
      <4> QED BY <3>2, <4>1, <4>2, <4>3 DEF Answered, Statuses
    <3> QED BY <3>1, <3>2
  <2>6. Accounted'
    <3> HIDE DEF Inflight, Half, Late
    <3> SUFFICES ASSUME NEW u \in Upstreams
        PROVE /\ routing_decisions'[u] = Answered(requests'[u]) + cut'[u] + Inflight(u)'
              /\ Answered(requests'[u]) = duration_buckets'[u][Inf] + Half(u)'
              /\ duration_buckets'[u][Inf] = duration_count'[u] + Late(u)'
      BY <2>1 DEF Accounted, On, Group, Inflight, Half, Late
    <3>1. /\ routing_decisions[u] = Answered(requests[u]) + cut[u] + Inflight(u)
          /\ Answered(requests[u]) = duration_buckets[u][Inf] + Half(u)
          /\ duration_buckets[u][Inf] = duration_count[u] + Late(u)
      BY DEF Accounted, On, Group, Inflight, Half, Late
    <3> QED BY <3>1, <2>1, <2>4, <2>5, <1>n, NumbersAreNaturals
  <2> QED BY <2>2, <2>3, <2>6 DEF CInv
<1>3. ASSUME NEW a \in Attempts, FillBuckets(a) PROVE CInv'
  <2>1. /\ pc[a] = "counted" /\ pc' = [pc EXCEPT ![a] = "filled"] /\ at' = [at EXCEPT ![a] = at[a]]
        /\ at[a] \in Upstreams
        /\ latency' = latency /\ duration_buckets' = [duration_buckets EXCEPT ![at[a]] = Filled(@, latency[a])]
        /\ UNCHANGED <<routing_decisions, requests, duration_sum, duration_count, cut>>
    BY <1>3, <1>p DEF FillBuckets, Goes, histogram, counters, Leaves, Located
  <2>2. Counted'
    <3>1. ASSUME NEW c \in [Buckets -> Nat] PROVE Filled(c, latency[a]) \in [Buckets -> Nat]
      BY DEF Filled
    <3>2. duration_buckets' \in [Upstreams -> [Buckets -> Nat]]
      BY <2>1, <3>1 DEF Counted
    <3> QED BY <2>1, <3>2 DEF Counted
  <2>3. Located'
    BY <2>1, <1>p DEF Located
  <2>4. ASSUME NEW u \in Upstreams
        PROVE  /\ Inflight(u)' = Inflight(u)
               /\ Half(u)' = Half(u) - (IF at[a] = u THEN 1 ELSE 0)
               /\ Late(u)' = Late(u) + (IF at[a] = u THEN 1 ELSE 0)
    <3>1. /\ \A x \in Attempts \ {a} : pc'[x] = pc[x] /\ at'[x] = at[x]
          /\ pc'[a] = "filled" /\ at'[a] = at[a] /\ Nobody # u
      BY <2>1, <1>p, MetricsAssumption
    <3>2. Inflight(u)' = Inflight(u) - (IF at[a] = u /\ pc[a] \in {"inflight"} THEN 1 ELSE 0)
                                     + (IF at'[a] = u /\ pc'[a] \in {"inflight"} THEN 1 ELSE 0)
      BY <3>1, Moving
    <3>3. Half(u)' = Half(u) - (IF at[a] = u /\ pc[a] \in {"counted"} THEN 1 ELSE 0)
                             + (IF at'[a] = u /\ pc'[a] \in {"counted"} THEN 1 ELSE 0)
      BY <3>1, Moving
    <3>4. Late(u)' = Late(u) - (IF at[a] = u /\ pc[a] \in {"filled", "summed"} THEN 1 ELSE 0)
                             + (IF at'[a] = u /\ pc'[a] \in {"filled", "summed"} THEN 1 ELSE 0)
      BY <3>1, Moving
    <3> HIDE DEF Inflight, Half, Late
    <3> QED BY <2>1, <3>1, <3>2, <3>3, <3>4, <1>n
  <2>5. ASSUME NEW u \in Upstreams
        PROVE  duration_buckets'[u][Inf] = duration_buckets[u][Inf] + (IF at[a] = u THEN 1 ELSE 0)
    <3>1. CASE at[a] # u
      BY <2>1, <3>1, NumbersAreNaturals DEF Counted
    <3>2. CASE at[a] = u
      <4>1. duration_buckets'[u] = Filled(duration_buckets[u], latency[a])
        BY <2>1, <3>2 DEF Counted
      <4> QED BY <3>2, <4>1 DEF Filled, Buckets
    <3> QED BY <3>1, <3>2
  <2>6. Accounted'
    <3> HIDE DEF Inflight, Half, Late
    <3> SUFFICES ASSUME NEW u \in Upstreams
        PROVE /\ routing_decisions'[u] = Answered(requests'[u]) + cut'[u] + Inflight(u)'
              /\ Answered(requests'[u]) = duration_buckets'[u][Inf] + Half(u)'
              /\ duration_buckets'[u][Inf] = duration_count'[u] + Late(u)'
      BY <2>1 DEF Accounted, On, Group, Inflight, Half, Late
    <3>1. /\ routing_decisions[u] = Answered(requests[u]) + cut[u] + Inflight(u)
          /\ Answered(requests[u]) = duration_buckets[u][Inf] + Half(u)
          /\ duration_buckets[u][Inf] = duration_count[u] + Late(u)
      BY DEF Accounted, On, Group, Inflight, Half, Late
    <3> QED BY <3>1, <2>1, <2>4, <2>5, <1>n, NumbersAreNaturals
  <2> QED BY <2>2, <2>3, <2>6 DEF CInv
<1>4. ASSUME NEW a \in Attempts, AddSum(a) PROVE CInv'
  <2>1. /\ pc[a] = "filled" /\ pc' = [pc EXCEPT ![a] = "summed"] /\ at' = [at EXCEPT ![a] = at[a]]
        /\ at[a] \in Upstreams
        /\ latency' = latency /\ duration_sum' = [duration_sum EXCEPT ![at[a]] = @ + latency[a] \div 2]
        /\ UNCHANGED <<routing_decisions, requests, duration_buckets, duration_count, cut>>
    BY <1>4, <1>p DEF AddSum, Goes, histogram, counters, Leaves, Located
  <2>2. Counted'
    <3>1. latency[a] \div 2 \in Nat
      BY DEF Counted
    <3>2. duration_sum' \in [Upstreams -> Nat]
      BY <2>1, <3>1 DEF Counted
    <3> QED BY <2>1, <3>2 DEF Counted
  <2>3. Located'
    BY <2>1, <1>p DEF Located
  <2>4. ASSUME NEW u \in Upstreams
        PROVE  /\ Inflight(u)' = Inflight(u)
               /\ Half(u)' = Half(u)
               /\ Late(u)' = Late(u)
    <3>1. /\ \A x \in Attempts \ {a} : pc'[x] = pc[x] /\ at'[x] = at[x]
          /\ pc'[a] = "summed" /\ at'[a] = at[a] /\ Nobody # u
      BY <2>1, <1>p, MetricsAssumption
    <3>2. Inflight(u)' = Inflight(u) - (IF at[a] = u /\ pc[a] \in {"inflight"} THEN 1 ELSE 0)
                                     + (IF at'[a] = u /\ pc'[a] \in {"inflight"} THEN 1 ELSE 0)
      BY <3>1, Moving
    <3>3. Half(u)' = Half(u) - (IF at[a] = u /\ pc[a] \in {"counted"} THEN 1 ELSE 0)
                             + (IF at'[a] = u /\ pc'[a] \in {"counted"} THEN 1 ELSE 0)
      BY <3>1, Moving
    <3>4. Late(u)' = Late(u) - (IF at[a] = u /\ pc[a] \in {"filled", "summed"} THEN 1 ELSE 0)
                             + (IF at'[a] = u /\ pc'[a] \in {"filled", "summed"} THEN 1 ELSE 0)
      BY <3>1, Moving
    <3> HIDE DEF Inflight, Half, Late
    <3> QED BY <2>1, <3>1, <3>2, <3>3, <3>4, <1>n
  <2>5. TRUE
    OBVIOUS
  <2>6. Accounted'
    <3> HIDE DEF Inflight, Half, Late
    <3> SUFFICES ASSUME NEW u \in Upstreams
        PROVE /\ routing_decisions'[u] = Answered(requests'[u]) + cut'[u] + Inflight(u)'
              /\ Answered(requests'[u]) = duration_buckets'[u][Inf] + Half(u)'
              /\ duration_buckets'[u][Inf] = duration_count'[u] + Late(u)'
      BY <2>1 DEF Accounted, On, Group, Inflight, Half, Late
    <3>1. /\ routing_decisions[u] = Answered(requests[u]) + cut[u] + Inflight(u)
          /\ Answered(requests[u]) = duration_buckets[u][Inf] + Half(u)
          /\ duration_buckets[u][Inf] = duration_count[u] + Late(u)
      BY DEF Accounted, On, Group, Inflight, Half, Late
    <3> QED BY <3>1, <2>1, <2>4, <2>5, <1>n, NumbersAreNaturals
  <2> QED BY <2>2, <2>3, <2>6 DEF CInv
<1>5. ASSUME NEW a \in Attempts, AddCount(a) PROVE CInv'
  <2>1. /\ pc[a] = "summed" /\ pc' = [pc EXCEPT ![a] = "idle"] /\ at' = [at EXCEPT ![a] = Nobody]
        /\ at[a] \in Upstreams
        /\ latency' = [latency EXCEPT ![a] = 0] /\ duration_count' = [duration_count EXCEPT ![at[a]] = @ + 1]
        /\ UNCHANGED <<routing_decisions, requests, duration_buckets, duration_sum, cut>>
    BY <1>5, <1>p DEF AddCount, Goes, histogram, counters, Leaves, Located
  <2>2. Counted'
    BY <2>1 DEF Counted
  <2>3. Located'
    BY <2>1, <1>p DEF Located
  <2>4. ASSUME NEW u \in Upstreams
        PROVE  /\ Inflight(u)' = Inflight(u)
               /\ Half(u)' = Half(u)
               /\ Late(u)' = Late(u) - (IF at[a] = u THEN 1 ELSE 0)
    <3>1. /\ \A x \in Attempts \ {a} : pc'[x] = pc[x] /\ at'[x] = at[x]
          /\ pc'[a] = "idle" /\ at'[a] = Nobody /\ Nobody # u
      BY <2>1, <1>p, MetricsAssumption
    <3>2. Inflight(u)' = Inflight(u) - (IF at[a] = u /\ pc[a] \in {"inflight"} THEN 1 ELSE 0)
                                     + (IF at'[a] = u /\ pc'[a] \in {"inflight"} THEN 1 ELSE 0)
      BY <3>1, Moving
    <3>3. Half(u)' = Half(u) - (IF at[a] = u /\ pc[a] \in {"counted"} THEN 1 ELSE 0)
                             + (IF at'[a] = u /\ pc'[a] \in {"counted"} THEN 1 ELSE 0)
      BY <3>1, Moving
    <3>4. Late(u)' = Late(u) - (IF at[a] = u /\ pc[a] \in {"filled", "summed"} THEN 1 ELSE 0)
                             + (IF at'[a] = u /\ pc'[a] \in {"filled", "summed"} THEN 1 ELSE 0)
      BY <3>1, Moving
    <3> HIDE DEF Inflight, Half, Late
    <3> QED BY <2>1, <3>1, <3>2, <3>3, <3>4, <1>n
  <2>5. ASSUME NEW u \in Upstreams
        PROVE  duration_count'[u] = duration_count[u] + (IF at[a] = u THEN 1 ELSE 0)
    BY <2>1, NumbersAreNaturals DEF Counted
  <2>6. Accounted'
    <3> HIDE DEF Inflight, Half, Late
    <3> SUFFICES ASSUME NEW u \in Upstreams
        PROVE /\ routing_decisions'[u] = Answered(requests'[u]) + cut'[u] + Inflight(u)'
              /\ Answered(requests'[u]) = duration_buckets'[u][Inf] + Half(u)'
              /\ duration_buckets'[u][Inf] = duration_count'[u] + Late(u)'
      BY <2>1 DEF Accounted, On, Group, Inflight, Half, Late
    <3>1. /\ routing_decisions[u] = Answered(requests[u]) + cut[u] + Inflight(u)
          /\ Answered(requests[u]) = duration_buckets[u][Inf] + Half(u)
          /\ duration_buckets[u][Inf] = duration_count[u] + Late(u)
      BY DEF Accounted, On, Group, Inflight, Half, Late
    <3> QED BY <3>1, <2>1, <2>4, <2>5, <1>n, NumbersAreNaturals
  <2> QED BY <2>2, <2>3, <2>6 DEF CInv
<1>6. ASSUME NEW a \in Attempts, Cut(a) PROVE CInv'
  <2>1. /\ pc[a] = "inflight" /\ pc' = [pc EXCEPT ![a] = "idle"] /\ at' = [at EXCEPT ![a] = Nobody]
        /\ at[a] \in Upstreams
        /\ latency' = [latency EXCEPT ![a] = 0] /\ cut' = [cut EXCEPT ![at[a]] = @ + 1]
        /\ UNCHANGED <<routing_decisions, requests, duration_buckets, duration_sum, duration_count>>
    BY <1>6, <1>p DEF Cut, Goes, histogram, counters, Leaves, Located
  <2>2. Counted'
    BY <2>1 DEF Counted
  <2>3. Located'
    BY <2>1, <1>p DEF Located
  <2>4. ASSUME NEW u \in Upstreams
        PROVE  /\ Inflight(u)' = Inflight(u) - (IF at[a] = u THEN 1 ELSE 0)
               /\ Half(u)' = Half(u)
               /\ Late(u)' = Late(u)
    <3>1. /\ \A x \in Attempts \ {a} : pc'[x] = pc[x] /\ at'[x] = at[x]
          /\ pc'[a] = "idle" /\ at'[a] = Nobody /\ Nobody # u
      BY <2>1, <1>p, MetricsAssumption
    <3>2. Inflight(u)' = Inflight(u) - (IF at[a] = u /\ pc[a] \in {"inflight"} THEN 1 ELSE 0)
                                     + (IF at'[a] = u /\ pc'[a] \in {"inflight"} THEN 1 ELSE 0)
      BY <3>1, Moving
    <3>3. Half(u)' = Half(u) - (IF at[a] = u /\ pc[a] \in {"counted"} THEN 1 ELSE 0)
                             + (IF at'[a] = u /\ pc'[a] \in {"counted"} THEN 1 ELSE 0)
      BY <3>1, Moving
    <3>4. Late(u)' = Late(u) - (IF at[a] = u /\ pc[a] \in {"filled", "summed"} THEN 1 ELSE 0)
                             + (IF at'[a] = u /\ pc'[a] \in {"filled", "summed"} THEN 1 ELSE 0)
      BY <3>1, Moving
    <3> HIDE DEF Inflight, Half, Late
    <3> QED BY <2>1, <3>1, <3>2, <3>3, <3>4, <1>n
  <2>5. ASSUME NEW u \in Upstreams
        PROVE  cut'[u] = cut[u] + (IF at[a] = u THEN 1 ELSE 0)
    BY <2>1, NumbersAreNaturals DEF Counted
  <2>6. Accounted'
    <3> HIDE DEF Inflight, Half, Late
    <3> SUFFICES ASSUME NEW u \in Upstreams
        PROVE /\ routing_decisions'[u] = Answered(requests'[u]) + cut'[u] + Inflight(u)'
              /\ Answered(requests'[u]) = duration_buckets'[u][Inf] + Half(u)'
              /\ duration_buckets'[u][Inf] = duration_count'[u] + Late(u)'
      BY <2>1 DEF Accounted, On, Group, Inflight, Half, Late
    <3>1. /\ routing_decisions[u] = Answered(requests[u]) + cut[u] + Inflight(u)
          /\ Answered(requests[u]) = duration_buckets[u][Inf] + Half(u)
          /\ duration_buckets[u][Inf] = duration_count[u] + Late(u)
      BY DEF Accounted, On, Group, Inflight, Half, Late
    <3> QED BY <3>1, <2>1, <2>4, <2>5, <1>n, NumbersAreNaturals
  <2> QED BY <2>2, <2>3, <2>6 DEF CInv
<1>7. ASSUME UNCHANGED <<counters, attemptVars>> PROVE CInv'
  <2>1. UNCHANGED <<routing_decisions, requests, duration_buckets, duration_sum, duration_count,
                    pc, at, latency, cut>>
    BY <1>7 DEF counters, histogram, attemptVars
  <2>2. Counted' /\ Located'
    BY <2>1 DEF Counted, Located
  <2>3. Accounted'
    BY <2>1, NobodyMoves DEF Accounted
  <2> QED BY <2>2, <2>3 DEF CInv
<1>8. StartScrape \/ ScraperRunsOn \/ UNCHANGED vars => UNCHANGED <<counters, attemptVars>>
  BY DEF StartScrape, ScraperRunsOn, ReadRequests, ReadBuckets, ReadSum, ReadCount, ReadRouting,
     TurnPage, TurnTo, vars
<1> QED
  BY <1>1, <1>2, <1>3, <1>4, <1>5, <1>6, <1>7, <1>8 DEF Next, AttemptStep, Records

-----------------------------------------------------------------------------
(* 2. The page *)

(* Types of the scraper; it is at an entry while it reads sum and count.   *)
Scraping ==
  /\ phase \in {"idle", "requests", "histograms", "sum", "count", "routing"}
  /\ todo \subseteq (Upstreams \X Statuses) \cup Upstreams
  /\ guard \in Upstreams \cup {Nobody}
  /\ page \in PageTypes
  /\ phase \in {"sum", "count"} <=> guard # Nobody
  /\ phase = "idle" => todo = {}

BucketsGrow == \A u \in Upstreams : Cumulative(duration_buckets[u])

(* Read under the guard, the buckets are still those of the entry; once    *)
(* the count is read too, it is below the bucket +Inf, but not by much.    *)
PageOf(u) ==
  /\ Cumulative(page.buckets[u])
  /\ guard = u => page.buckets[u] = duration_buckets[u]
  /\ guard # u => /\ page.count[u] <= page.buckets[u][Inf]
                  /\ page.buckets[u][Inf] <= page.count[u] + Cardinality(Attempts)

(* Requests only grow after they are read, and what is read of the routing *)
(* decisions is above them.                                                *)
PageBehind(u) ==
  /\ \A s \in Statuses : page.requests[u][s] <= requests[u][s]
  /\ phase \in {"routing", "idle"} =>
       u \in todo \/ Answered(page.requests[u]) <= page.routing[u]

PInv ==
  /\ Scraping /\ BucketsGrow
  /\ \A u \in Upstreams : PageOf(u) /\ PageBehind(u)

LEMMA PInvInit == Init => PInv
<1> SUFFICES ASSUME Init PROVE PInv
  OBVIOUS
<1>1. /\ page = EmptyPage /\ guard = Nobody /\ todo = {} /\ phase = "idle"
      /\ duration_buckets = NoBuckets /\ requests = NoRequests
  BY DEF Init
<1>2. page \in PageTypes
  BY <1>1 DEF EmptyPage, PageTypes, PerUpstream, NoRequests, NoBuckets
<1>3. Scraping
  BY <1>1, <1>2 DEF Scraping
<1>4. BucketsGrow
  BY <1>1 DEF BucketsGrow, Cumulative, NoBuckets, PerUpstream, Buckets
<1>5. ASSUME NEW u \in Upstreams PROVE PageOf(u)
  <2>1. \A b \in Buckets : page.buckets[u][b] = 0
    BY <1>1 DEF EmptyPage, NoBuckets, PerUpstream
  <2>2. page.count[u] = 0
    BY <1>1 DEF EmptyPage, PerUpstream
  <2>3. guard # u
    BY <1>1, MetricsAssumption
  <2>4. Inf \in Buckets /\ Bounds \subseteq Buckets /\ Cardinality(Attempts) \in Nat
    BY OnIsFinite DEF Buckets
  <2> QED BY <2>1, <2>2, <2>3, <2>4 DEF PageOf, Cumulative
<1>6. ASSUME NEW u \in Upstreams PROVE PageBehind(u)
  <2>1. \A s \in Statuses : page.requests[u][s] = 0 /\ requests[u][s] = 0
    BY <1>1 DEF EmptyPage, NoRequests, PerUpstream
  <2>2. page.routing[u] = 0
    BY <1>1 DEF EmptyPage, PerUpstream
  <2> QED BY <2>1, <2>2 DEF PageBehind, Answered, Statuses
<1> QED
  BY <1>3, <1>4, <1>5, <1>6 DEF PInv

(* Filling keeps buckets growing with their bounds. *)
LEMMA FillingIsCumulative ==
  ASSUME NEW c \in [Buckets -> Nat], NEW l \in Nat, Cumulative(c)
  PROVE  Cumulative(Filled(c, l))
<1>1. Inf \in Buckets /\ Bounds \subseteq Buckets /\ Bounds \subseteq Nat /\ Inf \notin Bounds
  BY MetricsAssumption DEF Buckets
<1>2. \A b \in Buckets : c[b] \in Nat
  OBVIOUS
<1>3. /\ Filled(c, l)[Inf] = c[Inf] + 1
      /\ \A b \in Bounds : Filled(c, l)[b] = IF l <= 2 * b THEN c[b] + 1 ELSE c[b]
  BY <1>1 DEF Filled
<1>4. ASSUME NEW b \in Bounds PROVE Filled(c, l)[b] <= Filled(c, l)[Inf]
  <2>1. c[b] <= c[Inf] /\ c[b] \in Nat /\ c[Inf] \in Nat
    BY <1>1, <1>2 DEF Cumulative
  <2> QED BY <2>1, <1>3
<1>5. ASSUME NEW b \in Bounds, NEW d \in Bounds, b <= d PROVE Filled(c, l)[b] <= Filled(c, l)[d]
  <2>1. c[b] <= c[d] /\ c[b] \in Nat /\ c[d] \in Nat
    BY <1>1, <1>2, <1>5 DEF Cumulative
  <2>2. l <= 2 * b => l <= 2 * d
    BY <1>1, <1>5
  <2> QED BY <2>1, <2>2, <1>3
<1> QED
  BY <1>4, <1>5 DEF Cumulative

(* Attempts do not touch the page, and only what the guard lets them.      *)
LEMMA AttemptsKeepThePage ==
  ASSUME Counted, Located, PInv, NEW a \in Attempts, AttemptStep(a)
  PROVE  PInv'
<1>1. UNCHANGED scraperVars
  BY DEF AttemptStep, Records, Route, CountRequest, FillBuckets, AddSum, AddCount, Cut
<1>2. /\ phase' = phase /\ todo' = todo /\ guard' = guard /\ page' = page
  BY <1>1 DEF scraperVars
<1>3. Scraping'
  BY <1>2 DEF PInv, Scraping
<1>4. ASSUME NEW u \in Upstreams
      PROVE  /\ Cumulative(duration_buckets[u])'
             /\ guard = u => duration_buckets'[u] = duration_buckets[u]
  <2>1. CASE FillBuckets(a)
    <3>1. /\ guard # at[a] /\ at[a] \in Upstreams
          /\ duration_buckets' = [duration_buckets EXCEPT ![at[a]] = Filled(@, latency[a])]
      BY <2>1 DEF FillBuckets, Goes, Located
    <3>2. /\ duration_buckets[u] \in [Buckets -> Nat] /\ latency[a] \in Nat
          /\ Cumulative(duration_buckets[u])
      BY DEF Counted, PInv, BucketsGrow
    <3>3. duration_buckets'[u]
            = IF u = at[a] THEN Filled(duration_buckets[u], latency[a]) ELSE duration_buckets[u]
      BY <3>1 DEF Counted
    <3>4. Cumulative(duration_buckets'[u])
      BY <3>2, <3>3, FillingIsCumulative
    <3> QED BY <3>1, <3>3, <3>4
  <2>2. CASE ~FillBuckets(a)
    <3>1. duration_buckets' = duration_buckets
      BY <2>2 DEF AttemptStep, Records, Route, CountRequest, AddSum, AddCount, Cut, histogram, counters
    <3> QED BY <3>1 DEF PInv, BucketsGrow
  <2> QED BY <2>1, <2>2
<1>5. ASSUME NEW u \in Upstreams, NEW s \in Statuses
      PROVE  requests[u][s] <= requests'[u][s] /\ requests'[u][s] \in Nat
  <2>1. requests \in [Upstreams -> [Statuses -> Nat]] /\ requests[u][s] \in Nat
    BY DEF Counted
  <2>2. CASE \E r \in Statuses, l \in Latencies : CountRequest(a, r, l)
    <3>1. PICK r \in Statuses : requests' = [requests EXCEPT ![at[a]][r] = @ + 1]
      BY <2>2 DEF CountRequest
    <3>2. at[a] \in Upstreams
      BY <2>2 DEF CountRequest, Goes, Located
    <3> QED BY <2>1, <3>1, <3>2
  <2>3. CASE ~\E r \in Statuses, l \in Latencies : CountRequest(a, r, l)
    <3>1. requests' = requests
      BY <2>3 DEF AttemptStep, Records, Route, FillBuckets, AddSum, AddCount, Cut, counters
    <3> QED BY <2>1, <3>1
  <2> QED BY <2>2, <2>3
<1>6. BucketsGrow'
  BY <1>4 DEF BucketsGrow
<1>7. ASSUME NEW u \in Upstreams PROVE PageOf(u)'
  <2>1. PageOf(u)
    BY DEF PInv
  <2>2. guard = u => duration_buckets'[u] = duration_buckets[u]
    BY <1>4
  <2>3. Cumulative(page.buckets[u])'
    BY <1>2, <2>1 DEF PageOf
  <2> QED BY <1>2, <2>1, <2>2, <2>3 DEF PageOf
<1>8. ASSUME NEW u \in Upstreams PROVE PageBehind(u)'
  <2>1. PageBehind(u)
    BY DEF PInv
  <2>2. ASSUME NEW s \in Statuses PROVE page.requests[u][s] <= requests'[u][s]
    <3>1. page.requests[u][s] \in Nat
      BY DEF PInv, Scraping, PageTypes
    <3>2. requests[u][s] \in Nat
      BY DEF Counted
    <3>3. page.requests[u][s] <= requests[u][s] /\ requests[u][s] <= requests'[u][s]
      BY <1>5, <2>1 DEF PageBehind
    <3>4. requests'[u][s] \in Nat
      BY <1>5
    <3> QED BY <3>1, <3>2, <3>3, <3>4
  <2> QED BY <1>2, <2>1, <2>2 DEF PageBehind
<1> QED
  BY <1>3, <1>6, <1>7, <1>8 DEF PInv

(* The scraper does not touch the counters. *)
LEMMA ScraperKeepsThePage ==
  ASSUME CInv, PInv, StartScrape \/ ScraperRunsOn
  PROVE  PInv'
<1>1. /\ duration_buckets' = duration_buckets /\ requests' = requests
      /\ UNCHANGED <<routing_decisions, duration_count>>
  BY DEF StartScrape, ScraperRunsOn, ReadRequests, ReadBuckets, ReadSum, ReadCount, ReadRouting,
     TurnPage, TurnTo, counters, histogram
<1>2. BucketsGrow'
  BY <1>1 DEF PInv, BucketsGrow
<1>3. Scraping /\ \A u \in Upstreams : PageOf(u) /\ PageBehind(u)
  BY DEF PInv
<1>4. Counted /\ Accounted
  BY DEF CInv
<1>5. /\ page \in PageTypes /\ guard \in Upstreams \cup {Nobody} /\ Nobody \notin Upstreams
      /\ phase \in {"sum", "count"} <=> guard # Nobody
  BY <1>3, MetricsAssumption DEF Scraping
<1>6. CASE StartScrape
  <2>1. /\ phase' = "requests" /\ todo' = Upstreams \X Statuses /\ page' = EmptyPage
        /\ guard' = guard /\ guard = Nobody
    BY <1>5, <1>6 DEF StartScrape
  <2>2. page' \in PageTypes
    BY <2>1 DEF EmptyPage, PageTypes, PerUpstream, NoRequests, NoBuckets
  <2>3. Scraping'
    BY <2>1, <2>2 DEF Scraping
  <2>4. ASSUME NEW u \in Upstreams PROVE PageOf(u)' /\ PageBehind(u)'
    <3>1. \A b \in Buckets : page'.buckets[u][b] = 0
      BY <2>1 DEF EmptyPage, NoBuckets, PerUpstream
    <3>2. page'.count[u] = 0 /\ \A s \in Statuses : page'.requests[u][s] = 0
      BY <2>1 DEF EmptyPage, NoRequests, PerUpstream
    <3>3. Inf \in Buckets /\ Bounds \subseteq Buckets /\ Cardinality(Attempts) \in Nat
      BY OnIsFinite DEF Buckets
    <3>4. \A s \in Statuses : requests[u][s] \in Nat
      BY <1>4, NumbersAreNaturals
    <3>5. PageOf(u)'
      BY <2>1, <3>1, <3>2, <3>3, <1>5 DEF PageOf, Cumulative
    <3> QED BY <2>1, <3>2, <3>4, <3>5, <1>1 DEF PageBehind
  <2> QED BY <1>2, <2>3, <2>4 DEF PInv
<1>7. CASE \E u \in Upstreams, s \in Statuses : ReadRequests(u, s)
  <2>1. PICK v \in Upstreams, s \in Statuses :
          /\ phase = "requests" /\ phase' = phase /\ guard' = guard
          /\ todo' = todo \ {<<v, s>>}
          /\ page' = [page EXCEPT !.requests[v][s] = requests[v][s]]
    BY <1>7 DEF ReadRequests
  <2>2. requests[v][s] \in Nat
    BY <1>4, NumbersAreNaturals
  <2>3. page' \in PageTypes
    BY <1>5, <2>1, <2>2 DEF PageTypes
  <2>4. Scraping'
    BY <1>3, <2>1, <2>3 DEF Scraping
  <2>5. ASSUME NEW u \in Upstreams PROVE PageOf(u)' /\ PageBehind(u)'
    <3>1. PageOf(u) /\ PageBehind(u)
      BY <1>3
    <3>2. page'.buckets = page.buckets /\ page'.count = page.count
      BY <1>5, <2>1 DEF PageTypes
    <3>3. PageOf(u)'
      BY <1>1, <2>1, <3>1, <3>2 DEF PageOf, Cumulative
    <3>4. ASSUME NEW r \in Statuses PROVE page'.requests[u][r] <= requests[u][r]
      <4>1. page'.requests[u][r] = IF u = v /\ r = s THEN requests[v][s] ELSE page.requests[u][r]
        BY <1>5, <2>1 DEF PageTypes
      <4>2. page.requests[u][r] <= requests[u][r]
        BY <3>1 DEF PageBehind
      <4> QED BY <4>1, <4>2, <2>2
    <3> QED BY <1>1, <2>1, <3>3, <3>4 DEF PageBehind
  <2> QED BY <1>2, <2>4, <2>5 DEF PInv
<1>8. CASE \E u \in Upstreams : ReadBuckets(u)
  <2>1. PICK v \in Upstreams :
          /\ phase = "histograms" /\ phase' = "sum" /\ guard' = v /\ todo' = todo
          /\ page' = [page EXCEPT !.buckets[v] = duration_buckets[v]]
    BY <1>8 DEF ReadBuckets
  <2>2. duration_buckets[v] \in [Buckets -> Nat]
    BY <1>4 DEF Counted
  <2>3. page' \in PageTypes
    BY <1>5, <2>1, <2>2 DEF PageTypes
  <2>4. Scraping'
    BY <1>3, <1>5, <2>1, <2>3 DEF Scraping
  <2>5. ASSUME NEW u \in Upstreams PROVE PageOf(u)' /\ PageBehind(u)'
    <3>1. PageOf(u) /\ PageBehind(u)
      BY <1>3
    <3>2. /\ page'.requests = page.requests /\ page'.count = page.count
          /\ page'.routing = page.routing
          /\ page'.buckets[u] = IF u = v THEN duration_buckets[v] ELSE page.buckets[u]
      BY <1>5, <2>1 DEF PageTypes
    <3>3. guard # u
      BY <1>5, <2>1
    <3>4. Cumulative(duration_buckets[v])
      BY DEF PInv, BucketsGrow
    <3>5. PageOf(u)'
      BY <1>1, <2>1, <3>1, <3>2, <3>3, <3>4 DEF PageOf
    <3> QED BY <1>1, <2>1, <3>1, <3>2, <3>5 DEF PageBehind
  <2> QED BY <1>2, <2>4, <2>5 DEF PInv
<1>9. CASE ReadSum
  <2>1. /\ phase = "sum" /\ phase' = "count" /\ guard' = guard /\ todo' = todo
        /\ page' = [page EXCEPT !.sum[guard] = duration_sum[guard]]
    BY <1>9 DEF ReadSum
  <2>2. guard \in Upstreams
    BY <1>5, <2>1
  <2>3. duration_sum[guard] \in Nat
    BY <1>4, <2>2 DEF Counted
  <2>4. page' \in PageTypes
    BY <1>5, <2>1, <2>3 DEF PageTypes
  <2>5. Scraping'
    BY <1>3, <1>5, <2>1, <2>4 DEF Scraping
  <2>6. /\ page'.requests = page.requests /\ page'.count = page.count
        /\ page'.routing = page.routing /\ page'.buckets = page.buckets
    BY <1>5, <2>1 DEF PageTypes
  <2>7. ASSUME NEW u \in Upstreams PROVE PageOf(u)' /\ PageBehind(u)'
    BY <1>1, <1>3, <2>1, <2>6 DEF PageOf, PageBehind, Cumulative
  <2> QED BY <1>2, <2>5, <2>7 DEF PInv
<1>10. CASE ReadCount
  <2>1. /\ phase = "count" /\ phase' = "histograms" /\ guard' = Nobody /\ todo' = todo \ {guard}
        /\ page' = [page EXCEPT !.count[guard] = duration_count[guard]]
    BY <1>10 DEF ReadCount
  <2>2. guard \in Upstreams
    BY <1>5, <2>1
  <2>3. duration_count[guard] \in Nat
    BY <1>4, <2>2 DEF Counted
  <2>4. page' \in PageTypes
    BY <1>5, <2>1, <2>3 DEF PageTypes
  <2>5. Scraping'
    BY <1>3, <1>5, <2>1, <2>4 DEF Scraping
  <2>6. ASSUME NEW u \in Upstreams PROVE PageOf(u)' /\ PageBehind(u)'
    <3>1. PageOf(u) /\ PageBehind(u)
      BY <1>3
    <3>2. /\ page'.requests = page.requests /\ page'.buckets = page.buckets
          /\ page'.routing = page.routing
          /\ page'.count[u] = IF u = guard THEN duration_count[u] ELSE page.count[u]
      BY <1>5, <2>1 DEF PageTypes
    <3>3. CASE u = guard
      <4>1. page.buckets[u] = duration_buckets[u]
        BY <3>1, <3>3 DEF PageOf
      <4>2. duration_buckets[u][Inf]
              = duration_count[u] + Cardinality(On(u, {"filled", "summed"}))
        BY <1>4 DEF Accounted
      <4>3. /\ Cardinality(On(u, {"filled", "summed"})) \in Nat /\ Cardinality(Attempts) \in Nat
            /\ Cardinality(On(u, {"filled", "summed"})) <= Cardinality(Attempts)
        BY OnIsFinite
      <4>4. duration_count[u] \in Nat /\ duration_buckets[u][Inf] \in Nat
        BY <1>4, NumbersAreNaturals
      <4>5. /\ duration_count[u] <= duration_buckets[u][Inf]
            /\ duration_buckets[u][Inf] <= duration_count[u] + Cardinality(Attempts)
        BY <4>2, <4>3, <4>4
      <4>6. guard' # u
        BY <1>5, <2>1
      <4> QED BY <1>1, <2>1, <3>1, <3>2, <3>3, <4>1, <4>5, <4>6 DEF PageOf, PageBehind, Cumulative
    <3>4. CASE u # guard
      BY <1>1, <1>5, <2>1, <3>1, <3>2, <3>4 DEF PageOf, PageBehind, Cumulative
    <3> QED BY <3>3, <3>4
  <2> QED BY <1>2, <2>5, <2>6 DEF PInv
<1>11. CASE \E u \in Upstreams : ReadRouting(u)
  <2>1. PICK v \in Upstreams :
          /\ phase = "routing" /\ phase' = phase /\ guard' = guard /\ todo' = todo \ {v}
          /\ page' = [page EXCEPT !.routing[v] = routing_decisions[v]]
    BY <1>11 DEF ReadRouting
  <2>2. routing_decisions[v] \in Nat
    BY <1>4, NumbersAreNaturals
  <2>3. page' \in PageTypes
    BY <1>5, <2>1, <2>2 DEF PageTypes
  <2>4. Scraping'
    BY <1>3, <2>1, <2>3 DEF Scraping
  <2>5. ASSUME NEW u \in Upstreams PROVE PageOf(u)' /\ PageBehind(u)'
    <3>1. PageOf(u) /\ PageBehind(u)
      BY <1>3
    <3>2. /\ page'.requests = page.requests /\ page'.count = page.count
          /\ page'.buckets = page.buckets
          /\ page'.routing[u] = IF u = v THEN routing_decisions[u] ELSE page.routing[u]
      BY <1>5, <2>1 DEF PageTypes
    <3>3. PageOf(u)'
      BY <1>1, <2>1, <3>1, <3>2 DEF PageOf, Cumulative
    <3>4. Answered(page.requests[u]) <= routing_decisions[u]
      <4>1. /\ page.requests[u]["ok"] <= requests[u]["ok"]
            /\ page.requests[u]["error"] <= requests[u]["error"]
        BY <3>1 DEF PageBehind, Statuses
      <4>2. page.requests[u]["ok"] \in Nat /\ page.requests[u]["error"] \in Nat
        BY <1>5 DEF PageTypes, Statuses
      <4>3. requests[u]["ok"] \in Nat /\ requests[u]["error"] \in Nat /\ cut[u] \in Nat
        BY <1>4, NumbersAreNaturals
      <4>4. Cardinality(On(u, {"inflight"})) \in Nat
        BY OnIsFinite
      <4>5. routing_decisions[u] = Answered(requests[u]) + cut[u] + Cardinality(On(u, {"inflight"}))
        BY <1>4 DEF Accounted
      <4> QED BY <4>1, <4>2, <4>3, <4>4, <4>5 DEF Answered
    <3>5. \A s \in Statuses : page'.requests[u][s] <= requests'[u][s]
      BY <1>1, <3>1, <3>2 DEF PageBehind
    <3>6. u \in todo' \/ Answered(page'.requests[u]) <= page'.routing[u]
      BY <2>1, <3>1, <3>2, <3>4 DEF PageBehind
    <3> QED BY <3>3, <3>5, <3>6 DEF PageBehind
  <2> QED BY <1>2, <2>4, <2>5 DEF PInv
<1>12. CASE TurnPage
  <2>1. /\ todo = {} /\ guard' = guard /\ page' = page
        /\ \/ phase = "requests" /\ phase' = "histograms" /\ todo' = Upstreams
           \/ phase = "histograms" /\ phase' = "routing" /\ todo' = Upstreams
           \/ phase = "routing" /\ phase' = "idle" /\ todo' = {}
    BY <1>12 DEF TurnPage, TurnTo
  <2>2. Scraping'
    BY <1>3, <2>1 DEF Scraping
  <2>3. ASSUME NEW u \in Upstreams PROVE PageOf(u)' /\ PageBehind(u)'
    <3>1. PageOf(u) /\ PageBehind(u)
      BY <1>3
    <3>2. PageOf(u)'
      BY <1>1, <2>1, <3>1 DEF PageOf, Cumulative
    <3>3. \A s \in Statuses : page'.requests[u][s] <= requests'[u][s]
      BY <1>1, <2>1, <3>1 DEF PageBehind
    <3>4. phase' \in {"routing", "idle"} =>
            u \in todo' \/ Answered(page'.requests[u]) <= page'.routing[u]
      BY <2>1, <3>1 DEF PageBehind
    <3> QED BY <3>2, <3>3, <3>4 DEF PageBehind
  <2> QED BY <1>2, <2>2, <2>3 DEF PInv
<1> QED
  BY <1>6, <1>7, <1>8, <1>9, <1>10, <1>11, <1>12 DEF ScraperRunsOn

LEMMA PInvStep == CInv /\ PInv /\ [Next]_vars => PInv'
<1> SUFFICES ASSUME CInv, PInv, [Next]_vars PROVE PInv'
  OBVIOUS
<1>1. CASE \E a \in Attempts : AttemptStep(a)
  BY <1>1, AttemptsKeepThePage DEF CInv
<1>2. CASE StartScrape \/ ScraperRunsOn
  BY <1>2, ScraperKeepsThePage
<1>3. CASE UNCHANGED vars
  BY <1>3 DEF vars, counters, histogram, scraperVars, PInv, Scraping, BucketsGrow, PageOf,
     PageBehind, Cumulative
<1> QED
  BY <1>1, <1>2, <1>3 DEF Next

-----------------------------------------------------------------------------
(* 3. What follows *)

THEOREM MetricsInvariant == Spec => [](CInv /\ PInv)
<1> QED
  BY CInvInit, CInvStep, PInvInit, PInvStep, PTL DEF Spec

(* Types: no status has more requests than were ever routed.               *)
THEOREM MetricsTypes == Spec => []TypeOK
<1>1. CInv /\ PInv => TypeOK
  <2> SUFFICES ASSUME CInv, PInv PROVE TypeOK
    OBVIOUS
  <2>1. ASSUME NEW u \in Upstreams, NEW s \in Statuses PROVE requests[u][s] \in 0..MaxRouted
    <3>1. /\ requests[u]["ok"] \in Nat /\ requests[u]["error"] \in Nat /\ cut[u] \in Nat
          /\ routing_decisions[u] \in 0..MaxRouted /\ MaxRouted \in Nat
      BY NumbersAreNaturals, MetricsAssumption DEF CInv, Counted
    <3>2. Cardinality(On(u, {"inflight"})) \in Nat
      BY OnIsFinite
    <3>3. routing_decisions[u]
            = requests[u]["ok"] + requests[u]["error"] + cut[u] + Cardinality(On(u, {"inflight"}))
      BY DEF CInv, Accounted, Answered
    <3>4. s = "ok" \/ s = "error"
      BY DEF Statuses
    <3> QED BY <3>1, <3>2, <3>3, <3>4
  <2>2. requests \in [Upstreams -> [Statuses -> 0..MaxRouted]]
    BY <2>1 DEF CInv, Counted
  <2> QED BY <2>2 DEF CInv, PInv, Counted, Scraping, TypeOK
<1> QED
  BY <1>1, MetricsInvariant, PTL

(* Every routed attempt is answered, under way or cut off, and what is     *)
(* answered is in the histogram or about to be.                            *)
THEOREM EveryAttemptIsAccountedFor == Spec => []Accounted
<1>1. CInv => Accounted
  BY DEF CInv
<1> QED
  BY <1>1, MetricsInvariant, PTL

(* Reading buckets, sum and count under the guard of the buckets is enough *)
(* for a page that is a histogram, whatever the attempts do meanwhile.     *)
THEOREM PagesAreHistograms == Spec => []PageHistogram
<1>1. PInv => PageHistogram
  <2> SUFFICES ASSUME PInv, phase = "idle", NEW u \in Upstreams
      PROVE  /\ Cumulative(page.buckets[u])
             /\ page.count[u] <= page.buckets[u][Inf]
             /\ page.buckets[u][Inf] <= page.count[u] + Cardinality(Attempts)
    BY DEF PageHistogram
  <2>1. PageOf(u) /\ guard # u
    BY MetricsAssumption DEF PInv, Scraping
  <2> QED BY <2>1 DEF PageOf
<1> QED
  BY <1>1, MetricsInvariant, PTL

(* A page never shows more answers of an upstream than routing decisions.  *)
THEOREM AnswersWereRouted == Spec => []PageRequestsWereRouted
<1>1. PInv => PageRequestsWereRouted
  <2> SUFFICES ASSUME PInv, phase = "idle", NEW u \in Upstreams
      PROVE  Answered(page.requests[u]) <= page.routing[u]
    BY DEF PageRequestsWereRouted
  <2>1. PageBehind(u) /\ todo = {}
    BY DEF PInv, Scraping
  <2> QED BY <2>1 DEF PageBehind
<1> QED
  BY <1>1, MetricsInvariant, PTL

=============================================================================
