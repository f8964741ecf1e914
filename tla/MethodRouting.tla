--------------------------- MODULE MethodRouting ---------------------------
(***************************************************************************)
(* The routing of one method: what StatsStore records of each upstream     *)
(* for it, the score select_for_method makes of that, and the leader.      *)
(*                                                                         *)
(* Latencies are in units of Unit ms, success is out of Full, a score of 1 *)
(* is 1000 * Scale; averages are rounded, so that failures in a row bring  *)
(* the success down to zero, as they do an f64 when it underflows, only    *)
(* sooner.  Admission (Forwarding has it) is not refused here.             *)
(***************************************************************************)
EXTENDS Routing, RollingWindow

CONSTANTS
  Upstreams, Requests,
  None,           \* no upstream
  Setups,         \* records: a method, and a latency_weight in percent
  SuccessWeight,  \* success_weight, in percent
  Alpha,          \* ewma_alpha, in percent
  Margin,         \* hysteresis_margin, in percent
  Latencies,      \* what an answer may take
  Speeds, Noise,  \* an upstream at its best takes its speed, or up to Noise more
  Window,         \* rolling_window_secs, in ticks
  Load,           \* bound: latencies kept of an upstream
  Troubled,       \* bound: upstreams that are dropped or lagging at once
  Unit, Full, Scale

(* What Config::validate demands, and that the scales are fine enough: no  *)
(* latency's score rounds to zero, and no single success does.             *)
ASSUME RoutingAssumption ==
  /\ None \notin Upstreams
  /\ \A s \in Setups : s.latency_weight \in 0..100
  /\ SuccessWeight \in 0..100
  /\ Alpha \in 1..99 /\ Margin \in 0..99
  /\ Window \in Nat /\ Load \in Nat \ {0} /\ Troubled \in Nat /\ Noise \in Nat
  /\ Unit \in Nat /\ Full \in Nat \ {0} /\ Scale \in Nat
  /\ Latencies \subseteq Nat \ {0} /\ Speeds \subseteq Latencies /\ Speeds # {}
  /\ Full <= 1000 * Scale /\ 50 <= Alpha * Full
  /\ \A max \in Latencies : 100 + Unit * max <= 100 * 1000 * Scale

VARIABLES
  method, latency_weight,
  calm,       \* external: from now on all upstreams answer at their best
  speed,      \* external: how fast that is, settled when calm begins
  dropped,    \* upstreams that are dropped
  lagging,    \* upstreams more than max_slot_lag behind the tip
  measured,   \* upstreams with samples > 0 of the method
  latency,    \* ewma_latency_ms
  success,    \* ewma_success
  sent,       \* send_tx_latency
  leader,     \* current_leader of the method
  at,         \* the upstream each request is at, or None
  excluded,   \* the upstreams it has failed at
  failing     \* history: upstreams whose latest sample of the method failed

configVars == <<method, latency_weight>>
worldVars == <<calm, speed>>
statusVars == <<dropped, lagging>>
statsVars == <<measured, latency, success, sent, failing>>
requestVars == <<leader, at, excluded>>
vars == <<configVars, worldVars, statusVars, statsVars, requestVars>>

One == 1000 * Scale
Polled == "getSlot"
Sending == "sendTransaction"

Init ==
  /\ \E s \in Setups : method = s.method /\ latency_weight = s.latency_weight
  /\ calm = FALSE
  /\ speed = [u \in Upstreams |-> CHOOSE s \in Speeds : TRUE]
  /\ dropped = {} /\ lagging = {} /\ measured = {} /\ failing = {}
  /\ latency = [u \in Upstreams |-> 0]
  /\ success = [u \in Upstreams |-> Full]
  /\ sent = [u \in Upstreams |-> <<>>]
  /\ leader = None
  /\ at = [r \in Requests |-> None]
  /\ excluded = [r \in Requests |-> {}]

(***************************************************************************)
(* Scores.                                                                 *)
(***************************************************************************)
LatencyScore(ms) == (100 * One) \div (100 + Unit * ms)
Weighted(ls, ss) == latency_weight * ls + SuccessWeight * ss

(* An upstream without samples has 0.5 of each; a laggard a tenth. *)
MethodScore(u) ==
  (IF u \in measured
   THEN Weighted(LatencyScore(latency[u]), (One * success[u]) \div Full)
   ELSE Weighted(One \div 2, One \div 2))
  * (IF u \in lagging THEN 1 ELSE 10)

(* send_tx_p50: the upper median of the queue as it is, pruned or not. *)
P50(u) ==
  LET q == sent[u]
      below(l) == {i \in DOMAIN q : q[i].latency < l}
      upto(l) == {i \in DOMAIN q : q[i].latency <= l}
  IN CHOOSE l \in {q[i].latency : i \in DOMAIN q} :
       /\ Cardinality(below(l)) <= Len(q) \div 2
       /\ Cardinality(upto(l)) > Len(q) \div 2

Mut_RankedWhoever(exclude) ==
  IF method = Sending THEN {u \in Upstreams : sent[u] # <<>>} ELSE {}

(* Upstreams that sendTransaction is to choose among, if there are any. *)
Ranked(exclude) ==
  IF method = Sending
  THEN {u \in Upstreams \ (exclude \cup dropped) : sent[u] # <<>>}
  ELSE {}

(* best_p50 / p *)
RankScore(u, ranked) ==
  LET best == CHOOSE p \in {P50(v) : v \in ranked} :
                \A v \in ranked : p <= P50(v)
  IN (One * best) \div P50(u)

Scores(exclude) ==
  LET ranked == Ranked(exclude)
  IN IF ranked # {}
     THEN [u \in ranked |-> RankScore(u, ranked)]
     ELSE [u \in Upstreams |-> MethodScore(u)]

(***************************************************************************)
(* StatsStore::record.                                                     *)
(***************************************************************************)
Mut_EwmaUndecayed(old, x) == (Alpha * x + 100 * old) \div 100
Ewma(old, x) == (Alpha * x + (100 - Alpha) * old + 50) \div 100

Mut_UpdatedByFailures(u, ok, ms) ==
  /\ latency' = [latency EXCEPT ![u] = IF u \in measured THEN Ewma(@, ms) ELSE ms]
  /\ success' = [success EXCEPT ![u] = IF ok THEN @ ELSE Ewma(@, 0)]

(* The first sample stands alone. *)
Updated(u, ok, ms) ==
  LET s == IF ok THEN Full ELSE 0
      first == u \notin measured
  IN /\ latency' = [latency EXCEPT ![u] = IF first THEN ms ELSE Ewma(@, ms)]
     /\ success' = [success EXCEPT ![u] = IF first THEN s ELSE Ewma(@, s)]

Record(u, ok, ms) ==
  /\ Updated(u, ok, ms)
  /\ measured' = measured \cup {u}
  /\ failing' = IF ok THEN failing \ {u} ELSE failing \cup {u}
  /\ sent' = IF method = Sending /\ ok
             THEN [sent EXCEPT ![u] = Pushed(@, [age |-> 0, latency |-> ms], Window)]
             ELSE sent
  /\ Len(sent'[u]) <= Load

(* What an upstream may answer, and when. *)
MayTake(u, ok, ms) ==
  calm => ok /\ ms \in speed[u]..(speed[u] + Noise)

(***************************************************************************)
(* Requests, and the health loop, whose polls are samples of getSlot.      *)
(***************************************************************************)
Choice(r) ==
  LET score == Scores(excluded[r])
  IN Preferred(score, Candidates(score, dropped, excluded[r]), leader, Margin)

Mut_SelectTheBest(r) ==
  /\ at[r] = None
  /\ \E u \in Best(Scores(excluded[r]), Candidates(Scores(excluded[r]), dropped, excluded[r])) :
       /\ at' = [at EXCEPT ![r] = u]
       /\ leader' = u
  /\ UNCHANGED <<configVars, worldVars, statusVars, statsVars, excluded>>

Mut_SelectAndStay(r) ==
  /\ at[r] = None
  /\ \E u \in IF leader \in Candidates(Scores(excluded[r]), dropped, excluded[r])
              THEN {leader} ELSE Choice(r) :
       /\ at' = [at EXCEPT ![r] = u]
       /\ leader' = u
  /\ UNCHANGED <<configVars, worldVars, statusVars, statsVars, excluded>>

Select(r) ==
  /\ at[r] = None
  /\ \E u \in Choice(r) :
       /\ at' = [at EXCEPT ![r] = u]
       /\ leader' = u
  /\ UNCHANGED <<configVars, worldVars, statusVars, statsVars, excluded>>

(* A success ends the request; after a failure it tries elsewhere. *)
Answer(r) ==
  /\ at[r] # None
  /\ at' = [at EXCEPT ![r] = None]
  /\ UNCHANGED <<configVars, worldVars, statusVars, leader>>
  /\ \E ok \in BOOLEAN, ms \in Latencies :
       /\ MayTake(at[r], ok, ms)
       /\ Record(at[r], ok, ms)
       /\ excluded' = [excluded EXCEPT ![r] = IF ok THEN {} ELSE @ \cup {at[r]}]

(* It gives up: nobody is left, or its attempts or its time are used up. *)
GiveUp(r) ==
  /\ Choice(r) = {} \/ ~calm
  /\ at' = [at EXCEPT ![r] = None]
  /\ excluded' = [excluded EXCEPT ![r] = {}]
  /\ UNCHANGED <<configVars, worldVars, statusVars, statsVars, leader>>

Poll(u) ==
  /\ method = Polled
  /\ UNCHANGED <<configVars, worldVars, statusVars, requestVars>>
  /\ \E ok \in BOOLEAN, ms \in Latencies : MayTake(u, ok, ms) /\ Record(u, ok, ms)

(* Circuits and slots go their own way, until the world is calm. *)
Disturb ==
  /\ ~calm
  /\ dropped' \in SUBSET Upstreams /\ lagging' \in SUBSET Upstreams
  /\ Cardinality(dropped' \cup lagging') <= Troubled
  /\ UNCHANGED <<configVars, worldVars, statsVars, requestVars>>

CalmDown ==
  /\ ~calm
  /\ calm' = TRUE /\ speed' \in [Upstreams -> Speeds]
  /\ dropped' = {} /\ lagging' = {}
  /\ UNCHANGED <<configVars, statsVars, requestVars>>

Tick ==
  /\ sent' = [u \in Upstreams |-> Aged(sent[u], Window + 1)]
  /\ UNCHANGED <<configVars, worldVars, statusVars, measured, latency, success,
                 failing, requestVars>>

Next ==
  \/ \E r \in Requests : Select(r) \/ Answer(r) \/ GiveUp(r)
  \/ \E u \in Upstreams : Poll(u)
  \/ Disturb \/ CalmDown \/ Tick

Spec == Init /\ [][Next]_vars

(* Answers come (a timeout is one), the monitors poll, and time passes. *)
FairSpec ==
  /\ Spec
  /\ \A r \in Requests : WF_vars(Answer(r))
  /\ \A u \in Upstreams : WF_vars(Poll(u))
  /\ WF_vars(Tick)

(***************************************************************************)
(* Properties.                                                             *)
(***************************************************************************)

(* Types: the average latency of a measured upstream stays between two     *)
(* that its answers may have taken, queues keep what was recorded          *)
(* (stats.rs:52-66, 87-103).                                               *)
TypeOK ==
  /\ \E s \in Setups : method = s.method /\ latency_weight = s.latency_weight
  /\ speed \in [Upstreams -> Speeds] /\ calm \in BOOLEAN
  /\ dropped \subseteq Upstreams /\ lagging \subseteq Upstreams
  /\ failing \subseteq measured /\ measured \subseteq Upstreams
  /\ latency \in [Upstreams -> Nat] /\ success \in [Upstreams -> 0..Full]
  /\ \A u \in Upstreams :
       IF u \in measured
       THEN \E least, most \in Latencies : latency[u] \in least..most
       ELSE latency[u] = 0
  /\ sent \in [Upstreams -> Seq([age : 0..(Window + 1), latency : Latencies])]
  /\ leader \in Upstreams \cup {None}
  /\ at \in [Requests -> Upstreams \cup {None}]
  /\ excluded \in [Requests -> SUBSET Upstreams]

(* A score of zero takes an upstream out of the candidates                 *)
(* (router.rs:87), and with nobody to ask it, for good.  That happens only *)
(* if latency does not count and either nothing does or the last that was  *)
(* heard of the upstream is a failure of the method: no latency, no lag,   *)
(* and nothing that came before a success shuts an upstream out.           *)
OnlyFailuresShutOut ==
  \A u \in Upstreams :
    MethodScore(u) = 0 =>
      /\ latency_weight = 0
      /\ SuccessWeight = 0 \/ u \in failing

(* And so a request is turned away only if every upstream has failed it,   *)
(* is dropped, or is shut out like that: whatever is measured of whom, no  *)
(* ranking by latency and no lead leaves it with nobody (router.rs:19-93). *)
NobodyIsOverlooked ==
  \A r \in Requests : Choice(r) = {} =>
    \A u \in Upstreams \ (excluded[r] \cup dropped) :
      /\ latency_weight = 0
      /\ SuccessWeight = 0 \/ u \in failing

(* What an upstream at its best would score, and whether, by that, it is   *)
(* within the margin of all the others.                                    *)
Merit(u) == Weighted(LatencyScore(speed[u]), One)
AmongTheFastest(u) ==
  /\ u \in Upstreams
  /\ \A v \in Upstreams : 100 * Merit(u) >= (100 - Margin) * Merit(v)
CallsKeepComing == []<>(\E r \in Requests : at[r] # None)

(* README.md:13: routing does not oscillate.  Once all upstreams answer at *)
(* their best, with noise the margin covers, one of them gets the lead and *)
(* keeps it, although the monitors' samples keep moving every score.       *)
RoutingSettles ==
  <>[]calm => \E u \in Upstreams \cup {None} : <>[](leader = u)

(* In a calm world: the least that a measured upstream can come to score   *)
(* from here, and the most that any can.  An average never leaves the span *)
(* between itself and its next samples.                                    *)
Slower(a, b) == IF a >= b THEN a ELSE b
Faster(a, b) == IF a >= b THEN b ELSE a
Floor(u) ==
  Weighted(LatencyScore(Slower(latency[u], speed[u] + Noise)),
           (One * success[u]) \div Full)
Ceiling(u) ==
  IF u \in measured
  THEN Weighted(LatencyScore(Faster(latency[u], speed[u])), One)
  ELSE Slower(Merit(u), Weighted(One \div 2, One \div 2))

(* Whatever is sampled from now on, the leader stays within the margin.    *)
LeadIsSafe ==
  /\ calm /\ method # Sending /\ \A r \in Requests : excluded[r] = {}
  /\ leader \in measured /\ Floor(leader) > 0
  /\ \A v \in Upstreams \ {leader} : 100 * Floor(leader) >= (100 - Margin) * Ceiling(v)

(* How routing settles (router.rs:98-150): a lead that is safe is kept by  *)
(* every later selection, and stays safe, in whatever order requests and   *)
(* monitors sample the pool, first samples included.                       *)
SafeLeadIsKept == [][LeadIsSafe => LeadIsSafe' /\ leader' = leader]_vars

(* README.md:13: calls go "to whoever is actually fastest right now".  For *)
(* getSlot, which the monitors sample everywhere (health.rs:54-64), they   *)
(* do in the end, within the margin.                                       *)
PolledFindsFastest ==
  method = Polled /\ <>[]calm /\ CallsKeepComing => <>[]AmongTheFastest(leader)

(* The same of every method.                                               *)
RoutedToTheFastest ==
  <>[]calm /\ CallsKeepComing => <>[]AmongTheFastest(leader)

=============================================================================
