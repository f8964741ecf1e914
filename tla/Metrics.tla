------------------------------ MODULE Metrics ------------------------------
(***************************************************************************)
(* The counters and histograms of struct Metrics for one method: attempts  *)
(* update them, a scraper (handle_metrics) reads them onto a page.         *)
(*                                                                         *)
(* Both go one DashMap entry at a time, so a page is no snapshot.  While   *)
(* the scraper is at an entry of duration_buckets it holds the guard of    *)
(* that entry's shard, and no attempt can fill these buckets.              *)
(***************************************************************************)
EXTENDS Naturals, FiniteSets

CONSTANTS
  Upstreams,  \* the keys (upstream, method), for one method
  Nobody,     \* no upstream
  Attempts,   \* concurrent attempts
  Bounds,     \* BUCKETS_MS, in milliseconds
  Inf,        \* the bucket +Inf
  Latencies,  \* what may be measured, in half milliseconds
  MaxRouted   \* bound: attempts per upstream

ASSUME MetricsAssumption ==
  /\ IsFiniteSet(Attempts) /\ Nobody \notin Upstreams
  /\ Bounds \subseteq Nat /\ Inf \notin Nat
  /\ Latencies \subseteq Nat /\ MaxRouted \in Nat

Statuses == {"ok", "error"}
Buckets == Bounds \cup {Inf}

VARIABLES
  routing_decisions, requests, duration_buckets, duration_sum, duration_count,
  pc, at, latency,  \* of each attempt
  cut,              \* history: attempts of each upstream cut off unanswered
  phase,            \* what the scraper is reading
  todo,             \* entries it has still to read in this phase
  guard,            \* the entry of duration_buckets it is at
  page              \* what it has written

histogram == <<duration_buckets, duration_sum, duration_count>>
counters == <<routing_decisions, requests, histogram>>
attemptVars == <<pc, at, latency, cut>>
scraperVars == <<phase, todo, guard, page>>
vars == <<counters, attemptVars, scraperVars>>

PerUpstream(x) == [u \in Upstreams |-> x]
NoRequests == PerUpstream([s \in Statuses |-> 0])
NoBuckets == PerUpstream([b \in Buckets |-> 0])
EmptyPage == [requests |-> NoRequests, buckets |-> NoBuckets, sum |-> PerUpstream(0),
              count |-> PerUpstream(0), routing |-> PerUpstream(0)]

Init ==
  /\ routing_decisions = PerUpstream(0) /\ requests = NoRequests
  /\ duration_buckets = NoBuckets
  /\ duration_sum = PerUpstream(0) /\ duration_count = PerUpstream(0)
  /\ pc = [a \in Attempts |-> "idle"] /\ at = [a \in Attempts |-> Nobody]
  /\ latency = [a \in Attempts |-> 0]
  /\ cut = PerUpstream(0)
  /\ phase = "idle" /\ todo = {} /\ guard = Nobody /\ page = EmptyPage

-----------------------------------------------------------------------------
(* An attempt: record_routing_decision, the await of fire_once, and        *)
(* record_request in four pieces.                                          *)
Goes(a, from, to) == pc[a] = from /\ pc' = [pc EXCEPT ![a] = to]

Mut_RouteUncounted(a, u) ==
  /\ routing_decisions[u] < MaxRouted
  /\ Goes(a, "idle", "inflight")
  /\ at' = [at EXCEPT ![a] = u]
  /\ UNCHANGED <<routing_decisions, requests, histogram, latency, cut, scraperVars>>

Route(a, u) ==
  /\ routing_decisions[u] < MaxRouted
  /\ Goes(a, "idle", "inflight")
  /\ at' = [at EXCEPT ![a] = u]
  /\ routing_decisions' = [routing_decisions EXCEPT ![u] = @ + 1]
  /\ UNCHANGED <<requests, histogram, latency, cut, scraperVars>>

Mut_CountRequestOnceMore(a, s, l) ==
  /\ pc[a] = "inflight"
  /\ \E next \in {"inflight", "counted"} : pc' = [pc EXCEPT ![a] = next]
  /\ latency' = [latency EXCEPT ![a] = l]
  /\ requests' = [requests EXCEPT ![at[a]][s] = @ + 1]
  /\ UNCHANGED <<routing_decisions, histogram, at, cut, scraperVars>>

CountRequest(a, s, l) ==
  /\ Goes(a, "inflight", "counted")
  /\ latency' = [latency EXCEPT ![a] = l]
  /\ requests' = [requests EXCEPT ![at[a]][s] = @ + 1]
  /\ UNCHANGED <<routing_decisions, histogram, at, cut, scraperVars>>

Mut_FilledOneBucket(counts, l) ==
  LET fits == {b \in Bounds : l <= 2 * b}
      b == IF fits = {} THEN Inf ELSE CHOOSE x \in fits : \A y \in fits : x <= y
  IN [counts EXCEPT ![b] = @ + 1]
Filled(counts, l) ==
  [b \in Buckets |-> IF b = Inf \/ l <= 2 * b THEN counts[b] + 1 ELSE counts[b]]

Mut_FillBucketsUnguarded(a) ==
  /\ Goes(a, "counted", "filled")
  /\ duration_buckets' = [duration_buckets EXCEPT ![at[a]] = Filled(@, latency[a])]
  /\ UNCHANGED <<routing_decisions, requests, duration_sum, duration_count,
                 at, latency, cut, scraperVars>>

FillBuckets(a) ==
  /\ guard # at[a]
  /\ Goes(a, "counted", "filled")
  /\ duration_buckets' = [duration_buckets EXCEPT ![at[a]] = Filled(@, latency[a])]
  /\ UNCHANGED <<routing_decisions, requests, duration_sum, duration_count,
                 at, latency, cut, scraperVars>>

(* latency_ms as u64 *)
AddSum(a) ==
  /\ Goes(a, "filled", "summed")
  /\ duration_sum' = [duration_sum EXCEPT ![at[a]] = @ + latency[a] \div 2]
  /\ UNCHANGED <<routing_decisions, requests, duration_buckets, duration_count,
                 at, latency, cut, scraperVars>>

Leaves(a) ==
  /\ at' = [at EXCEPT ![a] = Nobody]
  /\ latency' = [latency EXCEPT ![a] = 0]

AddCount(a) ==
  /\ Goes(a, "summed", "idle")
  /\ Leaves(a)
  /\ duration_count' = [duration_count EXCEPT ![at[a]] = @ + 1]
  /\ UNCHANGED <<routing_decisions, requests, duration_buckets, duration_sum, cut, scraperVars>>

(* The deadline or a disconnect drops forward_core in its await. *)
Cut(a) ==
  /\ Goes(a, "inflight", "idle")
  /\ Leaves(a)
  /\ cut' = [cut EXCEPT ![at[a]] = @ + 1]
  /\ UNCHANGED <<counters, scraperVars>>

-----------------------------------------------------------------------------
(* The scraper.  It takes the entries of a map in any order. *)
StartScrape ==
  /\ phase = "idle"
  /\ phase' = "requests" /\ todo' = Upstreams \X Statuses
  /\ page' = EmptyPage
  /\ UNCHANGED <<counters, attemptVars, guard>>

ReadRequests(u, s) ==
  /\ phase = "requests" /\ <<u, s>> \in todo
  /\ todo' = todo \ {<<u, s>>}
  /\ page' = [page EXCEPT !.requests[u][s] = requests[u][s]]
  /\ UNCHANGED <<counters, attemptVars, phase, guard>>

ReadBuckets(u) ==
  /\ phase = "histograms" /\ u \in todo
  /\ phase' = "sum" /\ guard' = u
  /\ page' = [page EXCEPT !.buckets[u] = duration_buckets[u]]
  /\ UNCHANGED <<counters, attemptVars, todo>>

ReadSum ==
  /\ phase = "sum"
  /\ phase' = "count"
  /\ page' = [page EXCEPT !.sum[guard] = duration_sum[guard]]
  /\ UNCHANGED <<counters, attemptVars, todo, guard>>

Mut_ReadCountKeepingGuard ==
  /\ phase = "count"
  /\ phase' = "histograms" /\ todo' = todo \ {guard}
  /\ page' = [page EXCEPT !.count[guard] = duration_count[guard]]
  /\ UNCHANGED <<counters, attemptVars, guard>>

ReadCount ==
  /\ phase = "count"
  /\ phase' = "histograms" /\ todo' = todo \ {guard} /\ guard' = Nobody
  /\ page' = [page EXCEPT !.count[guard] = duration_count[guard]]
  /\ UNCHANGED <<counters, attemptVars>>

ReadRouting(u) ==
  /\ phase = "routing" /\ u \in todo
  /\ todo' = todo \ {u}
  /\ page' = [page EXCEPT !.routing[u] = routing_decisions[u]]
  /\ UNCHANGED <<counters, attemptVars, phase, guard>>

(* The next map, or the end of the page. *)
TurnTo(next, entries) ==
  /\ todo = {}
  /\ phase' = next /\ todo' = entries
  /\ UNCHANGED <<counters, attemptVars, guard, page>>

TurnPage ==
  \/ phase = "requests" /\ TurnTo("histograms", Upstreams)
  \/ phase = "histograms" /\ TurnTo("routing", Upstreams)
  \/ phase = "routing" /\ TurnTo("idle", {})

-----------------------------------------------------------------------------
Records(a) == FillBuckets(a) \/ AddSum(a) \/ AddCount(a)

AttemptStep(a) ==
  \/ \E u \in Upstreams : Route(a, u)
  \/ \E s \in Statuses, l \in Latencies : CountRequest(a, s, l)
  \/ Records(a)
  \/ Cut(a)

ScraperRunsOn ==
  \/ \E u \in Upstreams, s \in Statuses : ReadRequests(u, s)
  \/ \E u \in Upstreams : ReadBuckets(u) \/ ReadRouting(u)
  \/ ReadSum \/ ReadCount
  \/ TurnPage

Next == (\E a \in Attempts : AttemptStep(a)) \/ StartScrape \/ ScraperRunsOn
Spec == Init /\ [][Next]_vars

(***************************************************************************)
(* Fairness.  Synchronous code runs on.  For an attempt this is strong:    *)
(* scrapes take the guard again and again, but a release wakes whoever is  *)
(* parked on it, and the next scrape is a network round trip away.         *)
(***************************************************************************)
FairSpec ==
  /\ Spec
  /\ WF_vars(ScraperRunsOn)
  /\ \A a \in Attempts : SF_vars(Records(a))

-----------------------------------------------------------------------------
PageTypes ==
  [requests : [Upstreams -> [Statuses -> Nat]], buckets : [Upstreams -> [Buckets -> Nat]],
   sum : [Upstreams -> Nat], count : [Upstreams -> Nat], routing : [Upstreams -> Nat]]

TypeOK ==
  /\ routing_decisions \in [Upstreams -> 0..MaxRouted]
  /\ requests \in [Upstreams -> [Statuses -> 0..MaxRouted]]
  /\ duration_buckets \in [Upstreams -> [Buckets -> Nat]]
  /\ duration_sum \in [Upstreams -> Nat] /\ duration_count \in [Upstreams -> Nat]
  /\ pc \in [Attempts -> {"idle", "inflight", "counted", "filled", "summed"}]
  /\ at \in [Attempts -> Upstreams \cup {Nobody}]
  /\ latency \in [Attempts -> Nat]
  /\ cut \in [Upstreams -> Nat]
  /\ phase \in {"idle", "requests", "histograms", "sum", "count", "routing"}
  /\ todo \subseteq (Upstreams \X Statuses) \cup Upstreams
  /\ guard \in Upstreams \cup {Nobody}
  /\ page \in PageTypes

(* Attempts on an upstream, by how far they are. *)
On(u, stages) == {a \in Attempts : at[a] = u /\ pc[a] \in stages}
Answered(r) == r["ok"] + r["error"]

(* The four counters account for each other at every moment: an attempt    *)
(* that was routed is answered, under way or was cut off, and what was cut *)
(* off is counted nowhere else.                                            *)
Accounted ==
  \A u \in Upstreams :
    /\ routing_decisions[u] = Answered(requests[u]) + cut[u] + Cardinality(On(u, {"inflight"}))
    /\ Answered(requests[u]) = duration_buckets[u][Inf] + Cardinality(On(u, {"counted"}))
    /\ duration_buckets[u][Inf] = duration_count[u] + Cardinality(On(u, {"filled", "summed"}))

Cumulative(counts) ==
  \A b \in Bounds : /\ counts[b] <= counts[Inf]
                     /\ \A c \in Bounds : b <= c => counts[b] <= counts[c]

(* A page is a histogram, although no snapshot: buckets grow with their    *)
(* bounds, the count is never above the bucket +Inf, and lags it by no     *)
(* more than the attempts there are.                                       *)
PageHistogram ==
  phase = "idle" =>
    \A u \in Upstreams :
      /\ Cumulative(page.buckets[u])
      /\ page.count[u] <= page.buckets[u][Inf]
      /\ page.buckets[u][Inf] <= page.count[u] + Cardinality(Attempts)

(* On no page are more requests answered than were routed. *)
PageRequestsWereRouted ==
  phase = "idle" => \A u \in Upstreams : Answered(page.requests[u]) <= page.routing[u]

(* An answered attempt gets its histogram filled, however often the page   *)
(* is scraped.                                                             *)
RecordingEnds == \A a \in Attempts : pc[a] = "counted" ~> pc[a] = "idle"

=============================================================================
