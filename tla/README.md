# disburse: a TLA+ model of the proxy

disburse is a JSON-RPC proxy for Solana providers. It routes each client request
to the upstream that does best at the method, retries failures elsewhere, takes
failing upstreams out of rotation with a circuit breaker, and refuses
`sendTransaction` calls whose blockhash has expired. This directory holds a
model of the code, the TLC runs that check it on small instances, and proofs,
checked by TLAPS, of what holds for every instance. Line numbers below are those
of the repository's `src/`.

## 1. Inventory

| Part | State | Operations | Talks to |
|---|---|---|---|
| Upstream (`upstream/client.rs`) | `circuit` under a RwLock, a semaphore of permits, `last_slot` | `is_dropped`, `trip`, `try_admit` (two critical sections around a semaphore), `settle_probe` | called by the router, the forwarding core, the health monitor |
| Health monitor (`upstream/health.rs`) | none of its own; one endless task per upstream | poll `getSlot`, record, raise the tip, check the error rate and trip, seed the blockhash cache | stats, upstream, pool, cache |
| Statistics (`routing/stats.rs`) | EWMA per (upstream, method); per upstream a window of outcomes and one of `sendTransaction` latencies | `record`, `get`, `error_rate`, `send_tx_p50` | written by forwarding and health, read by router and health |
| Router (`routing/router.rs`, `mod.rs`, `pool.rs`) | `current_leader` per method, `tip_slot` | `select_for_method`, `apply_hysteresis`, `select_and_admit` | reads stats, slots, circuits; writes the leader |
| Forwarding core (`proxy/rpc.rs`) | per request: attempts, excluded upstreams, last error; a permit while an attempt is under way | `forward_core` under a deadline, `fire_once`, batches as concurrent requests | everything above |
| Freshness check (`proxy/rpc.rs`, `solana.rs`) | LRU cache blockhash -> slot | `insert`, `get_slot`, `check_blockhash_freshness`, `verify_blockhash`, transaction decoding | cache, tip, upstreams |
| Server (`proxy/server.rs`, `main.rs`, `lib.rs`) | none | routes, `/livez`, `/readyz`, `/health`, shutdown | reads the above |
| Metrics (`proxy/metrics.rs`) | counters and histograms | record, render | written by forwarding and the freshness check |
| Config, errors (`config.rs`, `error.rs`) | none | parse, validate, error codes, URL redaction | read everywhere |

What is hard in it:

- **Concurrency.** Requests are tokio tasks on several threads and share circuits,
  permits, scores and leaders. `try_admit` is not one critical section but two,
  with a semaphore in between; the health loop checks and trips under separate locks.
- **Cancellation.** `tokio::time::timeout` drops `forward_core` at whatever await it
  has reached; so does the server when a client leaves. Destructors run (the permit
  comes back), ordinary code does not (`settle_probe` is not called).
- **Time.** Cooldown, deadline, method timeouts, window and poll interval are
  independent settings; `validate` relates none of them to another.
- **Staleness.** A selection acts on circuits and scores that have moved when
  admission runs; the tip is read before an await and used after it; windows are
  pruned only when something is pushed.

What makes each part correct:

- *Breaker*: one probe at a time, alone on the upstream; an open circuit lasts its
  cooldown; only the probe's verdict readmits; permits are conserved; a taken probe
  slot is eventually settled (the code fails this one).
- *Forwarding*: every request is answered; attempts are bounded and distinct;
  failure only when there was nothing left to try; a dropped request leaves nothing
  behind.
- *Router*: the choice is within the margin of the best; the lead settles when the
  upstreams do; no upstream is shut out but for failures it has not made good; the fastest is found (the
  code fails this one for every method but `getSlot`).
- *Statistics and health*: the error rate is over the window it claims; an upstream
  that recovers stays up (in the end: not at once); the tip covers what was reported.
- *Freshness check*: a transaction is judged by the blockhash it carries; an expired one
  is refused (the code fails this one); the date of a cached blockhash never goes back.
- *Metrics*: the counters account for each other at every moment, and a page is a
  histogram although it is no snapshot.

The hazards behind these, each at its line, are in `PROJECT.json`.

## 2. What is modelled

| Module | Models | Kind |
|---|---|---|
| `Circuit` | `CircuitState` and what each method of `Upstream` does to it under the lock | operators |
| `CircuitBreaker` | one upstream: circuit, semaphore, the requests on it, its health monitor, time | state machine |
| `AbstractBreaker` | what the breaker promises its callers | abstract state machine |
| `Routing` | candidate filter, hysteresis, tie-break | operators |
| `AbstractForwarding` | what the forwarding core promises its callers | abstract state machine |
| `Forwarding` | the forwarding core over a pool: `Circuit` and `Routing` composed with requests | state machine |
| `RollingWindow` | the queues of `StatsStore`: push, prune, error rate | operators |
| `HealthMonitor` | one monitor, its upstream's error window and circuit, the shared tip: `Circuit` and `RollingWindow` composed | state machine |
| `MethodRouting` | one method's statistics, scores and leader: `Routing` and `RollingWindow` composed | state machine |
| `TxLayout` | `extract_blockhash`, and the layout of what it reads | operators |
| `BlockhashGuard` | the freshness check: texts, cache, tip, requests, against an ageing chain | state machine |
| `Metrics` | counters, histograms and the page written of them | state machine |
| `*Proofs` | theorems about the module named, and (`RollingWindowProofs`, `TxLayoutProofs`) the lemmas they rest on | proofs |
| `MC*` | symmetry sets and sets of records for TLC | instances |

Operators named `Mut_X` are deliberate slips of `X`, kept beside it to show which
property notices them; no specification uses them.

### CircuitBreaker

A task's `pc` says where it is: `idle`; `acquiring`, after `try_admit`'s first
critical section; `restoring`, a probe that found no permit; `inflight`, awaiting the
upstream inside `fire_once`; `settled`, answer handled, permit not yet dropped. Each
lock acquisition is a step of its own, so every interleaving of two tasks and the
monitor inside `try_admit` is explored. `EnterCircuit` is the first critical section,
`AcquirePermit`/`AtCapacity`/`ProbeAtCapacity` the semaphore, `RestoreProbeSlot` the
second critical section; `Settle` is the end of `fire_once` with `settle_probe`,
`ReleasePermit` the end of the attempt. `Expire` (deadline) and `Disconnect` (client
gone) both drop the future: the permit comes back and nothing else happens.
`HealthCheck` and `HealthTrip` are the two halves of the breaker in the health loop,
for any error rate. A refused `try_admit` changes nothing and is not a step.

*Time* is a `Tick`. Instants are kept as what is left of them: `circuit.until` ticks
of cooldown and `left[t]` ticks of the request's deadline. `left` starts anywhere in
`0..Deadline`, since earlier attempts have used part of it. A tick cannot pass while
some task is between two awaits, nor while an expired timer has not fired: a tick
stands for a time much longer than a few instructions.

*AbstractBreaker* has three modes, the rest that is left, and the client whose verdict
is awaited. The refinement (`KeepsPromise`) maps the mode to the circuit's variant,
the rest to `until`, and the awaited client to the outstanding probe while the
circuit is half-open.

### Forwarding

Each request runs `Receive`, then `Select` (one `select_for_method`, which also
installs the leader), `Refused` or `EnterCircuit`, the semaphore as above, `Answer`
(`fire_once` and `settle_probe`), and `Succeed` or `Retry`; or `GiveUp` when no
candidate or no attempt is left. A refusal adds to `skips` (`admission_skips`), a
failed attempt to `excluded`. Scores are numbers that `Answer` and `Rescore` set
freely: whatever the formula, recorded outcomes and health polls can move them in any
direction. There is no clock: cooldowns elapse and deadlines pass at any moment, so
what holds here holds for any setting of them. `avail` is a history variable, the
upstreams that have been closed, below their cap and scored above zero ever since the
request came in.

*AbstractForwarding* knows no circuit, semaphore, score or leader: a request is sent to
one upstream after another, at most so often, never again to one that failed it (if
`retry_different_upstream` is set), to none that serves its full number, and its answer says
what happened. The refinement (`KeepsPromise`) maps the stage to `pc` (the whole of
`select_and_admit`, semaphore included, is "choosing"), the upstream that serves a request
to `target` while it holds a permit, and the rest to `excluded`, `attempts` and `reply`.
`NoStepInVain` is its counterpart: whatever the others do, each step of a pending
request adds to its attempts, or to its skips, or takes it further towards an answer, so
neither the loop of `select_and_admit` nor the one of retries around it can go on for ever.

One call of `select_for_method` is one step, although it reads the upstreams one by
one; staleness between selection and admission is kept. The requests are for a method
other than `sendTransaction`, whose candidates `MethodRouting` has.

### HealthMonitor

The loop of `run_monitor`, step by step: `Wake`, the poll (`PollAnswered` stores
`last_slot` at once, `PollFailed` is any other outcome), `RecordPoll`, the
compare-exchange loop (`RaiseTip` ends it, `RaiseTipAgain` is an exchange that failed),
`Check` and `Trip` under separate locks, `Seed`. `OtherMonitor` is every other monitor:
it raises the tip. Client requests are sent, answered, recorded, settled or dropped, with
the circuit of `Circuit`.

The window is a queue of outcomes with *ages*, ticks since the instant their recorder
read. That instant is read before the queue is locked (`stats.rs:68`, `75`), and a thread
may be held up in between for `Delay` ticks: entries are then pushed out of order, and a
late one prunes by its own, older, instant. `TooOld` compares two instants, as the code
does. `lastError` and `cleared` are history variables: the age of the last error, and what
has become of a trip while no error was recorded after it (`"tripped"`, then `"readmitted"`
when a probe has closed the circuit between two polls).

`up` is the world: while it is true the upstream makes no mistakes, and it flips at will.
`PollFailed` needs it false.

### MethodRouting

For one method (three kinds: `getSlot`, which the monitors sample; `sendTransaction`,
which has its own ranking; any other) the statistics of each upstream, and the choices
made of them. `Select` is `select_for_method` as a whole, `Answer` an attempt's end with
`record`, `Poll` a monitor's sample. Scores are integers: a latency is a multiple of
`Unit` ms, a score of 1 is `1000 * Scale`, and averages are rounded to the nearest, so that
failures in a row bring a success rate to zero. In the code an `f64` does the same when it
underflows, after some hundred failures or some thousand, and as in the model an `ewma_alpha`
below one half leaves it at the least positive number instead. The assumption
`50 <= Alpha * Full` is the other side of the grain: a single success never rounds to zero.
`failing` is a history variable, the upstreams whose latest sample of the method is a
failure. `Weighted`, `LatencyScore`, the default of 0.5/0.5 and the factor of a tenth
for a laggard are the code's. `P50` is the upper median of the queue as it stands, pruned
only when something was pushed.

`calm` is the world again: it begins at some moment or never. From then on every upstream
answers at its own speed, or up to `Noise` slower, without mistakes, none is dropped or
lags, and requests are not cut off. Before that anything goes: any latency, failures,
drops and lag of up to `Troubled` upstreams at a time. Properties about where routing ends
up are about calm; the others about everything. During calm an upstream's score stays
between a `Floor` and a `Ceiling`, which no sample widens; `LeadIsSafe` compares the
leader's floor with the others' ceilings.

### BlockhashGuard and TxLayout

A blockhash is named by the slot that produced it; 0 stands for one that nobody
produced. The chain, and upstreams that report, hand out and verify blockhashes, are
external: they are honest, may answer late, and verify at a slot at most `MaxLag` behind
the chain. A request has a *text*: the first `length` bytes of a transaction with some
layout (numbers of signatures and accounts, versioned or not). `TxLayout` has both sides
of it: `Serialized`, what a client sends, with the two shortvecs, the version byte and the
header byte where they belong, and `Extracted`, what `extract_blockhash` takes from it,
byte by byte of the shortvecs and offset by offset. `PassUnchecked` is a request
before the warmup, or one no blockhash can be read from; `Check` loads the tip. `Hit` is a
lookup that finds the blockhash, `Miss` one that does not and goes on to await
`isBlockhashValid`; `Verified` and `Refuted` are its answers. Everything may happen
between these steps. `PollSlot`, `Learn` and `LearnUndated` are what the health loop does
(the last two also what the harvest in `fire_once` does): raise the tip, put a blockhash in
the cache. `Learn` has an answer with a context, whose slot is the date; `LearnUndated` one
without, which the harvest dates by the tip (`rpc.rs:374-377`) and the health loop by
`last_slot` (`health.rs:99-102`), in either case by no more than the tip. `Undated` are the
blockhashes that are ever handed out like that, and the history variable `offered` is the
tip when each last was. The LRU order is `rank`, a place for each cached blockhash;
`Promoted` is `put` or `get` of the `lru` crate, with the eviction. `Insert` keeps the
higher slot, as the code does.

### Metrics

`Route` is `record_routing_decision`; `CountRequest`, `FillBuckets`, `AddSum` and
`AddCount` are the four map accesses of `record_request`, between which anything may
happen; `Cut` drops the attempt while it awaits, after which nothing is recorded. The
scraper writes one map entry at a time. While it is at an entry of `duration_buckets` it
holds that shard's guard, also while it reads sum and count, so that `FillBuckets` of that
entry waits (`guard`); this is what the histogram on the page owes its order to.
Latencies are in half milliseconds, so that the truncation of `as u64` shows.

## 3. Runs

| Run | Instance | Shows |
|---|---|---|
| `breaker_safety` | 3 requests, cap 2, deadline 2, cooldown 3 | permits conserved; the timing invariant (among it: one probe, alone on the upstream); refinement of `AbstractBreaker` |
| `breaker_liveness` | 2 requests, cap 1, deadline 2, cooldown 2 | with a cooldown not longer than a deadline: every permit comes back, every drop ends, no late verdict cuts a rest short |
| `breaker_lost_probe` | 2 requests, cap 1, deadline 1, cooldown 2 | **violated**: a probe slot is not always released |
| `forwarding_safety` | 2 requests, 2 upstreams, cap 1, 3 attempts, scores 0..2, margin 10 % | permits balanced per upstream; no false exhaustion; slots orphaned by drops only; no step in vain; refinement of `AbstractForwarding` |
| `forwarding_liveness` | 2 requests, 2 upstreams, cap 1, 2 attempts, retry anywhere | every request is answered |
| `monitor_safety` | 1 request, window 2, cooldown 2, threshold 50 %, recorders late by a tick, 2 slots | the rate is of recent outcomes; a trip has a recent cause; the tip covers what was reported; a recovered upstream's rest is not renewed, and ends |
| `monitor_readmit` | window 3, cooldown 1, threshold 50 %, nobody late | **violated**: a readmitted upstream is dropped again for errors from before the trip |
| `router_settles` | 1 request, 2 upstreams, speeds 50 and 200 ms, noise 50 ms, margin 20 %, alpha 75 %; 5 setups of method and weights | nobody is shut out, and no request turned away, but for failures; a safe lead is kept; the lead settles; for `getSlot` on one of the fastest |
| `router_starved` | the same for two methods the monitors do not sample | **violated**: a slower upstream keeps the lead |
| `guard_safety` | 2 requests, texts of 2 layouts, 4 slots, validity 1, no lag, age limit 1, cache of 2, one blockhash without context | judged by the blockhash it carries; how far a cached date is off, how old a blockhash is that passes, dates never go back |
| `guard_expired` | the same, validity 2, every answer with context | **violated**: an expired blockhash passes |
| `metrics_scrape` | 2 attempts, 1 upstream, 2 bounds, 3 routed | the counters add up; a page is a histogram; answered were routed; recordings end |

A property that another one of the same run implies is proved and not run: `SingleProbe`
is part of `Timing`, `OpenUntilElapsed` and `ReadmittedByProbe` follow from the breaker's
`KeepsPromise`, `AttemptsAreDistinct` from that of the forwarding core.

*Bounds.* In the breaker, two requests are a probe and its rival; the third is one
admitted before the trip. A cap of 1 or 2 with 3 requests reaches both "full" and "not
full"; a cooldown one tick above the deadline, and one equal to it, are the two sides of
the condition that matters (section 5). In the pool, two upstreams with one permit each let
one request find the first refusing and the second full; three attempts are more than
there are upstreams, so "no upstream left" and "no attempt left" both end requests;
scores 0, 1, 2 contain a non-candidate and a gap wider than the margin.

`monitor_safety` polls every other tick, so that a client's probe may come before the next
poll; its cooldown is as long as the window, so that a rest may still run when the errors
behind it count no more (`Recovered`), and shorter than the window and the delays together,
so that they may also outlast it. In `monitor_readmit` the window is longer than the
cooldown, as in the shipped configuration (60 s, 30 s), and a poll comes every tick. `Load`
bounds when client requests start: while fewer outcomes than that are kept (polls are
recorded regardless). It is 4 in `monitor_readmit`, so that a probe may start with the three
errors of a trip in the window, which outweigh its own success and that of the next poll.
`Delay` is how long a recorder is held up, `MaxSlot` bounds the slots reported. One client
request beside the monitor is enough for two recorders to overtake each other, and for a
probe. Ages stop counting at `MaxAge`, above anything a comparison asks for.

In the router the two speeds are further apart than noise and margin, so "one of the
fastest" is one upstream if the speeds differ; `Load` bounds the latencies kept for
`sendTransaction`, and is 2 in `router_starved` so that a p50 can move. With one entry to a
queue nothing depends on how many ticks it stays young, so in `router_settles` a tick outlasts
the window (`Window` is 0). `Full` and `Scale` are the grain of the success rate and of the scores; with an alpha of 75 % and `Full` 2 a
success rate falls from 1 to one half and to zero, and one success lifts it again, so that
an upstream that had succeeded is shut out by failures in the run, where latency does not
count.

In the guard one request has a blockhash verified and the other finds it in the cache;
there are more slots than validity, lag and limit together, so a request may come when the
bound is passed, and a cache of two evicts. One blockhash may be handed out without a context,
the others not, so that both alternatives of the bounds decide. `MaxSlot`, where the chain
stops, is a guard of `Produce`. The texts are of two layouts, one with shortvecs of one byte (127 accounts) and
one with a version byte, 127 signatures and a shortvec of two bytes; both whole, the second
a byte short as well. In the metrics two attempts let one overtake the other between any two
of its map accesses; `MaxRouted` bounds how often attempts start.

No run has a state constraint; every bound is a guard in the module. Symmetry of requests
(and upstreams) is used only in runs without liveness.

*Fairness.* Breaker and forwarding: a task that is between two awaits runs on, an expired
timer fires (WF), a monitor past its check trips (WF), and time goes on; strong fairness,
because a busy proxy keeps disabling `Tick` for an instant at a time. Monitor: the
synchronous sections of the loop and of requests run on, a poll ends (it has a timeout), and
time goes on. Metrics: the page is written to its end, and an attempt's recording, which
waits for a shard's lock that the scraper holds again and again, gets it in the end (SF;
the lock of a DashMap shard queues its waiters). Router: an attempt ends (it has a
timeout), monitors poll, time passes. Nothing is assumed of upstreams but `up` and `calm`
where a property mentions them; an answer may never come. Nothing is assumed of clients
either: `PolledFindsFastest` has the premise that calls keep coming, since without a call
the leader never changes.

## 4. What the violated runs show

- **Lost probe** (`rpc.rs:90`, `rpc.rs:137` with `rpc.rs:243`). A probe dropped at the
  deadline, or with its client, never settles. The circuit stays half-open with its
  slot taken: `try_admit` refuses everybody, `is_dropped` is false, so the upstream is
  still selected first and counted as healthy by `/readyz`. Only another trip frees it,
  and a recovered upstream gives no reason for one. `OnlyADropOrphansTheSlot`, and
  `OnlyADropOrphansASlot` for a pool, proved for all constants, say that this is the
  only way to lose a slot.
- **Readmitted and dropped** (`health.rs:77`). The probe's verdict closes the circuit, but
  the errors that opened it are still in the window, which outlasts the cooldown, and a
  dropped upstream has had nothing but its own polls to dilute them. The next tick trips it
  again, although it has not failed since. In the run: two requests and a poll fail, trip,
  cooldown, a probe and a poll succeed, and the three old errors are still more than half of
  what the window holds. `RecoveredStaysUp` says that it ends, `NoRestWithoutCause` why.
- **Starved** (`router.rs:71`, `router.rs:38-53`). For a method the monitors do not
  sample, an upstream without samples scores half a success, the one that has answered a
  whole one: whoever answers first is never compared with the others again, until it fails
  or is dropped. For `sendTransaction` the others are not even candidates.
  `PolledFindsFastest` is the same property where the monitors do sample, and holds.
- **Expired blockhash** (`rpc.rs:515`). A blockhash that an upstream calls valid is cached
  as of the current tip, however old it is. Its age starts again at zero, and calls with
  it pass until the tip is `max_blockhash_age_slots` further on, after it has expired on
  chain. `PassedIsRecent`, proved, is the guarantee that is left: validity and limit added
  up, or the limit counted from the last time an upstream handed the blockhash out without a
  context, which dates it by the tip as well.

Also seen, and not the subject of a run:

- If the cooldown does not exceed a request's deadline, which `validate` accepts, there can
  be two probes at once (`client.rs:145`: `settle_probe` does not ask whose verdict it is),
  and a probe that finds no permit can overwrite a trip that landed between its two
  critical sections (`client.rs:130-135`). The shipped settings (30 s, 15 s) exclude
  both: `OneProbe` and `RestLasts`, which assume just that.
- Of a margin of 0.1 `config.rs:46` says that a challenger "must be 10% better": the code, and
  `Routing`, keep a leader that scores at least `1 - margin` of the top (`router.rs:118`), so
  that a challenger must be 11 % better.
- An upstream's answer (status 2xx) that is not JSON counts as a success in the statistics, for
  the probe and in the access log. A client that sent a single call gets it as it is; in a batch
  it is replaced by an error afterwards (`rpc.rs:145-151`). In `Forwarding` it is an "ok".
- Statistics, health check and trip do not share a lock (`health.rs:77-80`): a trip may
  overturn the verdict of a probe that came in between. The abstract breaker lets it.
- A request's own exclusions decide who becomes the leader for all requests of the method
  (`router.rs:139-141`): one failed attempt moves the lead from an upstream that is no worse,
  although `pool.rs:15-16` says that only a challenger that beats it by the margin gets it.
- `validate` accepts `latency_weight` and `success_weight` both zero. Then every score is
  zero and nothing is routed by the generic path (`OnlyFailuresShutOut` names the case).
- "p50 latency on sendTransaction over the last 60s" (`router.rs:29`): the queue is pruned
  only when a call is recorded, so an upstream that gets none keeps a p50 of any age.
- `/readyz` means that "sendTransaction won't false-reject" (`server.rs:74-77`), but asks
  whether the warmup time has elapsed, not whether the cache or the tip has anything in it.
  A blockhash verified while the tip is still 0 is cached as of slot 0, and rejected as too
  old as soon as the tip is known (`rpc.rs:508`, `rpc.rs:515`).
- The freshness check comes before the deadline starts (`rpc.rs:84`, `rpc.rs:131`), so a
  `sendTransaction` can take its verification's timeouts on top of it.
- `error.rs:18` describes `AllUpstreamsExhausted` as "all upstreams attempted, all failed",
  but `forward_core` returns it only when no attempt was made; after a failed attempt the
  last upstream's error is returned (`GiveUp`).
- `ResponseTooLarge` is -32006 in its comment (`error.rs:24`) and -32007 in the code.
- A legacy transaction of 128 or more signatures would be read as a versioned one
  (`solana.rs:88`). It cannot exist: a packet holds a dozen. `Layouts` stops at 127.

## 5. Proofs

Module `CircuitBreakerProofs`. The only assumption on the constants is
`BreakerAssumption` (finite set of requests, positive cap and deadline, natural
cooldown), which is what `validate` ensures.

1. *Accounting* (types and `PermitsConserved`) is inductive with no further condition.
   The two need each other: a released permit stays within the cap because its holder
   is counted.
2. *Timing* is inductive if `Deadline < Cooldown`. Its core is `RestOutlastsRequests`:
   on an open circuit, every request still on the upstream satisfies
   `left + Cooldown <= Deadline + until`. A trip establishes it, a tick lowers both
   sides, so when `until` reaches 0 nobody is left: the probe enters an idle upstream.
   Hence the probe is alone (`ProbeHasUpstream`), finds a permit (by conservation), and
   never gives its slot back (`ProbeFindsPermit`): the second critical section of
   `try_admit` is dead code under this condition. Without it the invariant fails
   (section 4, two probes at once).
3. From *Timing*: `OneProbe`, `ProbeAlone`, `RestLasts`, `OnlyTheProbeReadmits`, and the
   refinement `BreakerKeepsPromise`, action by action.
4. From *Accounting* alone, for every cooldown: `LateVerdictsAreIgnored` and
   `OrphansComeFromDrops`.

Module `ForwardingProofs`, from `ForwardingAssumption` alone (finite sets of upstreams
and requests, positive cap and attempts, any scores and margin):

1. The types and `PermitsBalanced` are inductive together with `Targeting`, which says
   that a request trying an upstream has one, and an attempt left. Acquiring adds a
   request to the holders of one upstream and ending an attempt removes it; every other
   step leaves each upstream's holders and permits alone.
2. `AttemptsAreDistinct` follows from `Charged`, per request: it has been charged for as
   many attempts as it has excluded upstreams, plus one while it is on an upstream, and
   the upstream it is trying is not among them.
3. `NoFalseExhaustion` follows from `Seen` and `GaveUpFairly`, per request: what it has
   seen throughout is open now, and it has skipped none of it, because whatever made it
   skip an upstream had closed that upstream at that moment. So when no candidate is left,
   what it has seen throughout is among what it has tried. `Seen` is where the stale
   selection of `select_and_admit` is shown to be harmless.
4. `RequestsGetOn`, step by step: `TargetIsNew` says that the upstream a request tries is
   one it has neither skipped nor excluded, so that a refusal adds to the skips. A rank of
   attempts, skips and place in the code, compared in this order, rises with every step of
   a pending request.
5. `SlotsAreOrphanedByDrops` needs three facts of a step: a request goes on probing through
   the steps of the others (`OthersProbe`); while the slot stays taken its prober goes on
   too, or is dropped (`ProberProbes`); and who takes a slot is its prober
   (`TakenByAProbe`).
6. `ForwardingKeepsPromise`, the refinement, action by action. By `PermitsBalanced` fewer
   than `Cap` others are on an upstream that has a permit left; by `TargetIsNew` it has not
   failed the request; `Told`, what the reply is at each stage, is why a request that fails
   for want of an upstream is told "exhausted" exactly if it has not been sent.

Modules `RollingWindowProofs` and `HealthMonitorProofs`, from `MonitorAssumption`
(naturals, a positive interval and window, a percentage):

1. `RollingWindowProofs` is about the queue alone, whatever its entries hold. Pruning stops
   (at the entry just pushed, if not before); what a push leaves is a part of the old queue
   with the new entry at its end, whose front is not too old by the recorder's instant; what
   a tick leaves is the same queue, older.
2. `Sorted` is the strengthening for the window: an entry is older than a later one by no
   less than minus `Delay`. It is inductive, because a recorder's instant is at most `Delay`
   old when it pushes. With it the front bounds all: after a push the front is at most
   `Window + Delay` old, so every entry at most `Window + 2 * Delay`.
   `CheckedWindowIsRecent` follows, because the monitor has just pushed its own outcome
   when it checks, and no tick comes between.
3. `OnlyRecentErrorsTrip`: an error in the window is one the history knows, so the last
   error is no older than it.
4. `TipCoversReports` and `TipNeverGoesDown` need `tipRead <= tip`, which no monitor breaks
   because the tip never goes down; an exchange that fails learns a higher tip.
5. `RestsHaveACause` is the safety half of `RecoveredStaysUp`. While the upstream makes no
   mistakes, no error is recorded, so the last one only ages; once it is too old to be in
   any window the monitor checks (2), nothing trips, and a rest only runs down.

Module `MethodRoutingProofs`, from `RoutingAssumption` (weights and margin in percent,
`Alpha` strictly between 0 and 100, a scale fine enough that the slowest answer scores
above zero, and a single success more than nothing). An average is between the old one and
the sample (`EwmaWithin`), which is the latency bound of the types, and why a latency score
stays above zero; an average over a success is above zero whatever came before
(`EwmaOfSuccess`), so that `StaysPositive`, the strengthening, holds: a success rate is
above zero unless the latest sample is a failure.

1. `OnlyFailuresShutOut` is what is left of a score of zero.
2. `NobodyOverlooked`: with a candidate there is a choice. For the generic ranking the scores
   are bounded, so that there is a best one. For `sendTransaction` a queue that is not empty
   has an upper median (by the least number with enough entries below it), and the best
   of the ranking scores full, so that it is a candidate.
3. `SafeLeadsAreKept` is the safety half of `RoutingSettles`. A latency score falls as the
   latency rises, a weighted score rises with its parts; an average stays between the old
   one and the sample; so no sample in calm lowers a floor or raises a ceiling (`CalmInv`
   says what calm fixes). A leader whose floor is within the margin of every ceiling then
   passes the test of `apply_hysteresis` whenever it is made.

Modules `TxLayoutProofs` and `BlockhashGuardProofs`, from `GuardAssumption` (naturals, a
cache of at least one entry, texts of real layouts):

1. `ExtractsTheBlockhash`. `ShortvecRead`: reading a shortvec anywhere in a text gives its
   number and length, or nothing if the text ends before it does; in three cases by its
   length, each with its quotients. `Parts`: the shortvecs, and the byte that tells a
   versioned transaction, are where the reader looks for them. The theorem puts the
   offsets together. `JudgedByItsBlockhash` follows from it step by step.
2. The types, with no ties in the LRU order: `PromotionKeepsOrder` is about `Promoted`
   alone, and is where a promotion, an insertion and an eviction are told apart.
3. `DatesAreBounded` and `PassedIsRecent` are inductive together with `ReadsArePast` and
   `OffersArePast`: the tip, any copy of it, and the tip at which a blockhash was last handed
   out without a context, are behind the chain. A verification is the interesting step: the
   tip was read before the await, the answer is about a later moment, and so
   `tipRead <= chain <= hash + Validity + MaxLag` when the answer comes. An answer without a
   context dates by at most the tip, which is then what `offered` says, and `offered` never
   goes back (`OffersRise`). A hit adds at most `MaxAge`.
4. `DatesNeverGoBack`, step by step from the types.

Module `MetricsProofs`, from `MetricsAssumption` (a finite set of attempts, bounds that are
numbers): `Accounted` is inductive; its three sums each balance a counter against attempts
at a stage, and `Moving` says how these numbers change when one attempt moves on. For the
page, what has been written is compared with what the maps hold: written buckets are
cumulative and no higher than the maps'; while the guard is held they are equal to the
maps', so that the count read then is no higher, and by `Accounted` at most the attempts
lower. Requests are read before routing decisions, and these only grow.

Only model-checked: liveness (`PermitReturned`, `DropEnds`, `Answered`,
`RecoveredStaysUp`, `RoutingSettles`, `PolledFindsFastest`, `RecordingEnds`), which needs
fairness and ENABLED and is out of the prover's reach. `NoStepInVain`, `NoRestWithoutCause`
and `SafeLeadIsKept` are the parts of `Answered`, `RecoveredStaysUp` and `RoutingSettles`
that need neither, and are proved.

## 6. Not modelled

- *HTTP server, CLI, shutdown, logging, JSON* (`server.rs`, `main.rs`, `lib.rs`): wiring and
  I/O. Their pages read state the modules own.
- *Configuration* (`config.rs`): no state; what `validate` accepts is in the assumptions.
- *Errors* (`error.rs`): which class of outcome ends a request is in `Forwarding`; codes,
  texts and `redact_url` are formatting.
- *base58 and base64*: libraries. A `sendTransaction` that does not decode is a text of
  length 0, and goes on unchecked, as in the code.
- *Of the freshness check*: the loop of `verify_blockhash` over the upstreams is one answer,
  without time.
- *Of the metrics page*: the gauges of lag and health, and two plain counters.
- *Composition of everything*: each module has what its questions need of the others.
  `Forwarding` has scores that move freely, `HealthMonitor` no cap, `MethodRouting` no
  refusals and, during calm, no drops; a whole-system instance would be out of TLC's reach
  before it had one interesting case of each.
- *Upstreams that lie about slots*: the tip never goes down, so a single false report makes
  all others laggards and all blockhashes old. That follows from the code by reading.
