--------------------------- MODULE HealthMonitor ---------------------------
(***************************************************************************)
(* The health monitor of one upstream (run_monitor), the rolling window of *)
(* outcomes it shares with the client requests on that upstream, the       *)
(* circuit it trips and they probe, and the tip it shares with the         *)
(* monitors of the other upstreams.                                        *)
(*                                                                         *)
(* The cap on concurrent requests is not reached here (CircuitBreaker has  *)
(* it), so try_admit is its first critical section.  All other monitors    *)
(* together are one action: they raise the tip.                            *)
(***************************************************************************)
EXTENDS Circuit, RollingWindow

CONSTANTS
  Requests,   \* concurrent client requests on the upstream
  Interval,   \* check_interval_secs, in ticks
  Window,     \* rolling_window_secs, in ticks
  Threshold,  \* circuit_breaker_error_rate, in percent
  Cooldown,   \* circuit_breaker_cooldown_secs, in ticks
  Delay,      \* bound: ticks from reading `now` to holding the queue's lock
  Load,       \* bound: requests start while fewer outcomes than this are kept
  MaxSlot     \* bound: slots reported

(* What Config::validate demands, which relates none of them. *)
ASSUME MonitorAssumption ==
  /\ Interval \in Nat \ {0} /\ Window \in Nat \ {0}
  /\ Threshold \in 0..100 /\ Cooldown \in Nat
  /\ Delay \in Nat /\ Load \in Nat /\ MaxSlot \in Nat

VARIABLES
  up,        \* external: the upstream answers every request correctly
  window,    \* StatsStore.errors of the upstream
  circuit,   \* RwLock<CircuitState>
  pc,        \* where each request is
  probe,     \* is_probe of each
  outcome,   \* what it is about to record, or has recorded
  monitor,   \* where the monitor is
  sleep,     \* ticks it has still to sleep
  poll,      \* what it is about to record
  last_slot, \* of this upstream
  tip,       \* tip_slot
  tipRead,   \* the tip the monitor has loaded in its loop, else 0
  lastError, \* history: age of the latest error recorded
  cleared    \* history: "tripped" while no error is recorded after a trip, then
             \* "readmitted" if a probe closes the circuit between two polls

requestVars == <<pc, probe, outcome>>
monitorVars == <<monitor, sleep, poll>>
slotVars == <<last_slot, tip, tipRead>>
vars == <<up, window, circuit, requestVars, monitorVars, slotVars, lastError, cleared>>

MaxAge == Window + 2 * Delay + 1   \* older than any window can hold
Outcomes == [age : 0..MaxAge, err : BOOLEAN]
Fresh(err) == [age |-> 0, err |-> err]
Slots == 0..MaxSlot

(***************************************************************************)
(* A request is idle, inflight, recording (its `now` read, the queue not   *)
(* yet locked) or recorded (a probe settles next).  The monitor sleeps,    *)
(* polls, records, raises the tip, checks the error rate, trips and seeds  *)
(* the blockhash cache.                                                    *)
(***************************************************************************)
Init ==
  /\ up \in BOOLEAN
  /\ window = <<>>
  /\ circuit = Closed
  /\ pc = [t \in Requests |-> "idle"]
  /\ probe = [t \in Requests |-> FALSE]
  /\ outcome = [t \in Requests |-> Fresh(FALSE)]
  /\ monitor = "sleeping" /\ sleep = Interval /\ poll = Fresh(FALSE)
  /\ last_slot = 0 /\ tip = 0 /\ tipRead = 0
  /\ lastError = MaxAge
  /\ cleared = "no"

(* An upstream that is not up may answer rightly or wrongly. *)
MayAnswer(err) == up => ~err

(* The upstream breaks down or recovers. *)
Flip ==
  /\ up' = ~up
  /\ UNCHANGED <<window, circuit, requestVars, monitorVars, slotVars, lastError, cleared>>

(* StatsStore::record, once it holds the queue's lock. *)
Record(e) ==
  /\ window' = Pushed(window, e, Window)
  /\ lastError' = IF e.err /\ e.age < lastError THEN e.age ELSE lastError
  /\ cleared' = IF e.err THEN "no" ELSE cleared

-----------------------------------------------------------------------------
(* A client request is admitted and sent. *)
Send(t) ==
  /\ pc[t] = "idle"
  /\ Len(window) < Load
  /\ ~Refuses(circuit)
  /\ circuit' = Entered(circuit)
  /\ probe' = [probe EXCEPT ![t] = BecomesProbe(circuit)]
  /\ pc' = [pc EXCEPT ![t] = "inflight"]
  /\ UNCHANGED <<up, window, outcome, monitorVars, slotVars, lastError, cleared>>

(* fire_once has its answer; record reads `now`. *)
Answer(t, err) ==
  /\ pc[t] = "inflight"
  /\ MayAnswer(err)
  /\ outcome' = [outcome EXCEPT ![t] = Fresh(err)]
  /\ pc' = [pc EXCEPT ![t] = "recording"]
  /\ UNCHANGED <<up, window, circuit, probe, monitorVars, slotVars, lastError, cleared>>

RecordAnswer(t) ==
  /\ pc[t] = "recording"
  /\ Record(outcome[t])
  /\ pc' = [pc EXCEPT ![t] = "recorded"]
  /\ UNCHANGED <<up, circuit, probe, outcome, monitorVars, slotVars>>

(* A probe settles, and the request is over. *)
Settle(t) ==
  /\ pc[t] = "recorded"
  /\ circuit' = IF probe[t] THEN Settled(circuit, ~outcome[t].err, Cooldown) ELSE circuit
  /\ cleared' = IF /\ cleared = "tripped" /\ monitor = "sleeping"
                    /\ circuit # Closed /\ circuit' = Closed
                 THEN "readmitted" ELSE cleared
  /\ pc' = [pc EXCEPT ![t] = "idle"]
  /\ probe' = [probe EXCEPT ![t] = FALSE]
  /\ outcome' = [outcome EXCEPT ![t] = Fresh(FALSE)]
  /\ UNCHANGED <<up, window, monitorVars, slotVars, lastError>>

(* Deadline or disconnect: nothing is recorded and nothing settled. *)
Drop(t) ==
  /\ pc[t] = "inflight"
  /\ pc' = [pc EXCEPT ![t] = "idle"]
  /\ probe' = [probe EXCEPT ![t] = FALSE]
  /\ UNCHANGED <<up, window, circuit, outcome, monitorVars, slotVars, lastError, cleared>>

-----------------------------------------------------------------------------
MonitorGoes(from, to) == monitor = from /\ monitor' = to
poolVars == <<up, requestVars>>

Wake ==
  /\ MonitorGoes("sleeping", "polling")
  /\ sleep = 0
  /\ UNCHANGED <<poolVars, window, circuit, sleep, poll, slotVars, lastError, cleared>>

(* getSlot is answered with a slot, which is stored at once, *)
PollAnswered(s) ==
  /\ MonitorGoes("polling", "recording")
  /\ last_slot' = s
  /\ poll' = Fresh(FALSE)
  /\ UNCHANGED <<poolVars, window, circuit, sleep, tip, tipRead, lastError, cleared>>

(* or with anything else, or not at all. *)
PollFailed ==
  /\ MonitorGoes("polling", "recording")
  /\ MayAnswer(TRUE)
  /\ poll' = Fresh(TRUE)
  /\ UNCHANGED <<poolVars, window, circuit, sleep, slotVars, lastError, cleared>>

(* The outcome is recorded; with a slot in hand, the tip is loaded next. *)
RecordPoll ==
  /\ MonitorGoes("recording", IF poll.err THEN "checking" ELSE "raising")
  /\ Record(poll)
  /\ tipRead' = IF poll.err THEN 0 ELSE tip
  /\ poll' = Fresh(FALSE)
  /\ UNCHANGED <<poolVars, circuit, sleep, last_slot, tip>>

(* The loop `while s > tip`: over, or one compare_exchange that succeeds, *)
RaiseTip ==
  /\ MonitorGoes("raising", "checking")
  /\ last_slot <= tipRead \/ tipRead = tip
  /\ tip' = IF last_slot > tipRead THEN last_slot ELSE tip
  /\ tipRead' = 0
  /\ UNCHANGED <<poolVars, window, circuit, sleep, poll, last_slot, lastError, cleared>>

Mut_RaiseTipOnce ==
  /\ MonitorGoes("raising", "checking")
  /\ last_slot > tipRead /\ tipRead # tip
  /\ tipRead' = 0
  /\ UNCHANGED <<poolVars, window, circuit, sleep, poll, last_slot, tip, lastError, cleared>>

(* or one that fails, and hands back the tip it found. *)
RaiseTipAgain ==
  /\ MonitorGoes("raising", "raising")
  /\ last_slot > tipRead /\ tipRead # tip
  /\ tipRead' = tip
  /\ UNCHANGED <<poolVars, window, circuit, sleep, poll, last_slot, tip, lastError, cleared>>

(* The rolling error rate, and is_dropped. *)
Check ==
  /\ MonitorGoes("checking",
       IF ErrorRateExceeds(window, Threshold) /\ ~IsDropped(circuit)
       THEN "tripping" ELSE "seeding")
  /\ UNCHANGED <<poolVars, window, circuit, sleep, poll, slotVars, lastError, cleared>>

Mut_TripOnTop ==
  /\ MonitorGoes("tripping", "seeding")
  /\ circuit' = Open(circuit.until + Cooldown)
  /\ cleared' = "tripped"
  /\ UNCHANGED <<poolVars, window, sleep, poll, slotVars, lastError>>

Trip ==
  /\ MonitorGoes("tripping", "seeding")
  /\ circuit' = Open(Cooldown)
  /\ cleared' = "tripped"
  /\ UNCHANGED <<poolVars, window, sleep, poll, slotVars, lastError>>

(* getLatestBlockhash is answered, or not (BlockhashGuard has the cache). *)
Seed ==
  /\ MonitorGoes("seeding", "sleeping")
  /\ sleep' = Interval
  /\ UNCHANGED <<poolVars, window, circuit, poll, slotVars, lastError, cleared>>

(* Another upstream's monitor has raised the tip. *)
OtherMonitor(s) ==
  /\ s > tip
  /\ tip' = s
  /\ UNCHANGED <<poolVars, monitorVars, window, circuit, last_slot, tipRead, lastError, cleared>>

-----------------------------------------------------------------------------
(* Nobody but the awaiting lets a tick pass, except between `now` and the  *)
(* queue's lock, where a thread may be held up for Delay ticks.            *)
MayWait(e) == e.age < Delay
Waiting ==
  /\ monitor \in {"polling", "recording", "seeding"} \/ (monitor = "sleeping" /\ sleep > 0)
  /\ monitor = "recording" => MayWait(poll)
  /\ \A t \in Requests : /\ pc[t] # "recorded"
                         /\ pc[t] = "recording" => MayWait(outcome[t])

Older(e) == [e EXCEPT !.age = @ + 1]
Tick ==
  /\ Waiting
  /\ window' = Aged(window, MaxAge)
  /\ circuit' = Cooled(circuit)
  /\ outcome' = [t \in Requests |->
                   IF pc[t] = "recording" THEN Older(outcome[t]) ELSE outcome[t]]
  /\ poll' = IF monitor = "recording" THEN Older(poll) ELSE poll
  /\ sleep' = IF monitor = "sleeping" THEN sleep - 1 ELSE sleep
  /\ lastError' = IF lastError < MaxAge THEN lastError + 1 ELSE lastError
  /\ UNCHANGED <<up, pc, probe, monitor, slotVars, cleared>>

-----------------------------------------------------------------------------
MonitorRunsOn ==
  \/ Wake \/ RecordPoll \/ RaiseTip \/ RaiseTipAgain \/ Check \/ Trip

RequestRunsOn(t) == RecordAnswer(t) \/ Settle(t)

RequestStep(t) ==
  \/ Send(t)
  \/ \E err \in BOOLEAN : Answer(t, err)
  \/ RequestRunsOn(t)
  \/ Drop(t)

PollEnds == PollFailed \/ \E s \in Slots : PollAnswered(s)

Next ==
  \/ Flip
  \/ \E t \in Requests : RequestStep(t)
  \/ MonitorRunsOn
  \/ PollEnds
  \/ Seed
  \/ \E s \in Slots : OtherMonitor(s)
  \/ Tick

Spec == Init /\ [][Next]_vars

(***************************************************************************)
(* Fairness.  Synchronous sections run on.  A poll ends, answered or timed *)
(* out (both requests of the monitor have a timeout), and time goes on.    *)
(* The upstream, the clients and the other monitors owe nothing.           *)
(***************************************************************************)
FairSpec ==
  /\ Spec
  /\ \A t \in Requests : WF_vars(RequestRunsOn(t))
  /\ WF_vars(MonitorRunsOn \/ PollEnds \/ Seed)
  /\ SF_vars(Tick)

-----------------------------------------------------------------------------
TypeOK ==
  /\ up \in BOOLEAN
  /\ window \in Seq(Outcomes)
  /\ circuit \in CircuitStates(Cooldown)
  /\ pc \in [Requests -> {"idle", "inflight", "recording", "recorded"}]
  /\ probe \in [Requests -> BOOLEAN]
  /\ outcome \in [Requests -> Outcomes]
  /\ monitor \in {"sleeping", "polling", "recording", "raising",
                  "checking", "tripping", "seeding"}
  /\ sleep \in 0..Interval
  /\ poll \in Outcomes
  /\ last_slot \in Slots /\ tip \in Slots /\ tipRead \in Slots
  /\ lastError \in 0..MaxAge
  /\ cleared \in {"no", "tripped", "readmitted"}

(* Recorders may push out of order, by as much as they can be held up.  *)
NearlySorted ==
  \A i, j \in DOMAIN window : i < j => window[j].age <= window[i].age + Delay

(* "rolling error rate": what the monitor's check counts is no older than  *)
(* the window and the recorders' delays, although entries are pushed out   *)
(* of order, and pruned from the front and on push only.                   *)
CheckedWindowIsRecent ==
  monitor \in {"raising", "checking"} =>
    \A i \in DOMAIN window : window[i].age <= Window + 2 * Delay

(* An upstream that has had no error for that long is not tripped, and not *)
(* even between the check and the trip is the reason gone.                 *)
OnlyRecentErrorsTrip == monitor = "tripping" => lastError <= Window + 2 * Delay

(* Once the monitor is through with its loop, the tip covers what its      *)
(* upstream has reported, whoever else has raised it meanwhile.            *)
TipCoversReports == monitor \notin {"recording", "raising"} => last_slot <= tip

(* The tip never goes down: no monitor overwrites a higher one. *)
TipNeverGoesDown == [][tip <= tip']_vars

(* An upstream that has recovered, and stays so, is dropped no more, from  *)
(* some time on: its old errors do not keep tripping it for ever.          *)
RecoveredStaysUp == <>[]up => <>[]~IsDropped(circuit)

(* No error is about to be recorded, and none has been for that long.      *)
Recovered ==
  /\ up /\ ~poll.err /\ \A t \in Requests : ~outcome[t].err
  /\ lastError > Window + 2 * Delay

(* The safety in that, step by step (health.rs:77-83, client.rs:143-160):  *)
(* for as long as it stays up, a recovered upstream stays recovered, and   *)
(* its cooldown only runs down; no trip and no verdict of any probe,       *)
(* however old, starts it anew.                                            *)
NoRestWithoutCause ==
  [][Recovered /\ up' => Recovered' /\ circuit'.until <= circuit.until]_vars

(* The README's "exactly one probe request decides whether the provider is *)
(* readmitted": an upstream that has been tripped, and readmitted by its   *)
(* probe, is not dropped again for errors of before the trip (it is: see   *)
(* README of this directory).                                              *)
ProbeDecides ==
  [][cleared = "readmitted" /\ circuit = Closed => circuit' = Closed]_vars

=============================================================================
