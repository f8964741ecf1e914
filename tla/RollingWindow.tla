--------------------------- MODULE RollingWindow ---------------------------
(***************************************************************************)
(* The queues of StatsStore: outcomes (errors) or latencies                *)
(* (send_tx_latency), each with the instant its recorder read.             *)
(*                                                                         *)
(* An entry is a record with a field `age`: the ticks since its instant.   *)
(* The recorder's own `now` has an age too, because it is read before the  *)
(* queue is locked; an instant less another is the difference of ages.     *)
(***************************************************************************)
EXTENDS Naturals, Sequences, FiniteSets

(* now.duration_since(t) > window, for a `now` that is itself `now` old. *)
TooOld(e, now, window) == e.age > now + window

(* Where pruning stops: at the first entry that is not too old. *)
FirstYoung(q, now, window) ==
  CHOOSE i \in DOMAIN q :
    /\ ~TooOld(q[i], now, window)
    /\ \A j \in 1..(i - 1) : TooOld(q[j], now, window)

(* push_back, then pop_front while the front is too old.  The entry just   *)
(* pushed is never too old, so pruning stops.                              *)
Mut_PushedUnpruned(q, e, window) == Append(q, e)
Mut_PushedPoppingOne(q, e, window) ==
  IF q # <<>> /\ TooOld(Head(q), e.age, window) THEN Append(Tail(q), e) ELSE Append(q, e)
Pushed(q, e, window) ==
  LET r == Append(q, e)
  IN SubSeq(r, FirstYoung(r, e.age, window), Len(r))

(* Time passes; ages above `cap` need not be told apart. *)
Aged(q, cap) ==
  [i \in DOMAIN q |-> [q[i] EXCEPT !.age = IF @ < cap THEN @ + 1 ELSE @]]

(* error_rate(q) > pct / 100.  (An empty queue has the rate 0.) *)
Errors(q) == {i \in DOMAIN q : q[i].err}
Mut_SuccessRateExceeds(q, pct) == 100 * (Len(q) - Cardinality(Errors(q))) > pct * Len(q)
ErrorRateExceeds(q, pct) == 100 * Cardinality(Errors(q)) > pct * Len(q)

=============================================================================
