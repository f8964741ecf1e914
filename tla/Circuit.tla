------------------------------ MODULE Circuit ------------------------------
(***************************************************************************)
(* The circuit-breaker state of one upstream (enum CircuitState) and what  *)
(* each method of Upstream does to it under its write lock.                *)
(*                                                                         *)
(* The code stores the instant `until` at which an open circuit expires;   *)
(* here `until` is the number of ticks that are still to go, so "now has   *)
(* reached until" reads "until = 0" and the state space stays finite.  A   *)
(* field that the code's variant does not have keeps its default value.    *)
(*                                                                         *)
(* An operator named Mut_Op is Op with a slip a change to the code could   *)
(* make; it is used by no specification, only put in Op's place to see     *)
(* which property notices.                                                 *)
(***************************************************************************)
EXTENDS Naturals

Closed == [kind |-> "Closed", until |-> 0, probe_in_flight |-> FALSE]
Open(n) == [kind |-> "Open", until |-> n, probe_in_flight |-> FALSE]
HalfOpen(b) == [kind |-> "HalfOpen", until |-> 0, probe_in_flight |-> b]

(* Every state a circuit with the given cooldown can be in. *)
CircuitStates(cooldown) ==
  {c \in [kind : {"Closed", "Open", "HalfOpen"},
          until : 0..cooldown,
          probe_in_flight : BOOLEAN] :
     /\ c.kind # "Open" => c.until = 0
     /\ c.kind # "HalfOpen" => ~c.probe_in_flight}

(* is_dropped: open, and the cooldown still running. *)
IsDropped(c) == c.kind = "Open" /\ c.until > 0

(* The early returns of try_admit's first critical section. *)
Mut_RefusesProbesOnly(c) == c = HalfOpen(TRUE)
Refuses(c) == IsDropped(c) \/ c = HalfOpen(TRUE)

(* Otherwise the caller is a probe unless the circuit is closed, and a     *)
(* probe takes the single probe slot.                                      *)
BecomesProbe(c) == c.kind # "Closed"
Mut_EnteredCloses(c) == IF BecomesProbe(c) THEN Closed ELSE c
Entered(c) == IF BecomesProbe(c) THEN HalfOpen(TRUE) ELSE c

(* settle_probe: a verdict counts only while a probe slot is taken. *)
Mut_SettledUnguarded(c, ok, cooldown) == IF ok THEN Closed ELSE Open(cooldown)
Mut_SettledOnSuccessOnly(c, ok, cooldown) ==
  IF c = HalfOpen(TRUE) /\ ok THEN Closed ELSE c
Settled(c, ok, cooldown) ==
  IF c # HalfOpen(TRUE) THEN c
  ELSE IF ok THEN Closed ELSE Open(cooldown)

(* One tick of the clock. *)
Cooled(c) == IF IsDropped(c) THEN Open(c.until - 1) ELSE c

=============================================================================
