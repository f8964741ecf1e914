-------------------------- MODULE MCMethodRouting --------------------------
(* The setups of MethodRouting for TLC: a method the monitors sample, one  *)
(* with a queue of its own, and any other; latency counting or not.        *)
EXTENDS MethodRouting

MCSetups ==
  [method : {Polled, Sending, "getBalance"}, latency_weight : {80}]
    \cup [method : {Polled, "getBalance"}, latency_weight : {0}]

MCUnpolled == [method : {Sending, "getBalance"}, latency_weight : {80}]

=============================================================================
