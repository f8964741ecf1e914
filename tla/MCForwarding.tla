---------------------------- MODULE MCForwarding ----------------------------
(* Instances of Forwarding for TLC. *)
EXTENDS Forwarding, TLC

(* Neither requests nor upstreams differ by their names. *)
Symmetry == Permutations(Requests) \cup Permutations(Upstreams)

=============================================================================
