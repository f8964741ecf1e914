------------------------------ MODULE Routing ------------------------------
(***************************************************************************)
(* The choice select_for_method makes among upstreams, given each one's    *)
(* score.  A score is a natural number on whatever scale the scoring uses: *)
(* only comparisons, and comparisons with a percentage of another score,   *)
(* matter to the choice.  margin is routing.hysteresis_margin in percent.  *)
(***************************************************************************)
EXTENDS Naturals

(* Upstreams that are not excluded, not dropped, and score above zero. *)
Candidates(score, dropped, exclude) ==
  {u \in DOMAIN score : u \notin exclude /\ u \notin dropped /\ score[u] > 0}

(* The best of them; the code breaks ties at random. *)
Best(score, candidates) ==
  {u \in candidates : \A v \in candidates : score[v] <= score[u]}

(* The leader holds if it is a candidate within the margin of the best. *)
HoldsLead(score, candidates, leader, margin) ==
  /\ leader \in candidates
  /\ \A v \in candidates : 100 * score[leader] >= (100 - margin) * score[v]

(* apply_hysteresis: whom it may return; the returned one is the leader.   *)
Preferred(score, candidates, leader, margin) ==
  IF HoldsLead(score, candidates, leader, margin)
  THEN {leader}
  ELSE Best(score, candidates)

=============================================================================
