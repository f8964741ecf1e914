-------------------------- MODULE MCBlockhashGuard --------------------------
(* Instances of BlockhashGuard for TLC. *)
EXTENDS BlockhashGuard, TLC

(* Requests do not differ by their names. *)
Symmetry == Permutations(Requests)

(* Transactions with lengths of one byte and of two, carrying blockhashes  *)
(* that no slot, the first and the second produced.  Their texts are all   *)
(* there, or one of the longer ones is a byte short.                       *)
Short == [sigs |-> 1, versioned |-> FALSE, accounts |-> 127]
Long == [sigs |-> 127, versioned |-> TRUE, accounts |-> 300]
MCTexts ==
  {[layout |-> Short, carries |-> h, length |-> Ends(Short)] : h \in 0..2}
    \cup {[layout |-> Long, carries |-> 1, length |-> Ends(Long) - n] : n \in 0..1}

=============================================================================
