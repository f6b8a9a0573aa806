------------------------------ MODULE MCPickers ------------------------------
(* An instance of Pickers for TLC; lists that fill a page and lists that do not. *)
EXTENDS Pickers, TLC

CONSTANTS p1, p2

MCLists ==
  {[family |-> "model", sizes |-> q] : q \in {<<1, 3, 2>>, <<4>>, <<2, 1, 1, 1, 5>>}}
    \cup {[family |-> "choice", sizes |-> <<n>>] : n \in 1..5}
MCSymmetry == Permutations({p1, p2})

=============================================================================
