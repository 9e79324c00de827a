----------------------------- MODULE MCAppliance -----------------------------
(***************************************************************************)
(* Appliance on a small instance: three roots and a counter of two or      *)
(* three steps.  From the genesis root hosts submit two rival successors;  *)
(* a third transition follows one of them at the next index, a fourth      *)
(* follows the other, and two are malformed (a skipped index, a stale      *)
(* one).                                                                   *)
(***************************************************************************)
EXTENDS ApplianceRefinement

CONSTANTS h_0, h_1, h_2, alice, coin, policy, body

Hop(from, to, index, next) ==
  TransitionOf(from, to, index, next, alice, coin, policy, body)

MCRoots == {h_0, h_1, h_2}
MCTransitions ==
  {Hop(h_0, h_1, 0, 1), Hop(h_0, h_2, 0, 1),
   Hop(h_1, h_2, 1, 2), Hop(h_2, h_1, 1, 2),
   Hop(h_1, h_2, 2, 3), Hop(h_2, h_1, 2, 3),
   Hop(h_0, h_1, 0, 2), Hop(h_1, h_2, 0, 1)}

(* One chain and a transition at the last index, where the counter is      *)
(* exhausted.                                                              *)
MCChain == {Hop(h_0, h_1, 0, 1), Hop(h_1, h_2, 1, 2), Hop(h_2, h_1, 2, 3)}
=============================================================================
