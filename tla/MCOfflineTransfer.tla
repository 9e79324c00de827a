-------------------------- MODULE MCOfflineTransfer --------------------------
(***************************************************************************)
(* Two sessions of one receiver and an owner with rival transitions of the *)
(* genesis root, a second step of the chain and a transition to somebody   *)
(* else.  The transport has one witness key of its own, writes another     *)
(* slot into its certificates and evidence that is not the appliance's.    *)
(***************************************************************************)
EXTENDS OfflineTransfer, TLC

CONSTANTS h_0, h_1, h_2, h_3, alice, bob, s1, s2, coin, policy, body, elsewhere

Hop(from, to, index, next, whom) ==
  TransitionOf(from, to, index, next, whom, coin, policy, body)

MCRoots == {h_0, h_1, h_2, h_3}
MCTransitions ==
  {Hop(h_0, h_1, 0, 1, alice), Hop(h_0, h_2, 0, 1, alice),
   Hop(h_1, h_3, 1, 2, alice), Hop(h_2, h_3, 1, 2, bob)}
MCIndexOf == [r \in MCRoots |-> CASE r = h_0 -> 0 [] r = h_3 -> 2 [] OTHER -> 1]
MCProvenAdvances == {<<h_0, h_1>>, <<h_0, h_2>>, <<h_1, h_3>>, <<h_2, h_3>>}
MCDeviceOf == [s \in {s1, s2} |-> alice]

MCClaims == {CounterEvidence(AnchorId, 0, 0, 0), CounterEvidence(elsewhere, 0, 0, 0)}

(* The two sessions differ in nothing but their challenge.                 *)
SwapSessions == Permutations({s1, s2})
=============================================================================
