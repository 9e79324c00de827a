------------------------------ MODULE MCFirmware ------------------------------
(***************************************************************************)
(* Two boots: the self-test's advance, a rival of it and a transition that *)
(* starts at the root of the genesis with a later index.                   *)
(***************************************************************************)
EXTENDS Firmware

CONSTANTS h_0, h_1, h_2, alice, coin, policy, body, r_R

Hop(from, to, index, next) ==
  TransitionOf(from, to, index, next, alice, coin, policy, body)

MCRoots == {h_0, h_1, h_2}
MCTest == Hop(h_0, h_1, 0, 1)
MCTransitions == {MCTest, Hop(h_0, h_2, 0, 1), Hop(h_0, h_2, 1, 2)}
MCRequests ==
  {ApplianceRequest("Prepare", {t}, r_R) : t \in MCTransitions}
    \cup {ApplianceRequest(op, {}, Malformed) :
            op \in {"Commit", "Emit", "Finalize", "Status", "Cancel"}}

(* What TrivialDsm agrees to, as far as it is asked.                       *)
MCIndexOf == [r \in MCRoots |-> 0]
MCProven == {<<h_0, h_1>>}
=============================================================================
