-------------------------------- MODULE MCHost --------------------------------
(***************************************************************************)
(* One transition, the one the self-test and the script both submit.       *)
(***************************************************************************)
EXTENDS Host

CONSTANTS h_0, h_1, alice, coin, policy, body, r_R

MCRoots == {h_0, h_1}
MCTest == TransitionOf(h_0, h_1, 0, 1, alice, coin, policy, body)
MCTransitions == {MCTest}
MCRequests ==
  {ApplianceRequest("Prepare", {MCTest}, r_R)}
    \cup {ApplianceRequest(op, {}, Malformed) :
            op \in {"Commit", "Emit", "Finalize", "Status"}}
MCIndexOf == [r \in MCRoots |-> 0]
MCProven == {<<h_0, h_1>>}
=============================================================================
