------------------------------ MODULE MCService ------------------------------
(***************************************************************************)
(* The service on a counter of two steps: every opcode, prepare requests   *)
(* for two rival transitions and a step after one of them, a stale one,    *)
(* and requests with a field missing or of the wrong length.               *)
(***************************************************************************)
EXTENDS Service

CONSTANTS h_0, h_1, h_2, alice, coin, policy, body, r_R

Hop(from, to, index, next) ==
  TransitionOf(from, to, index, next, alice, coin, policy, body)

MCRoots == {h_0, h_1, h_2}
MCTransitions ==
  {Hop(h_0, h_1, 0, 1), Hop(h_0, h_2, 0, 1), Hop(h_1, h_2, 1, 2),
   Hop(h_1, h_2, 0, 1)}

MCRequests ==
  {ApplianceRequest("Prepare", {t}, r_R) : t \in MCTransitions}
    \cup {ApplianceRequest("Prepare", {}, r_R),
          ApplianceRequest("Prepare", {Malformed}, r_R),
          ApplianceRequest("Prepare", {Hop(h_0, h_1, 0, 1)}, Malformed)}
    \cup {ApplianceRequest(op, {}, Malformed) :
            op \in {"Commit", "Emit", "Finalize", "Status", "Cancel",
                    "Unspecified"}}
=============================================================================
