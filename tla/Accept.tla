------------------------------- MODULE Accept -------------------------------
(***************************************************************************)
(* The receiver's acceptance predicate, accept_offline of accept.rs: its   *)
(* checks in order, the answer being the first that fails.                 *)
(*                                                                         *)
(* The receiver's DSM verifier is two constants: the counter a root        *)
(* commits to and the advances whose DSM proofs verify.  What the          *)
(* receiver's own chip session attested is a parameter: the set holding    *)
(* the value read, {} when there is no authentic transcript.  Of the       *)
(* evidence in the package only the anchor is compared, and the witness    *)
(* key only with the hash the certificate itself carries.                  *)
(***************************************************************************)
EXTENDS RootAdvance

CONSTANTS
  IndexOf,          \* root_commits_counter: the counter inside a root
  ProvenAdvances    \* verify_transition: pairs of a root and its successor

root_commits_counter(prev_root, anchor_counter) ==
  IndexOf[prev_root] = anchor_counter
verify_transition(t) == <<t.prev_root, t.next_root>> \in ProvenAdvances
delivers_to_receiver(t, ctx) == t.recipient_device_id = ctx.device_id

VerifierContext(device, parent_root, anchor_id, challenge, policy, h0, cap, ok) ==
  [device_id |-> device, accepted_prev_root |-> parent_root,
   pinned_anchor_id |-> anchor_id, expected_receiver_challenge |-> challenge,
   expected_policy_hash |-> policy, enrolled_counter |-> h0,
   exposure_cap_index |-> cap, anchor_uncompromised |-> ok]

(* Mutant of (1): the successor root is not compared.                      *)
SameParent(cert, t) ==
  /\ cert.prev_root = t.prev_root
  /\ cert.anchor_counter = t.anchor_counter
  /\ cert.next_anchor_counter = t.next_anchor_counter

(* (1) The header the certificate repeats is the transition's.             *)
SameAdvance(cert, t) ==
  /\ cert.prev_root = t.prev_root /\ cert.next_root = t.next_root
  /\ cert.anchor_counter = t.anchor_counter
  /\ cert.next_anchor_counter = t.next_anchor_counter

(* Mutant of (5): any challenge.                                           *)
AnswersAny(cert, ctx) == TRUE

(* (5) The certificate is for this receiver's challenge.                   *)
AnswersChallenge(cert, ctx) ==
  cert.receiver_challenge = ctx.expected_receiver_challenge

(* Mutant of (14): the value of the parent's index.                        *)
CounterProvesParent(attested, ev, t, ctx) ==
  /\ t.next_anchor_counter <= ctx.enrolled_counter
  /\ ev.anchor_id = ctx.pinned_anchor_id
  /\ attested = {ctx.enrolled_counter - t.anchor_counter}

(* (14) The counter has come down to exactly H0 - next index; a next index *)
(* beyond the enrolled counter has no such value.                          *)
CounterProves(attested, ev, t, ctx) ==
  /\ t.next_anchor_counter <= ctx.enrolled_counter
  /\ ev.anchor_id = ctx.pinned_anchor_id
  /\ attested = {ctx.enrolled_counter - t.next_anchor_counter}

accept_offline(rel, ctx, attested) ==
  LET t == rel.transition
      cert == rel.cert
      d == transition_digest(t)
      x == witness_input(t, d, cert.anchor_id, cert.slot,
                         cert.receiver_challenge)
      p_hw == pk_hash(cert.pk_hw)
      m == cert_message(t, d, x, p_hw, cert.anchor_id, cert.slot,
                        cert.receiver_challenge)
  IN
  IF ~SameAdvance(cert, t) THEN "NonCanonical"
  ELSE IF t.prev_root # ctx.accepted_prev_root
          \/ cert.anchor_id # ctx.pinned_anchor_id THEN "PrevRootNotAccepted"
  ELSE IF ~root_commits_counter(t.prev_root, t.anchor_counter)
         THEN "AnchorCounterUncommitted"
  ELSE IF t.anchor_counter + 1 # t.next_anchor_counter THEN "BadNextIndex"
  ELSE IF ~AnswersChallenge(cert, ctx) THEN "ChallengeMismatch"
  ELSE IF d # cert.transition_digest THEN "DigestMismatch"
  ELSE IF ~verify_transition(t) THEN "TransitionProofInvalid"
  ELSE IF ~delivers_to_receiver(t, ctx) THEN "NotDeliveredToReceiver"
  ELSE IF t.authority_policy_hash # ctx.expected_policy_hash
         THEN "PolicyMismatch"
  ELSE IF x # cert.witness_input THEN "WitnessInputMismatch"
  ELSE IF p_hw # cert.pk_hash THEN "PkHashMismatch"
  ELSE IF ~verify(cert.pk_hw, m, cert.sigma) THEN "WitnessSigInvalid"
  ELSE IF ~CounterProves(attested, rel.counter, t, ctx)
         THEN "CounterEvidenceInvalid"
  ELSE IF t.next_anchor_counter > ctx.exposure_cap_index
         THEN "ExposureCapExceeded"
  ELSE IF ~ctx.anchor_uncompromised THEN "AnchorCompromised"
  ELSE "Ok"
=============================================================================
