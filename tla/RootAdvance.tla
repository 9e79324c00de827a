---------------------------- MODULE RootAdvance ----------------------------
(***************************************************************************)
(* The objects of root_advance.rs and tropic.rs that travel between the    *)
(* appliance and a receiver: the transition, the digests derived from it,  *)
(* the witness signature and the release.                                  *)
(*                                                                         *)
(* The cryptography is ideal: a digest is the tagged tuple of what the     *)
(* code hashes, so two digests are equal exactly when the code hashes the  *)
(* same fields under the same domain tag, and a signature is the tagged    *)
(* pair of the signing seed and the message.  Of the fourteen fields of a  *)
(* Transition, the ones no code outside the digest reads are one field     *)
(* here, payload.                                                          *)
(***************************************************************************)
EXTENDS Naturals

(* A Transition: payload stands for relationship_id, sender_device_id,     *)
(* action_type, action_fields, payload_hash and the two leaf proofs.       *)
TransitionOf(from, to, index, next, recipient, object, policy_hash, payload) ==
  [prev_root |-> from, next_root |-> to,
   anchor_counter |-> index, next_anchor_counter |-> next,
   recipient_device_id |-> recipient, object_id |-> object,
   authority_policy_hash |-> policy_hash, payload |-> payload]

(* D: the hash of every field of the transition.                           *)
transition_digest(t) == <<"transition-digest", t>>

(* X, the MACANDD input.                                                   *)
witness_input(t, d, anchor_id, q, receiver_challenge) ==
  <<"root-advance-input", t.prev_root, t.next_root, t.anchor_counter,
    t.next_anchor_counter, d, t.recipient_device_id, t.object_id,
    t.authority_policy_hash, anchor_id, q, receiver_challenge>>

(* K, the seed of the one-time witness key, keyed by the MACANDD output w.  *)
witness_key_material(w, x, t, anchor_id, q) ==
  <<"witness-key", w, x, t.prev_root, t.next_root, t.anchor_counter,
    t.next_anchor_counter, anchor_id, q, t.authority_policy_hash>>

(* P_hw, the handle of the public key.                                     *)
pk_hash(pk_hw) == <<"pk-hash", pk_hw>>

(* M, the message the witness key signs.                                   *)
cert_message(t, d, x, p_hw, anchor_id, q, receiver_challenge) ==
  <<"cert-message", t.prev_root, t.next_root, t.anchor_counter,
    t.next_anchor_counter, d, x, p_hw, t.recipient_device_id, t.object_id,
    t.authority_policy_hash, anchor_id, q, receiver_challenge>>

(* StepKeyGen, StepSign and StepVerify: a key pair is deterministic in its *)
(* seed, and only the key's own signature of that message verifies.        *)
keygen_sk(k) == <<"sk", k>>
keygen_pk(k) == <<"pk", k>>
sign(sk, m) == <<"sig", sk[2], m>>
verify(pk, m, sigma) == sigma = <<"sig", pk[2], m>>

Certificate(t, d, x, p_hw, pk_hw, sigma, anchor_id, slot, receiver_challenge) ==
  [prev_root |-> t.prev_root, next_root |-> t.next_root,
   anchor_counter |-> t.anchor_counter,
   next_anchor_counter |-> t.next_anchor_counter,
   transition_digest |-> d, witness_input |-> x, pk_hash |-> p_hw,
   pk_hw |-> pk_hw, sigma |-> sigma, anchor_id |-> anchor_id, slot |-> slot,
   receiver_challenge |-> receiver_challenge]

(* The appliance's own, untrusted view of its counter; the transcript a    *)
(* receiver attaches is the read the receiver makes itself.                *)
CounterEvidence(anchor_id, enrolled_counter, live_claim, index_claim) ==
  [anchor_id |-> anchor_id, enrolled_counter |-> enrolled_counter,
   live_counter_claim |-> live_claim, derived_index_claim |-> index_claim]

OfflineRelease(transition, cert, counter) ==
  [transition |-> transition, cert |-> cert, counter |-> counter]

(* The index a release spends: the one that follows its parent's.          *)
IndexOfRelease(r) == r.transition.next_anchor_counter
=============================================================================
