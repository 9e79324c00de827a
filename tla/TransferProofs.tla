--------------------------- MODULE TransferProofs ---------------------------
(***************************************************************************)
(* What receivers accept, for any number of sessions, any keys, slots and  *)
(* claims of the transport and any interleaving with the owner's           *)
(* operations and crashes.  Under a key of the appliance: the release that *)
(* was emitted for the session, one session per index, and the step the    *)
(* owner's chain takes.  Under any key: an index the appliance has spent.  *)
(***************************************************************************)
EXTENDS OfflineTransfer, ApplianceProofs

-----------------------------------------------------------------------------
(* The predicate.                                                          *)

(* What an accepted package has passed.                                    *)
LEMMA AcceptChecks ==
  ASSUME NEW rel, NEW ctx, NEW attest, accept_offline(rel, ctx, attest) = "Ok"
  PROVE  LET t == rel.transition
             cert == rel.cert
         IN  /\ SameAdvance(cert, t) /\ AnswersChallenge(cert, ctx)
             /\ cert.anchor_id = ctx.pinned_anchor_id
             /\ t.anchor_counter + 1 = t.next_anchor_counter
             /\ transition_digest(t) = cert.transition_digest
             /\ witness_input(t, transition_digest(t), cert.anchor_id,
                              cert.slot, cert.receiver_challenge)
                  = cert.witness_input
             /\ pk_hash(cert.pk_hw) = cert.pk_hash
             /\ verify(cert.pk_hw,
                       cert_message(t, cert.transition_digest,
                                    cert.witness_input, cert.pk_hash,
                                    cert.anchor_id, cert.slot,
                                    cert.receiver_challenge),
                       cert.sigma)
             /\ CounterProves(attest, rel.counter, t, ctx)
  BY DEF accept_offline

(* The parts of a package.                                                 *)
LEMMA PackageParts ==
  \A t, cert, ev : /\ OfflineRelease(t, cert, ev).transition = t
                   /\ OfflineRelease(t, cert, ev).cert = cert
                   /\ OfflineRelease(t, cert, ev).counter = ev
  BY DEF OfflineRelease

(* Hashing is injective in the fields the code feeds it.                   *)
LEMMA Injective ==
  ASSUME NEW t, NEW q, NEW d, NEW a, NEW s, NEW c, NEW c2
  PROVE  /\ transition_digest(t) = transition_digest(q) => t = q
         /\ witness_input(t, d, a, s, c) = witness_input(t, d, a, s, c2)
              => c = c2
  BY DEF transition_digest, witness_input

(* The fields of a certificate.                                            *)
CertificateFields == {"prev_root", "next_root", "anchor_counter",
                      "next_anchor_counter", "transition_digest",
                      "witness_input", "pk_hash", "pk_hw", "sigma",
                      "anchor_id", "slot", "receiver_challenge"}
IsCertificate(cert) ==
  DOMAIN cert = CertificateFields /\ cert = [f \in CertificateFields |-> cert[f]]

(* What is known of the certificate of an emitted release.                 *)
LEMMA EmittedCertificate ==
  ASSUME NEW e, Verifiable(e)
  PROVE  LET q == e.transition
         IN  /\ IsCertificate(e.cert)
             /\ e.cert.prev_root = q.prev_root /\ e.cert.next_root = q.next_root
             /\ e.cert.anchor_counter = q.anchor_counter
             /\ e.cert.next_anchor_counter = q.next_anchor_counter
             /\ e.cert.transition_digest = transition_digest(q)
             /\ e.cert.witness_input =
                  witness_input(q, transition_digest(q), AnchorId, Slot,
                                e.cert.receiver_challenge)
             /\ e.cert.pk_hash = pk_hash(e.cert.pk_hw)
             /\ e.cert.anchor_id = AnchorId /\ e.cert.slot = Slot
             /\ verify(e.cert.pk_hw, MessageOf(e), e.cert.sigma)
  BY DEF Verifiable, Recomputed, Certificate, IsCertificate, CertificateFields

(* An emitted certificate that is accepted is unaltered and comes with its *)
(* own transition: the digest pins the transition, the header the          *)
(* successor root, and the witness input the challenge.                    *)
LEMMA AcceptedIsUnaltered ==
  ASSUME NEW t, NEW e, Verifiable(e), NEW n, NEW c, NEW ev, NEW ctx, NEW attest,
         NEW cert,
         cert = Altered(e.cert, n, c),
         accept_offline(OfflineRelease(t, cert, ev), ctx, attest) = "Ok"
  PROVE  /\ t = e.transition /\ cert = e.cert
         /\ cert.receiver_challenge = ctx.expected_receiver_challenge
  <1> DEFINE q == e.transition
             x == witness_input(q, transition_digest(q), AnchorId, Slot,
                                e.cert.receiver_challenge)
  <1>1. /\ IsCertificate(e.cert) /\ e.cert.next_root = q.next_root
        /\ e.cert.transition_digest = transition_digest(q)
        /\ e.cert.witness_input = x
        /\ e.cert.anchor_id = AnchorId /\ e.cert.slot = Slot
    BY EmittedCertificate
  <1>2. /\ cert.transition_digest = transition_digest(q)
        /\ cert.witness_input = x
        /\ cert.next_root = n /\ cert.receiver_challenge = c
        /\ cert.anchor_id = AnchorId /\ cert.slot = Slot
    BY <1>1 DEF Altered, IsCertificate, CertificateFields
  <1>3. /\ SameAdvance(cert, t) /\ AnswersChallenge(cert, ctx)
        /\ transition_digest(t) = cert.transition_digest
        /\ witness_input(t, transition_digest(t), cert.anchor_id, cert.slot,
                         cert.receiver_challenge) = cert.witness_input
    <2> DEFINE rel == OfflineRelease(t, cert, ev)
    <2>1. accept_offline(rel, ctx, attest) = "Ok"
      OBVIOUS
    <2>2. rel.transition = t /\ rel.cert = cert
      BY PackageParts
    <2> HIDE DEF rel
    <2> QED BY <2>1, <2>2, AcceptChecks
  <1> HIDE DEF x
  <1>4. t = q
    BY <1>2, <1>3, Injective
  <1>5. n = e.cert.next_root
    BY <1>1, <1>2, <1>3, <1>4 DEF SameAdvance
  <1>6. c = e.cert.receiver_challenge
    <2>1. witness_input(q, transition_digest(q), AnchorId, Slot, c) = x
      BY <1>2, <1>3, <1>4
    <2> QED BY <2>1, Injective DEF x
  <1>7. cert = e.cert
    BY <1>1, <1>5, <1>6 DEF Altered, IsCertificate, CertificateFields
  <1> QED BY <1>2, <1>3, <1>4, <1>7 DEF AnswersChallenge

(* The converse: a release that verifies, for the session it is offered    *)
(* to, passes every check while the counter stands at its index.           *)
LEMMA VerifiableIsAccepted ==
  ASSUME TypeOK, NEW e, Verifiable(e), NEW s, NEW p,
         e.cert.receiver_challenge = s, e.transition.prev_root = p,
         e.transition.recipient_device_id = DeviceOf[s],
         verify_transition(e.transition),
         root_commits_counter(p, e.transition.anchor_counter),
         e.transition.authority_policy_hash = Policy,
         IndexOfRelease(e) <= ExposureCap, IndexOfRelease(e) = LiveIndex
  PROVE  accept_offline(e, ContextOf(s, p), {h}) = "Ok"
  <1> DEFINE t == e.transition
             d == transition_digest(t)
             ctx == ContextOf(s, p)
  <1>1. /\ ctx.device_id = DeviceOf[s] /\ ctx.accepted_prev_root = p
        /\ ctx.pinned_anchor_id = AnchorId
        /\ ctx.expected_receiver_challenge = s
        /\ ctx.expected_policy_hash = Policy /\ ctx.enrolled_counter = H0
        /\ ctx.exposure_cap_index = ExposureCap /\ ctx.anchor_uncompromised
    BY DEF ContextOf, VerifierContext
  <1>2. e.cert = Recomputed(e)
    BY DEF Verifiable
  <1>3. /\ e.cert.prev_root = t.prev_root /\ e.cert.next_root = t.next_root
        /\ e.cert.anchor_counter = t.anchor_counter
        /\ e.cert.next_anchor_counter = t.next_anchor_counter
        /\ e.cert.anchor_id = AnchorId /\ e.cert.slot = Slot
        /\ e.cert.transition_digest = d
        /\ e.cert.witness_input = witness_input(t, d, AnchorId, Slot,
                                                e.cert.receiver_challenge)
        /\ e.cert.pk_hash = pk_hash(e.cert.pk_hw)
    BY <1>2 DEF Recomputed, Certificate
  <1>4. verify(e.cert.pk_hw,
               cert_message(t, d, e.cert.witness_input, e.cert.pk_hash,
                            e.cert.anchor_id, e.cert.slot,
                            e.cert.receiver_challenge),
               e.cert.sigma)
    BY <1>3 DEF Verifiable, MessageOf
  <1>5. t.next_anchor_counter <= H0 /\ {h} = {H0 - t.next_anchor_counter}
    BY H0Assumption DEF TypeOK, ChipTypeOK, LiveIndex, IndexOfRelease
  <1>6. CounterProves({h}, e.counter, t, ctx)
    BY <1>1, <1>5 DEF CounterProves, Verifiable
  <1>7. SameAdvance(e.cert, t) /\ AnswersChallenge(e.cert, ctx)
    BY <1>1, <1>3 DEF SameAdvance, AnswersChallenge
  <1>8. t.anchor_counter + 1 = t.next_anchor_counter
    BY DEF Verifiable
  <1>9. ~(t.next_anchor_counter > ExposureCap)
    BY H0Assumption, ExposureAssumption
    DEF IndexOfRelease, LiveIndex, TypeOK, ChipTypeOK
  <1> HIDE DEF ctx, d
  <1>10. accept_offline(e, ctx, {h}) = "Ok"
    BY <1>1, <1>3, <1>4, <1>6, <1>7, <1>8, <1>9
    DEF accept_offline, delivers_to_receiver, d
  <1> QED BY <1>10 DEF ctx

-----------------------------------------------------------------------------
(* The steps.                                                              *)

(* Receivers and transport only watch the appliance.                       *)
LEMMA TransferStep == [TransferNext]_allVars => [Next]_vars
  BY DEF TransferNext, Open, ReadCounter, Decide, allVars

(* So the appliance of a transfer is that of Appliance, and its invariants  *)
(* hold whatever the transport does and whoever reads the counter.         *)
THEOREM TransferImplementsAppliance == TransferSpec => Spec
  <1>1. TransferInit => Init
    BY DEF TransferInit
  <1> QED BY <1>1, TransferStep, PTL DEF TransferSpec, Spec

(* What a session accepts in a step has passed the predicate.              *)
LEMMA NewlyAccepted ==
  ASSUME [TransferNext]_allVars, DOMAIN accepted = Sessions,
         NEW s \in Sessions, NEW a \in accepted'[s], a \notin accepted[s]
  PROVE  \E p \in parent[s] : \E cert \in Certificates, ev \in Evidence :
           /\ a.transition \in Transitions /\ a.cert = cert
           /\ accept_offline(OfflineRelease(a.transition, cert, ev),
                             ContextOf(s, p), attested[s]) = "Ok"
  <1>1. PICK q \in Sessions : Decide(q)
    BY DEF TransferNext, Open, ReadCounter, allVars, sessionVars
  <1>2. Decide(s)
    <2>1. q = s
      BY <1>1 DEF Decide
    <2> QED BY <1>1, <2>1
  <1>3. PICK p \in parent[s] :
        \E t \in Transitions, cert \in Certificates, ev \in Evidence :
          /\ accept_offline(OfflineRelease(t, cert, ev), ContextOf(s, p),
                            attested[s]) = "Ok"
          /\ accepted' = [accepted EXCEPT ![s] =
                            {[transition |-> t, cert |-> cert]}]
    BY <1>2 DEF Decide
  <1>4. PICK t \in Transitions, cert \in Certificates, ev \in Evidence :
          /\ accept_offline(OfflineRelease(t, cert, ev), ContextOf(s, p),
                            attested[s]) = "Ok"
          /\ accepted' = [accepted EXCEPT ![s] =
                            {[transition |-> t, cert |-> cert]}]
    BY <1>3
  <1>5. a.transition = t /\ a.cert = cert
    BY <1>4
  <1> QED BY <1>4, <1>5

(* No step takes back what a session accepted, read or opened with, but    *)
(* that a session reads again before it accepts.                           *)
LEMMA SessionDomains ==
  ASSUME [TransferNext]_allVars,
         DOMAIN attested = Sessions, DOMAIN accepted = Sessions
  PROVE  (DOMAIN attested)' = Sessions /\ (DOMAIN accepted)' = Sessions
  BY DEF TransferNext, Open, ReadCounter, Decide, allVars, sessionVars

(* A certificate of the transport's own making is under a key of its own.  *)
LEMMA HostKey ==
  ASSUME NEW t, NEW k \in HostSeeds, NEW q, NEW c, NEW a,
         a.cert = HostCertificate(t, k, q, c)
  PROVE  SelfSigned(a)
  <1>1. HostCertificate(t, k, q, c).pk_hw = keygen_pk(k)
    BY DEF HostCertificate, Certificate
  <1> QED BY <1>1 DEF SelfSigned

LEMMA ChipSignedStep ==
  ASSUME ReleasesVerify, ChipSignedWasEmitted, DOMAIN accepted = Sessions,
         [TransferNext]_allVars
  PROVE  ChipSignedWasEmitted'
  <1> SUFFICES ASSUME NEW s \in Sessions, NEW a \in accepted'[s], ~SelfSigned(a)
               PROVE  /\ \E e \in exported' :
                           a.transition = e.transition /\ a.cert = e.cert
                      /\ a.cert.receiver_challenge = s
    BY DEF ChipSignedWasEmitted, SelfSigned
  <1>1. exported \subseteq exported'
    BY TransferStep, ExportedGrows
  <1>2. CASE a \in accepted[s]
    BY <1>1, <1>2 DEF ChipSignedWasEmitted
  <1>3. CASE a \notin accepted[s]
    <2>1. PICK p \in parent[s], cert \in Certificates, ev \in Evidence :
            /\ a.cert = cert
            /\ accept_offline(OfflineRelease(a.transition, cert, ev),
                              ContextOf(s, p), attested[s]) = "Ok"
      BY <1>3, NewlyAccepted
    <2>2. cert \in EmittedCertificates
      BY <2>1, HostKey DEF Certificates
    <2>3. PICK e \in exported, n \in Roots, c \in Challenges :
            cert = Altered(e.cert, n, c)
      BY <2>2 DEF EmittedCertificates
    <2>4. Verifiable(e)
      BY DEF ReleasesVerify
    <2>5. /\ a.transition = e.transition /\ cert = e.cert
          /\ cert.receiver_challenge =
               ContextOf(s, p).expected_receiver_challenge
      BY <2>1, <2>3, <2>4, AcceptedIsUnaltered
    <2> QED BY <1>1, <2>1, <2>5 DEF ContextOf, VerifierContext
  <1> QED BY <1>2, <1>3

(* The counter only comes down.                                            *)
LEMMA CounterFalls ==
  ASSUME TypeOK, TypeOK', [Next]_vars
  PROVE  h \in 0..H0 /\ h' \in 0..H0 /\ h' <= h
  <1>1. h \in 0..H0 /\ h' \in 0..H0
    BY DEF TypeOK, ChipTypeOK
  <1>2. h' = h \/ CounterUpdate
    BY DEF Next, PrepareStep, PrepareBegin, PrepareStore, PrepareRefused,
      PrepareReadFails, PrepareWitnessFails, CommitStep, CommitSign,
      CommitStatus, CommitStore, CommitCount, CommitCountFails, CommitFlag,
      CommitIndex, CommitRefused, CommitReadFails, Emit, EmitRefused,
      FinalizeStep, Finalize, FinalizeRefused, FinalizeReadFails, CancelStep,
      CancelErase, CancelStatus, CancelStore, CancelRefused, RecoverStep,
      RecoverFaulty, RecoverReemit, RecoverCountPending, RecoverCount,
      RecoverCountFails, RecoverFlag, RecoverIndex, RecoverStale,
      RecoverPrepared, RecoverReady, RecoverRead, RecoverAhead, Recovered,
      EnvironmentStep, PowerLoss, CounterWaste, OnlineAdvance, Refuse,
      ChipReadFails, CounterUpdateFails, chipVars, vars
  <1> QED BY <1>1, <1>2, H0Assumption DEF CounterUpdate

(* As the counter comes down, the index goes up.                           *)
LEMMA IndexRises ==
  ASSUME NEW a \in 0..H0, NEW b \in 0..H0, b <= a
  PROVE  H0 - a <= H0 - b /\ H0 - b \in Nat /\ H0 - a \in Nat
  BY H0Assumption

(* What a session read, the counter has reached; what it accepted, the     *)
(* counter has passed.                                                     *)
ReadInv ==
  \A s \in Sessions :
    /\ \A v \in attested[s] : v \in 0..H0 /\ h <= v
    /\ \A a \in accepted[s] : /\ IndexOfRelease(a) \in Nat
                              /\ 1 <= IndexOfRelease(a)
                              /\ IndexOfRelease(a) <= LiveIndex

LEMMA ReadStep ==
  ASSUME IInv, IInv', ReadInv, [TransferNext]_allVars,
         DOMAIN attested = Sessions, DOMAIN accepted = Sessions
  PROVE  ReadInv'
  <1>1. h \in 0..H0 /\ h' \in 0..H0 /\ h' <= h
    BY TransferStep, CounterFalls DEF IInv
  <1>2. LiveIndex <= LiveIndex' /\ LiveIndex' \in Nat /\ LiveIndex \in Nat
    <2>1. LiveIndex = H0 - h /\ LiveIndex' = H0 - h'
      BY DEF LiveIndex
    <2>2. H0 - h <= H0 - h' /\ H0 - h' \in Nat /\ H0 - h \in Nat
      BY <1>1, IndexRises
    <2> QED BY <2>1, <2>2
  <1>3. ASSUME NEW s \in Sessions, NEW v \in attested'[s]
        PROVE  v \in 0..H0 /\ h' <= v
    <2>1. v \in attested[s] \/ v = h
      BY <1>3 DEF TransferNext, Open, ReadCounter, Decide, allVars, sessionVars
    <2> QED BY <1>1, <2>1, H0Assumption DEF ReadInv
  <1>4. ASSUME NEW s \in Sessions, NEW a \in accepted'[s]
        PROVE  /\ IndexOfRelease(a) \in Nat /\ 1 <= IndexOfRelease(a)
               /\ IndexOfRelease(a) <= LiveIndex'
    <2>1. CASE a \in accepted[s]
      BY <1>2, <2>1 DEF ReadInv
    <2>2. CASE a \notin accepted[s]
      <3>1. PICK p \in parent[s], cert \in Certificates, ev \in Evidence :
              /\ a.transition \in Transitions
              /\ accept_offline(OfflineRelease(a.transition, cert, ev),
                                ContextOf(s, p), attested[s]) = "Ok"
        BY <1>4, <2>2, NewlyAccepted
      <3>2. /\ a.transition.anchor_counter + 1 = a.transition.next_anchor_counter
            /\ CounterProves(attested[s], ev, a.transition, ContextOf(s, p))
        BY <3>1, AcceptChecks, PackageParts
      <3>3. /\ IndexOfRelease(a) <= H0
            /\ attested[s] = {H0 - IndexOfRelease(a)}
        BY <3>2 DEF CounterProves, ContextOf, VerifierContext, IndexOfRelease
      <3>4. IndexOfRelease(a) \in Nat /\ 1 <= IndexOfRelease(a)
        BY <3>1, <3>2, TransitionAssumption DEF IndexOfRelease
      <3>5. h <= H0 - IndexOfRelease(a)
        BY <3>3 DEF ReadInv
      <3>6. IndexOfRelease(a) <= LiveIndex
        BY <1>1, <3>3, <3>4, <3>5, H0Assumption DEF LiveIndex
      <3> QED BY <1>2, <3>4, <3>6
    <2> QED BY <2>1, <2>2
  <1> QED BY <1>3, <1>4 DEF ReadInv, IndexOfRelease

-----------------------------------------------------------------------------
(* The theorems.                                                           *)

(* The transport of OfflineTransfer is as strong as one that writes any    *)
(* certificate at all but signs only under its own keys: a certificate     *)
(* accept_offline takes, whose signature is that of an emitted release or  *)
(* whose key is the transport's, is one Decide offers.                     *)
THEOREM NothingElseIsAccepted ==
  ASSUME TypeOK, ReleasesVerify,
         NEW t \in Transitions, NEW cert, IsCertificate(cert), NEW ev,
         NEW s \in Sessions, NEW p, NEW attest,
         accept_offline(OfflineRelease(t, cert, ev), ContextOf(s, p), attest)
           = "Ok",
         \/ \E e \in exported : cert.sigma = e.cert.sigma
         \/ cert.slot \in HostSlots /\ \E k \in HostSeeds :
                                          cert.pk_hw = keygen_pk(k)
  PROVE  cert \in Certificates
  <1>1. /\ SameAdvance(cert, t)
        /\ cert.receiver_challenge = s /\ cert.anchor_id = AnchorId
        /\ cert.transition_digest = transition_digest(t)
        /\ cert.witness_input = witness_input(t, transition_digest(t), AnchorId,
                                              cert.slot, s)
        /\ cert.pk_hash = pk_hash(cert.pk_hw)
        /\ verify(cert.pk_hw,
                  cert_message(t, transition_digest(t), cert.witness_input,
                               cert.pk_hash, AnchorId, cert.slot, s),
                  cert.sigma)
    BY AcceptChecks, PackageParts DEF ContextOf, VerifierContext,
      AnswersChallenge
  <1>2. s \in Challenges
    BY SessionAssumption
  <1>3. ASSUME NEW e \in exported, cert.sigma = e.cert.sigma
        PROVE  cert \in EmittedCertificates
    <2> DEFINE q == e.transition
               m == cert_message(t, transition_digest(t), cert.witness_input,
                                 cert.pk_hash, AnchorId, cert.slot, s)
    <2>1. /\ IsCertificate(e.cert)
          /\ e.cert.prev_root = q.prev_root /\ e.cert.next_root = q.next_root
          /\ e.cert.anchor_counter = q.anchor_counter
          /\ e.cert.next_anchor_counter = q.next_anchor_counter
          /\ e.cert.transition_digest = transition_digest(q)
          /\ e.cert.pk_hash = pk_hash(e.cert.pk_hw)
          /\ e.cert.anchor_id = AnchorId
          /\ verify(e.cert.pk_hw, MessageOf(e), e.cert.sigma)
      BY EmittedCertificate DEF ReleasesVerify
    <2>2. m = MessageOf(e)
      BY <1>1, <1>3, <2>1 DEF verify
    <2>3. /\ transition_digest(t) = transition_digest(q)
          /\ cert.witness_input = e.cert.witness_input
          /\ cert.pk_hash = e.cert.pk_hash /\ cert.slot = Slot
          /\ s = e.cert.receiver_challenge
      BY <2>1, <2>2 DEF MessageOf, cert_message
    <2>4. t = q
      BY <2>3, Injective
    <2>5. cert.pk_hw = e.cert.pk_hw
      BY <1>1, <2>1, <2>3 DEF pk_hash
    <2>6. e.cert.slot = Slot
      BY EmittedCertificate DEF ReleasesVerify
    <2>7. cert = e.cert
      BY <1>1, <1>3, <2>1, <2>3, <2>4, <2>5, <2>6
      DEF IsCertificate, CertificateFields, SameAdvance
    <2>8. cert = Altered(e.cert, q.next_root, s)
      BY <2>1, <2>3, <2>7 DEF Altered, IsCertificate, CertificateFields
    <2>9. q.next_root \in Roots
      BY <2>4, TransitionAssumption
    <2> QED BY <1>2, <2>8, <2>9 DEF EmittedCertificates
  <1>4. ASSUME NEW k \in HostSeeds, cert.pk_hw = keygen_pk(k),
               cert.slot \in HostSlots
        PROVE  cert = HostCertificate(t, k, cert.slot, s)
    <2> DEFINE pk == keygen_pk(k)
               x == witness_input(t, transition_digest(t), AnchorId, cert.slot, s)
               m == cert_message(t, transition_digest(t), x, pk_hash(pk),
                                 AnchorId, cert.slot, s)
    <2>1. cert.sigma = sign(keygen_sk(k), m)
      BY <1>1, <1>4 DEF verify, sign, keygen_pk, keygen_sk
    <2> HIDE DEF x, m
    <2>2. cert = Certificate(t, transition_digest(t), x, pk_hash(pk), pk,
                             sign(keygen_sk(k), m), AnchorId, cert.slot, s)
      BY <1>1, <1>4, <2>1
      DEF IsCertificate, CertificateFields, Certificate, SameAdvance, x
    <2> QED BY <2>2 DEF HostCertificate, x, m
  <1> QED BY <1>2, <1>3, <1>4 DEF Certificates

(* What a session accepts under a key of the appliance is, unaltered, a    *)
(* release the appliance emitted for its challenge.                        *)
THEOREM OnlyEmittedIsAccepted == TransferSpec => []ChipSignedWasEmitted
  <1> DEFINE Inv == ChipSignedWasEmitted /\ DOMAIN attested = Sessions
                                         /\ DOMAIN accepted = Sessions
  <1>1. TransferInit => Inv
    BY DEF TransferInit, ChipSignedWasEmitted
  <1>2. Inv /\ ReleasesVerify /\ [TransferNext]_allVars => Inv'
    BY ChipSignedStep, SessionDomains
  <1>3. TransferSpec => []ReleasesVerify
    BY TransferImplementsAppliance, EveryReleaseVerifies, PTL
  <1>4. Inv => ChipSignedWasEmitted
    OBVIOUS
  <1> HIDE DEF Inv
  <1> QED BY <1>1, <1>2, <1>3, <1>4, PTL DEF TransferSpec

(* Under keys of the appliance no two sessions accept advances of one      *)
(* index: both were emitted, so they are the same release, and it answers  *)
(* one challenge.                                                          *)
THEOREM NoIndexAcceptedTwice == TransferSpec => []ChipSignedOnce
  <1>1. ASSUME ChipSignedWasEmitted, OneReleasePerIndex,
               NEW s \in Sessions, NEW q \in Sessions,
               NEW a \in accepted[s], NEW b \in accepted[q],
               IndexOfRelease(a) = IndexOfRelease(b),
               ~SelfSigned(a), ~SelfSigned(b)
        PROVE  s = q
    <2>1. PICK e \in exported : a.transition = e.transition /\ a.cert = e.cert
      BY <1>1 DEF ChipSignedWasEmitted
    <2>2. PICK f \in exported : b.transition = f.transition /\ b.cert = f.cert
      BY <1>1 DEF ChipSignedWasEmitted
    <2>3. e = f
      BY <1>1, <2>1, <2>2 DEF OneReleasePerIndex, IndexOfRelease
    <2> QED BY <1>1, <2>1, <2>2, <2>3 DEF ChipSignedWasEmitted
  <1>2. ChipSignedWasEmitted /\ OneReleasePerIndex => ChipSignedOnce
    BY <1>1 DEF ChipSignedOnce
  <1> QED BY <1>2, OnlyEmittedIsAccepted, TransferImplementsAppliance,
             NoIndexSpentTwice, PTL

(* What a receiver accepted under a key of the appliance is installed by   *)
(* the owner or is the candidate that will be.                             *)
THEOREM AcceptedIsWhereTheChainGoes == TransferSpec => []ChipSignedIsSuccessor
  <1>1. ASSUME ChipSignedWasEmitted, IInv, NEW s \in Sessions,
               NEW a \in accepted[s], ~SelfSigned(a)
        PROVE  \E r \in installed \cup (IF IsCommitted /\ record.committed
                                        THEN {record.release} ELSE {}) :
                 a.transition = r.transition /\ a.cert = r.cert
    <2>1. PICK e \in exported : a.transition = e.transition /\ a.cert = e.cert
      BY <1>1 DEF ChipSignedWasEmitted
    <2> QED BY <1>1, <2>1 DEF IInv, ExportedInv
  <1>2. ChipSignedWasEmitted /\ IInv => ChipSignedIsSuccessor
    BY <1>1 DEF ChipSignedIsSuccessor
  <1> QED BY <1>2, OnlyEmittedIsAccepted, TransferImplementsAppliance,
             Inductive, PTL

(* Whoever signed it: nobody accepts an advance of an index the appliance  *)
(* has not spent, as long as nobody else moved the counter.  The counter a *)
(* session read had come down to the index, and the appliance moves it     *)
(* once per release and installs without gaps.                             *)
THEOREM NothingAcceptedUnspent == TransferSpec => []AcceptedIsSpent
  <1> DEFINE Inv == ReadInv /\ DOMAIN attested = Sessions
                            /\ DOMAIN accepted = Sessions
  <1>1. TransferInit => Inv
    BY DEF TransferInit, ReadInv
  <1>2. IInv /\ IInv' /\ Inv /\ [TransferNext]_allVars => Inv'
    BY ReadStep, SessionDomains
  <1>3. TransferSpec => []IInv /\ []Gapless
    BY TransferImplementsAppliance, Inductive, InstalledWithoutGaps, PTL
  <1>4. ASSUME ReadInv, IInv, Gapless PROVE AcceptedIsSpent
    <2> SUFFICES ASSUME wasted = 0, NEW s \in Sessions, NEW a \in accepted[s]
                 PROVE  \E r \in installed \cup (IF IsCommitted
                                       THEN {record.release} ELSE {}) :
                          IndexOfRelease(r) = IndexOfRelease(a)
      BY DEF AcceptedIsSpent
    <2>1. /\ IndexOfRelease(a) \in Nat /\ 1 <= IndexOfRelease(a)
          /\ IndexOfRelease(a) <= LiveIndex
      BY <1>4 DEF ReadInv
    <2> QED BY <1>4, <2>1, PassedIsSpent DEF RecordIndex
  <1>5. Inv => ReadInv
    OBVIOUS
  <1> HIDE DEF Inv
  <1> QED BY <1>1, <1>2, <1>3, <1>4, <1>5, PTL DEF TransferSpec

(* An emitted release that reaches its receiver intact and in time is      *)
(* accepted.                                                               *)
THEOREM IntactReleaseIsAccepted == TransferSpec => []EmittedIsAcceptable
  <1>1. TypeOK /\ ReleasesVerify => EmittedIsAcceptable
    BY VerifiableIsAccepted DEF ReleasesVerify, EmittedIsAcceptable
  <1> QED BY <1>1, TransferImplementsAppliance, TypeCorrect,
             EveryReleaseVerifies, PTL

(* What sessions hold has its type: parents are roots, counter reads are   *)
(* values of the counter, accepted packages are about submitted            *)
(* transitions.                                                            *)
THEOREM TransferTypeCorrect == TransferSpec => []TransferTypeOK
  <1> DEFINE Domains == /\ DOMAIN parent = Sessions
                        /\ DOMAIN attested = Sessions
                        /\ DOMAIN accepted = Sessions
             Inv == Domains /\ TransferTypeOK
  <1>1. TransferInit /\ IInv => Inv
    BY DEF TransferInit, TransferTypeOK, IInv
  <1>2. ASSUME Inv, IInv, IInv', [TransferNext]_allVars PROVE Inv'
    <2>1. TypeOK' /\ h \in 0..H0
      BY <1>2 DEF IInv, TypeOK, ChipTypeOK
    <2>2. ASSUME NEW s \in Sessions, NEW p \in Roots, Open(s, p) PROVE Inv'
      BY <1>2, <2>1, <2>2 DEF Open, TransferTypeOK
    <2>3. ASSUME NEW s \in Sessions, ReadCounter(s) PROVE Inv'
      BY <1>2, <2>1, <2>3 DEF ReadCounter, TransferTypeOK
    <2>4. ASSUME NEW s \in Sessions, Decide(s) PROVE Inv'
      <3>1. PICK t \in Transitions, cert \in Certificates :
              accepted' = [accepted EXCEPT ![s] =
                             {[transition |-> t, cert |-> cert]}]
        BY <2>4 DEF Decide
      <3> QED BY <1>2, <2>1, <2>4, <3>1 DEF Decide, TransferTypeOK
    <2>5. CASE UNCHANGED sessionVars
      BY <1>2, <2>1, <2>5 DEF sessionVars, TransferTypeOK
    <2> QED BY <1>2, <2>2, <2>3, <2>4, <2>5 DEF TransferNext, allVars
  <1>3. TransferSpec => []IInv
    BY TransferImplementsAppliance, Inductive, PTL
  <1>4. Inv => TransferTypeOK
    OBVIOUS
  <1> HIDE DEF Inv
  <1> QED BY <1>1, <1>2, <1>3, <1>4, PTL DEF TransferSpec
=============================================================================
