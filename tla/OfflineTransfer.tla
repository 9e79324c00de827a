--------------------------- MODULE OfflineTransfer ---------------------------
(***************************************************************************)
(* One appliance, the untrusted transport and the receivers of its         *)
(* transfers.  A receiver opens a session with a fresh challenge, reads    *)
(* the appliance's counter over its own chip session, and decides on a     *)
(* package with accept_offline; the appliance, its crashes and its host go *)
(* on in between, so the value read may be old when it is used.            *)
(*                                                                         *)
(* The transport is the host and the network.  It loses, repeats, delays   *)
(* and mixes up what was emitted; it writes the counter evidence, which no *)
(* digest covers; and it makes witness keys of its own and signs with      *)
(* them.  It does not sign under the appliance's keys.  Every certificate  *)
(* this allows and accept_offline takes is among Certificates              *)
(* (TransferProofs, NothingElseIsAccepted).                                *)
(***************************************************************************)
EXTENDS Appliance, Accept

CONSTANTS
  Sessions,       \* receiver sessions, each named by the challenge it drew
  DeviceOf,       \* the receiver's device of each session
  Policy,         \* the authority policy hash of the parent states
  ExposureCap,    \* the policy's exposure cap index
  HostSeeds,      \* seeds of witness keys the transport makes itself
  HostSlots,      \* the slot numbers it writes into its certificates
  HostClaims      \* the counter evidence it writes

(* Challenges are fresh: no two sessions share one.                        *)
ASSUME SessionAssumption == Sessions \subseteq Challenges
ASSUME ExposureAssumption == ExposureCap \in Nat

VARIABLES
  parent,     \* the root each session accepts as parent, {} before it opens
  attested,   \* the counter each session read, {} before
  accepted    \* what each session accepted, {} before: the transition and
              \* the certificate, the evidence being the receiver's own read

sessionVars == <<parent, attested, accepted>>
allVars == <<vars, sessionVars>>

TransferInit ==
  /\ Init
  /\ parent = [s \in Sessions |-> {}]
  /\ attested = [s \in Sessions |-> {}]
  /\ accepted = [s \in Sessions |-> {}]

-----------------------------------------------------------------------------
Open(s, p) ==
  /\ parent[s] = {}
  /\ parent' = [parent EXCEPT ![s] = {p}]
  /\ UNCHANGED <<vars, attested, accepted>>

(* The receiver's own authenticated counter read.                          *)
ReadCounter(s) ==
  /\ parent[s] # {} /\ accepted[s] = {}
  /\ attested' = [attested EXCEPT ![s] = {h}]
  /\ UNCHANGED <<vars, parent, accepted>>

ContextOf(s, p) ==
  VerifierContext(DeviceOf[s], p, AnchorId, s, Policy, H0,
                  ExposureCap, TRUE)

(* A certificate with another successor root and another challenge.        *)
Altered(cert, next_root, challenge) ==
  [cert EXCEPT !.next_root = next_root, !.receiver_challenge = challenge]

EmittedCertificates ==
  {Altered(e.cert, n, c) : e \in exported, n \in Roots, c \in Challenges}

(* A certificate made by the rules of commit, under the key of the seed k. *)
HostCertificate(t, k, q, c) ==
  LET d == transition_digest(t)
      x == witness_input(t, d, AnchorId, q, c)
      pk_hw == keygen_pk(k)
      m == cert_message(t, d, x, pk_hash(pk_hw), AnchorId, q, c)
  IN  Certificate(t, d, x, pk_hash(pk_hw), pk_hw, sign(keygen_sk(k), m),
                  AnchorId, q, c)

Certificates ==
  EmittedCertificates \cup
  {HostCertificate(t, k, q, c) :
     t \in Transitions, k \in HostSeeds, q \in HostSlots, c \in Challenges}

Evidence == HostClaims \cup {e.counter : e \in exported}

(* The transport delivers any transition with any certificate and any      *)
(* evidence.  A refused package leaves the session as it was.              *)
Decide(s) ==
  /\ accepted[s] = {}
  /\ \E p \in parent[s] :
     \E t \in Transitions, cert \in Certificates, ev \in Evidence :
       /\ accept_offline(OfflineRelease(t, cert, ev), ContextOf(s, p),
                         attested[s]) = "Ok"
       /\ accepted' = [accepted EXCEPT ![s] =
                         {[transition |-> t, cert |-> cert]}]
  /\ UNCHANGED <<vars, parent, attested>>

TransferNext ==
  \/ Next /\ UNCHANGED sessionVars
  \/ \E s \in Sessions, p \in Roots : Open(s, p)
  \/ \E s \in Sessions : ReadCounter(s) \/ Decide(s)

TransferSpec == TransferInit /\ [][TransferNext]_allVars

-----------------------------------------------------------------------------
TransferTypeOK ==
  /\ TypeOK
  /\ \A s \in Sessions : /\ \A p \in parent[s] : p \in Roots
                         /\ \A v \in attested[s] : v \in 0..H0
                         /\ \A a \in accepted[s] : a.transition \in Transitions

(* A package signed under a key the transport made itself.                 *)
SelfSigned(a) == \E k \in HostSeeds : a.cert.pk_hw = keygen_pk(k)

(* What a session accepts under a key of the appliance is a release the    *)
(* appliance emitted, for this session's challenge: transition and         *)
(* certificate arrive unaltered and belong together.                       *)
ChipSignedWasEmitted ==
  \A s \in Sessions : \A a \in accepted[s] :
    ~SelfSigned(a) =>
      /\ \E e \in exported : a.transition = e.transition /\ a.cert = e.cert
      /\ a.cert.receiver_challenge = s

(* Under keys of the appliance, no two sessions ever accept advances of    *)
(* the same index, however rival transitions, replays and crashes are      *)
(* interleaved with their reads.                                           *)
ChipSignedOnce ==
  \A s, q \in Sessions : \A a \in accepted[s], b \in accepted[q] :
    IndexOfRelease(a) = IndexOfRelease(b) /\ ~SelfSigned(a) /\ ~SelfSigned(b)
    => s = q

(* What a receiver accepted under a key of the appliance is where the      *)
(* owner's chain goes: it is installed at its index or is the candidate    *)
(* that will be.                                                           *)
ChipSignedIsSuccessor ==
  LET Certified == IF IsCommitted /\ record.committed THEN {record.release}
                                                     ELSE {}
  IN  \A s \in Sessions : \A a \in accepted[s] :
        ~SelfSigned(a) =>
          \E r \in installed \cup Certified :
            a.transition = r.transition /\ a.cert = r.cert

(* Whoever signed what a receiver accepts, and whatever evidence came with *)
(* it: the owner's appliance has spent that index on a release of its own, *)
(* installed or about to be, as long as nobody else moved the counter.     *)
(* Nobody accepts ahead of the appliance.                                  *)
AcceptedIsSpent ==
  LET Stored == IF IsCommitted THEN {record.release} ELSE {}
  IN  wasted = 0 =>
        \A s \in Sessions : \A a \in accepted[s] :
          \E r \in installed \cup Stored : IndexOfRelease(r) = IndexOfRelease(a)

(* What commit assembles is what accept_offline recomputes: an emitted     *)
(* release delivered intact to the session it is for is accepted as long   *)
(* as the counter has not moved on.                                        *)
EmittedIsAcceptable ==
  \A e \in exported, s \in Sessions : \A p \in parent[s] :
    LET t == e.transition
    IN  /\ e.cert.receiver_challenge = s
        /\ t.prev_root = p /\ t.recipient_device_id = DeviceOf[s]
        /\ verify_transition(t) /\ root_commits_counter(p, t.anchor_counter)
        /\ t.authority_policy_hash = Policy
        /\ IndexOfRelease(e) <= ExposureCap
        /\ IndexOfRelease(e) = LiveIndex
        => accept_offline(e, ContextOf(s, p), {h}) = "Ok"

-----------------------------------------------------------------------------
(* What the documents say and the code does not do.                        *)

(* README.md:63-65: after one counter commit there is no second transfer   *)
(* from the same parent that a receiver accepts.                           *)
NoSecondTransfer ==
  \A s, q \in Sessions : \A a \in accepted[s], b \in accepted[q] :
    a.transition.prev_root = b.transition.prev_root
    => a.transition = b.transition
=============================================================================
