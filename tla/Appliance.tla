------------------------------ MODULE Appliance ------------------------------
(***************************************************************************)
(* The offline-bearer appliance of appliance.rs: one active state (root,   *)
(* index, status, record) advanced by prepare, commit, emit, finalize and  *)
(* cancel over the chip of module Tropic, and recovered after power loss.  *)
(*                                                                         *)
(* The active state is durable, as appliance.rs and recover take it to be. *)
(* Every assignment to it is a step of its own, because power can fail     *)
(* between any two of them; what an operation computes in between is       *)
(* volatile.  The chip keeps its counter and can be moved by someone else. *)
(*                                                                         *)
(* An operation refused at one of its checks changes nothing but the       *)
(* answer.  Requests are served one at a time (serve_forever).             *)
(***************************************************************************)
EXTENDS RootAdvance, Tropic

CONSTANTS
  Transitions,    \* the transitions hosts submit, well-formed or not
  Challenges,     \* receiver challenges
  Roots,          \* the DSM roots those transitions are about
  Genesis,        \* the root the appliance is created with
  AnchorId,       \* anchor_id
  Slot,           \* the MACANDD slot
  OnlineRoots,    \* roots an online advance can install; {} excludes it
  MaxWaste        \* bound on counter moves by others than this appliance

ASSUME TransitionAssumption ==
  \A t \in Transitions : /\ t.prev_root \in Roots
                         /\ t.next_root \in Roots
                         /\ t.anchor_counter \in Nat
                         /\ t.next_anchor_counter \in Nat
ASSUME RootAssumption == Genesis \in Roots /\ OnlineRoots \subseteq Roots
ASSUME MaxWasteAssumption == MaxWaste \in Nat

VARIABLES
  root, u, status, record,  \* the durable Active
  pc,                       \* where the processor is; "boot" after power loss
  staged,                   \* volatile: the record about to be stored
  reply,                    \* volatile: the last answer, "none" while running
  exported,                 \* every release emit has handed out
  installed,                \* every release finalize has installed
  wasted                    \* counter moves made by others

durable == <<root, u, status, record>>
volatile == <<pc, staged, reply>>
history == <<exported, installed, wasted>>
vars == <<chipVars, durable, volatile, history>>

-----------------------------------------------------------------------------
(* The records.                                                            *)

Empty == [kind |-> "Empty"]

(* A zeroized key is an empty vector.                                      *)
NoKey == <<>>

(* The digest, X, M and public key of a PreparedRecord are functions of    *)
(* these three.                                                            *)
Prepared(txn, receiver_challenge, sk_hw) ==
  [kind |-> "Prepared", txn |-> txn,
   receiver_challenge |-> receiver_challenge, sk_hw |-> sk_hw]

(* The parent, successor and indices a CommittedRecord repeats are those   *)
(* of the transition in its release.                                       *)
Committed(release, committed) ==
  [kind |-> "Committed", release |-> release, committed |-> committed]

IsPrepared == record.kind = "Prepared"
IsCommitted == record.kind = "Committed"
RecordIndex == IndexOfRelease(record.release)

(* prepare: the one MACANDD call and the key derived from its output.      *)
WitnessKey(t, receiver_challenge) ==
  LET x == witness_input(t, transition_digest(t), AnchorId, Slot,
                         receiver_challenge)
  IN  keygen_sk(witness_key_material(MacAndDestroyOutput(x), x, t, AnchorId,
                                     Slot))

(* Mutant: the certificate message over the public key, not its handle.    *)
SignedReleaseOverKey(t, receiver_challenge, sk_hw) ==
  LET d == transition_digest(t)
      x == witness_input(t, d, AnchorId, Slot, receiver_challenge)
      pk_hw == keygen_pk(sk_hw[2])
      m == cert_message(t, d, x, pk_hw, AnchorId, Slot, receiver_challenge)
  IN  OfflineRelease(t,
        Certificate(t, d, x, pk_hash(pk_hw), pk_hw, sign(sk_hw, m), AnchorId,
                    Slot, receiver_challenge),
        CounterEvidence(AnchorId, H0, h - 1, t.next_anchor_counter))

(* commit: sign M and assemble the release.                                *)
SignedRelease(t, receiver_challenge, sk_hw) ==
  LET d == transition_digest(t)
      x == witness_input(t, d, AnchorId, Slot, receiver_challenge)
      pk_hw == keygen_pk(sk_hw[2])
      m == cert_message(t, d, x, pk_hash(pk_hw), AnchorId, Slot,
                        receiver_challenge)
  IN  OfflineRelease(t,
        Certificate(t, d, x, pk_hash(pk_hw), pk_hw, sign(sk_hw, m), AnchorId,
                    Slot, receiver_challenge),
        CounterEvidence(AnchorId, H0, h - 1, t.next_anchor_counter))

-----------------------------------------------------------------------------
(* Answers.  An operation that returns is back at "idle".                  *)

Answer(result) == pc' = "idle" /\ staged' = Empty /\ reply' = result
Continue(next, record_to_store) ==
  pc' = next /\ staged' = record_to_store /\ reply' = "none"

Refuse(result) ==
  /\ pc = "idle"
  /\ result # "Ok"
  /\ Answer(result)
  /\ UNCHANGED <<chipVars, durable, history>>

(* A chip read of an operation whose earlier checks passed fails.          *)
ChipReadFails(check) ==
  /\ pc = "idle"
  /\ check \in {"Ok", "CounterExhausted", "CounterMismatch"}
  /\ Answer("Tropic")
  /\ UNCHANGED <<chipVars, durable, history>>

-----------------------------------------------------------------------------
(* prepare                                                                 *)

(* Mutants: no check that the next index is the next one; no status check.  *)
PrepareCheckAnyNext(t) ==
  IF status # "Ready" THEN "WrongState"
  ELSE IF root # t.prev_root THEN "PrevRootMismatch"
  ELSE IF t.anchor_counter # u THEN "IndexMismatch"
  ELSE IF u # LiveIndex THEN "CounterMismatch"
  ELSE "Ok"
PrepareCheckAnyStatus(t) ==
  IF root # t.prev_root THEN "PrevRootMismatch"
  ELSE IF t.anchor_counter # u THEN "IndexMismatch"
  ELSE IF t.next_anchor_counter # t.anchor_counter + 1 THEN "IndexMismatch"
  ELSE IF u # LiveIndex THEN "CounterMismatch"
  ELSE "Ok"

PrepareCheck(t) ==
  IF status # "Ready" THEN "WrongState"
  ELSE IF root # t.prev_root THEN "PrevRootMismatch"
  ELSE IF t.anchor_counter # u THEN "IndexMismatch"
  ELSE IF t.next_anchor_counter # t.anchor_counter + 1 THEN "IndexMismatch"
  ELSE IF u # LiveIndex THEN "CounterMismatch"
  ELSE "Ok"

(* The checks, the MACANDD call and the write of status.                   *)
PrepareBegin(t, receiver_challenge) ==
  /\ pc = "idle"
  /\ PrepareCheck(t) = "Ok"
  /\ MacAndDestroy
  /\ status' = "Prepared"
  /\ Continue("prepare_store",
              Prepared(t, receiver_challenge, WitnessKey(t, receiver_challenge)))
  /\ UNCHANGED <<h, root, u, record, history>>

PrepareStore ==
  /\ pc = "prepare_store"
  /\ record' = staged
  /\ Answer("Ok")
  /\ UNCHANGED <<chipVars, root, u, status, history>>

PrepareRefused(t) == Refuse(PrepareCheck(t))
PrepareReadFails(t) == ChipReadFails(PrepareCheck(t))

(* Mutant: the status is written before the call.                          *)
PrepareWitnessFailsLate(t) ==
  /\ pc = "idle"
  /\ PrepareCheck(t) = "Ok"
  /\ MacAndDestroyFails
  /\ status' = "Prepared"
  /\ Answer("Tropic")
  /\ UNCHANGED <<h, root, u, record, history>>

(* The MACANDD call fails; the slot may have evolved all the same.         *)
PrepareWitnessFails(t) ==
  /\ pc = "idle"
  /\ PrepareCheck(t) = "Ok"
  /\ MacAndDestroyFails
  /\ Answer("Tropic")
  /\ UNCHANGED <<h, durable, history>>

-----------------------------------------------------------------------------
(* commit                                                                  *)

CommitCheck ==
  IF ~IsPrepared THEN "WrongState"
  ELSE IF record.sk_hw = NoKey THEN "WitnessKeyLost"
  ELSE IF record.txn.prev_root # root THEN "PrevRootMismatch"
  ELSE IF h = 0 THEN "CounterExhausted"
  ELSE IF LiveIndex # record.txn.anchor_counter THEN "CounterMismatch"
  ELSE "Ok"

(* Mutant: the candidate is stored as counter-committed from the start.    *)
CommitSignMarked ==
  /\ pc = "idle"
  /\ CommitCheck = "Ok"
  /\ record' = Prepared(record.txn, record.receiver_challenge, NoKey)
  /\ Continue("commit_status",
              Committed(SignedRelease(record.txn, record.receiver_challenge,
                                      record.sk_hw), TRUE))
  /\ UNCHANGED <<chipVars, root, u, status, history>>

(* The checks, the signature (volatile) and the erasure of sk_hw.          *)
CommitSign ==
  /\ pc = "idle"
  /\ CommitCheck = "Ok"
  /\ record' = Prepared(record.txn, record.receiver_challenge, NoKey)
  /\ Continue("commit_status",
              Committed(SignedRelease(record.txn, record.receiver_challenge,
                                      record.sk_hw), FALSE))
  /\ UNCHANGED <<chipVars, root, u, status, history>>

CommitStatus ==
  /\ pc = "commit_status"
  /\ status' = "Committed"
  /\ Continue("commit_store", staged)
  /\ UNCHANGED <<chipVars, root, u, record, history>>

CommitStore ==
  /\ pc = "commit_store"
  /\ record' = staged
  /\ Continue("commit_count", Empty)
  /\ UNCHANGED <<chipVars, root, u, status, history>>

(* Phase 2.  The call moves the counter once ...                           *)
CommitCount ==
  /\ pc = "commit_count"
  /\ CounterUpdate
  /\ Continue("commit_flag", Empty)
  /\ UNCHANGED <<slot_state, durable, history>>

(* Mutant: the error is dropped.                                           *)
CommitCountIgnored ==
  /\ pc = "commit_count"
  /\ CounterUpdateFails
  /\ Answer("Ok")
  /\ UNCHANGED <<slot_state, durable, history>>

(* ... or returns an error, which commit reports as CounterExhausted.      *)
CommitCountFails ==
  /\ pc = "commit_count"
  /\ CounterUpdateFails
  /\ Answer("CounterExhausted")
  /\ UNCHANGED <<slot_state, durable, history>>

(* Phase 3, two writes.                                                    *)
CommitFlag ==
  /\ pc = "commit_flag"
  /\ record' = Committed(record.release, TRUE)
  /\ Continue("commit_index", Empty)
  /\ UNCHANGED <<chipVars, root, u, status, history>>

(* Mutant: off by one.                                                     *)
CommitIndexTwice ==
  /\ pc = "commit_index"
  /\ u' = RecordIndex + 1
  /\ Answer("Ok")
  /\ UNCHANGED <<chipVars, root, status, record, history>>

CommitIndex ==
  /\ pc = "commit_index"
  /\ u' = RecordIndex
  /\ Answer("Ok")
  /\ UNCHANGED <<chipVars, root, status, record, history>>

CommitRefused == Refuse(CommitCheck)
CommitReadFails == ChipReadFails(CommitCheck)

-----------------------------------------------------------------------------
(* emit, finalize and cancel                                               *)

(* Mutant: the flag is not checked.                                        *)
EmitUnmarked ==
  /\ pc = "idle"
  /\ IsCommitted
  /\ exported' = exported \cup {record.release}
  /\ Answer("Ok")
  /\ UNCHANGED <<chipVars, durable, installed, wasted>>

Emit ==
  /\ pc = "idle"
  /\ IsCommitted /\ record.committed
  /\ exported' = exported \cup {record.release}
  /\ Answer("Ok")
  /\ UNCHANGED <<chipVars, durable, installed, wasted>>

EmitRefused ==
  Refuse(IF IsCommitted /\ record.committed THEN "Ok" ELSE "NotCommitted")

(* Mutant: no check of the index against the live counter.                 *)
FinalizeCheckAnyCounter ==
  IF ~(IsCommitted /\ record.committed) THEN "NotCommitted" ELSE "Ok"

FinalizeCheck ==
  IF ~(IsCommitted /\ record.committed) THEN "NotCommitted"
  ELSE IF u # LiveIndex THEN "CounterMismatch"
  ELSE "Ok"

(* The whole Active is one assignment.                                     *)
Finalize ==
  /\ pc = "idle"
  /\ FinalizeCheck = "Ok"
  /\ root' = record.release.transition.next_root
  /\ status' = "Ready"
  /\ record' = Empty
  /\ installed' = installed \cup {record.release}
  /\ Answer("Ok")
  /\ UNCHANGED <<chipVars, u, exported, wasted>>

FinalizeRefused == Refuse(FinalizeCheck)
FinalizeReadFails == ChipReadFails(FinalizeCheck)

(* cancel erases the key, then returns the status to Ready, then drops the *)
(* record.                                                                 *)
CancelErase ==
  /\ pc = "idle"
  /\ IsPrepared
  /\ record' = Prepared(record.txn, record.receiver_challenge, NoKey)
  /\ Continue("cancel_status", Empty)
  /\ UNCHANGED <<chipVars, root, u, status, history>>

CancelStatus ==
  /\ pc = "cancel_status"
  /\ status' = "Ready"
  /\ Continue("cancel_store", Empty)
  /\ UNCHANGED <<chipVars, root, u, record, history>>

CancelStore ==
  /\ pc = "cancel_store"
  /\ record' = Empty
  /\ Answer("Ok")
  /\ UNCHANGED <<chipVars, root, u, status, history>>

CancelRefused == Refuse(IF IsPrepared THEN "Ok" ELSE "WrongState")

-----------------------------------------------------------------------------
(* recover, the first thing after power returns.  Whatever it answers, the *)
(* appliance then serves requests.                                         *)

Recovered(outcome) ==
  /\ Answer(outcome)
  /\ UNCHANGED <<chipVars, root, u, status, record, history>>

(* A boundary flag is set, or a read of the counter fails.                 *)
RecoverFaulty == pc \in {"boot", "recover_read"} /\ Recovered("DowngradeOnline")

(* The three committed records recover completes.                          *)
Candidate == status = "Committed" /\ IsCommitted
Reemittable == Candidate /\ record.committed /\ RecordIndex = LiveIndex
(* Mutants: the counter is moved again where it had moved already; the     *)
(* lost flag is not looked for.                                            *)
CountPendingOrMoved == /\ Candidate /\ ~record.committed
                       /\ RecordIndex \in {LiveIndex, LiveIndex + 1}
                       /\ record.release.transition.prev_root = root
FlagNeverLost == FALSE

CountPending == /\ Candidate /\ ~record.committed
                /\ RecordIndex = LiveIndex + 1
                /\ record.release.transition.prev_root = root
FlagLost == Candidate /\ ~record.committed /\ RecordIndex = LiveIndex

(* Mutant: the index is not restored.                                      *)
RecoverReemitOnly ==
  /\ pc = "boot" /\ Reemittable
  /\ Answer("ReemitCommitted")
  /\ UNCHANGED <<chipVars, durable, history>>

RecoverReemit ==
  /\ pc = "boot" /\ Reemittable
  /\ u' = RecordIndex
  /\ Answer("ReemitCommitted")
  /\ UNCHANGED <<chipVars, root, status, record, history>>

RecoverCountPending ==
  /\ pc = "boot" /\ CountPending
  /\ Continue("recover_count", Empty)
  /\ UNCHANGED <<chipVars, durable, history>>

RecoverCount ==
  /\ pc = "recover_count"
  /\ CounterUpdate
  /\ Continue("recover_flag", Empty)
  /\ UNCHANGED <<slot_state, durable, history>>

RecoverCountFails ==
  /\ pc = "recover_count"
  /\ CounterUpdateFails
  /\ Answer("DowngradeOnline")
  /\ UNCHANGED <<slot_state, durable, history>>

(* Mark the record: after the counter moved, or because it had moved.      *)
RecoverFlag ==
  /\ pc = "recover_flag" \/ (pc = "boot" /\ FlagLost)
  /\ record' = Committed(record.release, TRUE)
  /\ Continue("recover_index", Empty)
  /\ UNCHANGED <<chipVars, root, u, status, history>>

RecoverIndex ==
  /\ pc = "recover_index"
  /\ u' = RecordIndex
  /\ Answer("ReemitCommitted")
  /\ UNCHANGED <<chipVars, root, status, record, history>>

(* Mutant: a stale record is dropped.                                      *)
RecoverStaleDropped ==
  /\ pc = "boot" /\ status = "Committed"
  /\ ~(Reemittable \/ CountPending \/ FlagLost)
  /\ status' = "Ready" /\ record' = Empty
  /\ Answer("DowngradeOnline")
  /\ UNCHANGED <<chipVars, root, u, history>>

RecoverStale ==
  /\ pc = "boot" /\ status = "Committed"
  /\ ~(Reemittable \/ CountPending \/ FlagLost)
  /\ Recovered("DowngradeOnline")

RecoverPrepared ==
  /\ pc = "boot" /\ status = "Prepared"
  /\ Recovered(IF u # LiveIndex \/ ~IsPrepared THEN "DowngradeOnline"
               ELSE IF record.txn.prev_root # root THEN "DowngradeOnline"
               ELSE IF record.sk_hw = NoKey THEN "OnlineCancelOrResolve"
               ELSE "AcceptPreparedCanComplete")

RecoverReady ==
  /\ pc = "boot" /\ status = "Ready" /\ u = LiveIndex
  /\ Continue("recover_read", Empty)
  /\ UNCHANGED <<chipVars, durable, history>>

(* The second read of the counter.                                         *)
RecoverRead ==
  /\ pc = "recover_read"
  /\ Recovered(IF h = 0 THEN "ExhaustedOnlineOnly" ELSE "Accept")

RecoverAhead ==
  /\ pc = "boot" /\ status = "Ready" /\ u # LiveIndex
  /\ Recovered(IF u < LiveIndex THEN "DowngradeOnline" ELSE "FailClosed")

-----------------------------------------------------------------------------
(* The environment.                                                        *)

PowerLoss ==
  /\ pc # "boot"
  /\ pc' = "boot" /\ staged' = Empty /\ reply' = "none"
  /\ UNCHANGED <<chipVars, durable, history>>

(* Something else with access to the chip moves the counter.               *)
CounterWaste ==
  /\ wasted < MaxWaste
  /\ CounterUpdate
  /\ wasted' = wasted + 1
  /\ UNCHANGED <<slot_state, durable, volatile, exported, installed>>

(* The wallet advances the root online, outside the appliance.             *)
OnlineAdvance(r) ==
  /\ pc \in {"idle", "boot"}
  /\ root' = r
  /\ UNCHANGED <<chipVars, u, status, record, volatile, history>>

-----------------------------------------------------------------------------
Init ==
  /\ ChipInit
  /\ root = Genesis /\ u = 0 /\ status = "Ready" /\ record = Empty
  /\ pc = "boot" /\ staged = Empty /\ reply = "none"
  /\ exported = {} /\ installed = {} /\ wasted = 0

PrepareStep ==
  \/ \E t \in Transitions, rc \in Challenges : PrepareBegin(t, rc)
  \/ PrepareStore
  \/ \E t \in Transitions :
       PrepareRefused(t) \/ PrepareReadFails(t) \/ PrepareWitnessFails(t)
CommitStep == \/ CommitSign \/ CommitStatus \/ CommitStore \/ CommitCount
              \/ CommitCountFails \/ CommitFlag \/ CommitIndex
              \/ CommitRefused \/ CommitReadFails
FinalizeStep == Finalize \/ FinalizeRefused \/ FinalizeReadFails
CancelStep == CancelErase \/ CancelStatus \/ CancelStore \/ CancelRefused
RecoverStep == \/ RecoverFaulty \/ RecoverReemit \/ RecoverCountPending
               \/ RecoverCount \/ RecoverCountFails \/ RecoverFlag
               \/ RecoverIndex \/ RecoverStale \/ RecoverPrepared
               \/ RecoverReady \/ RecoverRead \/ RecoverAhead
EnvironmentStep ==
  PowerLoss \/ CounterWaste \/ \E r \in OnlineRoots : OnlineAdvance(r)

Next == \/ PrepareStep \/ CommitStep \/ Emit \/ EmitRefused \/ FinalizeStep
        \/ CancelStep \/ RecoverStep \/ EnvironmentStep

Spec == Init /\ [][Next]_vars

(***************************************************************************)
(* Fairness.  Straight-line code goes on.  Power and the chip do not fail  *)
(* at the same step of recover for ever, and the host asks for finalize    *)
(* again.  No opcode runs recover, so somebody unplugs an appliance left   *)
(* with a candidate it cannot finalize.                                    *)
(***************************************************************************)
CodeStep == \/ PrepareStore \/ CommitStatus \/ CommitStore \/ CommitCount
            \/ CommitCountFails \/ CommitFlag \/ CommitIndex \/ CancelStatus
            \/ CancelStore \/ RecoverStep

Replug == pc = "idle" /\ IsCommitted /\ FinalizeCheck # "Ok" /\ PowerLoss

Fairness ==
  /\ WF_vars(CodeStep) /\ WF_vars(Replug)
  /\ SF_vars(RecoverReemit) /\ SF_vars(RecoverCountPending)
  /\ SF_vars(RecoverCount) /\ SF_vars(RecoverFlag) /\ SF_vars(RecoverIndex)
  /\ SF_vars(Finalize)

LiveSpec == Spec /\ Fairness

-----------------------------------------------------------------------------
(* Type correctness.                                                       *)

PcValues == {"boot", "idle", "prepare_store",
             "commit_status", "commit_store", "commit_count", "commit_flag",
             "commit_index", "cancel_status", "cancel_store",
             "recover_count", "recover_flag", "recover_index", "recover_read"}

Replies == {"none", "Ok",
            "WrongState", "PrevRootMismatch", "IndexMismatch",
            "CounterMismatch", "CounterExhausted", "WitnessKeyLost",
            "NotCommitted", "Tropic",
            "Accept", "ReemitCommitted", "DowngradeOnline", "FailClosed",
            "ExhaustedOnlineOnly", "AcceptPreparedCanComplete",
            "OnlineCancelOrResolve"}

RecordTypeOK(r) ==
  \/ r = Empty
  \/ /\ r.kind = "Prepared"
     /\ r = Prepared(r.txn, r.receiver_challenge, r.sk_hw)
     /\ r.txn \in Transitions /\ r.receiver_challenge \in Challenges
  \/ /\ r.kind = "Committed"
     /\ r = Committed(r.release, r.committed)
     /\ r.release.transition \in Transitions /\ r.committed \in BOOLEAN

(* The type of every variable.                                             *)
TypeOK ==
  /\ ChipTypeOK
  /\ root \in Roots /\ u \in 0..H0
  /\ status \in {"Ready", "Prepared", "Committed"}
  /\ pc \in PcValues /\ reply \in Replies
  /\ RecordTypeOK(record) /\ RecordTypeOK(staged)
  /\ \A r \in exported \cup installed : r.transition \in Transitions
  /\ wasted \in 0..MaxWaste

-----------------------------------------------------------------------------
(* Safety.                                                                 *)

(* The index the appliance has accounted for: its own, or the one its      *)
(* committed record is about to take.                                      *)
Accounted == IF IsCommitted THEN RecordIndex ELSE u

(* Whatever is interrupted, retried and recovered, the appliance moves the *)
(* counter once per committed record: it is never behind the durable index *)
(* and never ahead of the record by more than what others moved.           *)
CounterAccounted == u <= LiveIndex /\ LiveIndex <= Accounted + wasted

(* Nothing leaves the appliance before the counter has moved for it.       *)
ExportedAfterCount == \A r \in exported : IndexOfRelease(r) <= LiveIndex

(* No two releases, exported or installed, ever spend the same index: the  *)
(* parent is never spent twice, across cancels, re-prepares and crashes.   *)
OneReleasePerIndex ==
  \A r, s \in exported \cup installed :
    IndexOfRelease(r) = IndexOfRelease(s) => r = s

(* A release that left the appliance is installed or is still the          *)
(* candidate: no crash and no recovery makes the appliance forget it.      *)
ExportedNotAbandoned ==
  exported \subseteq installed \cup (IF IsCommitted THEN {record.release} ELSE {})

(* The certificate a receiver assembles from the transition and the key    *)
(* of a release, with the signature it carries.                            *)
Recomputed(r) ==
  LET t == r.transition
      d == transition_digest(t)
      x == witness_input(t, d, AnchorId, Slot, r.cert.receiver_challenge)
  IN  Certificate(t, d, x, pk_hash(r.cert.pk_hw), r.cert.pk_hw, r.cert.sigma,
                  AnchorId, Slot, r.cert.receiver_challenge)
MessageOf(r) ==
  cert_message(r.transition, r.cert.transition_digest, r.cert.witness_input,
               r.cert.pk_hash, AnchorId, Slot, r.cert.receiver_challenge)

Verifiable(r) ==
  /\ r = OfflineRelease(r.transition, r.cert, r.counter)
  /\ r.cert = Recomputed(r)
  /\ verify(r.cert.pk_hw, MessageOf(r), r.cert.sigma)
  /\ r.transition.next_anchor_counter = r.transition.anchor_counter + 1
  /\ r.counter.anchor_id = AnchorId

(* Whatever prepare stored and commit signed, a crash and a recovery later *)
(* too, is what a receiver recomputes from the transition, for the index   *)
(* after the parent's: a candidate the counter is spent on is never one    *)
(* that cannot be verified.                                                *)
ReleasesVerify ==
  /\ \A r \in exported : Verifiable(r)
  /\ IsCommitted => Verifiable(record.release)
  /\ staged.kind = "Committed" => Verifiable(staged.release)

(* Without online advances the installed releases are one chain from       *)
(* Genesis to the active root, one per index up to u.                      *)
ChainLinked ==
  LET index == {IndexOfRelease(r) : r \in installed}
      tip == IF IsCommitted THEN RecordIndex - 1 ELSE u
      rootAt == [i \in index \cup {0} |->
                   IF i = 0 THEN Genesis
                   ELSE (CHOOSE r \in installed : IndexOfRelease(r) = i)
                          .transition.next_root]
  IN  /\ index = 1..tip
      /\ root = rootAt[tip]
      /\ \A r \in installed :
           r.transition.prev_root = rootAt[IndexOfRelease(r) - 1]

(* What recover answers is so, as long as nobody else moves the counter:   *)
(* after Accept a transition of the active root can be prepared and its    *)
(* counter moved, after ReemitCommitted the candidate can be emitted and   *)
(* finalized, after AcceptPreparedCanComplete there is a record with its   *)
(* key and at its index (the root may move and the counter be used up),    *)
(* and OnlineCancelOrResolve leaves something to cancel.  A store torn     *)
(* between status and record is promised nothing.                          *)
RecoveryHonoured ==
  wasted = 0 =>
    /\ reply = "Accept" => status = "Ready" /\ u = LiveIndex /\ h > 0
    /\ reply = "ReemitCommitted" => FinalizeCheck = "Ok"
    /\ reply = "AcceptPreparedCanComplete" =>
         CommitCheck \in {"Ok", "CounterExhausted", "PrevRootMismatch"}
    /\ reply = "OnlineCancelOrResolve" => IsPrepared

(* A candidate is never replaced, not even by recovery: it leaves the      *)
(* record only by being installed.                                         *)
CandidateStable ==
  [][IsCommitted =>
       \/ IsCommitted' /\ record'.release = record.release
       \/ record.release \in installed']_vars

(* A candidate is installed eventually: an interrupted commit is completed *)
(* by recovery and finalized, however often power and chip fail on the way *)
(* (unless the counter or the root is moved by others).                    *)
CandidateInstalled == IsCommitted ~> status = "Ready" /\ record = Empty

-----------------------------------------------------------------------------
(* What the documents say and the code does not do.                        *)

(* README.md: recover completes an interrupted commit only if the parent   *)
(* still matches.                                                          *)
CompletesOnlyMatchingParent ==
  [][/\ IsCommitted /\ ~record.committed /\ IsCommitted' /\ record'.committed
     /\ pc \in {"boot", "recover_flag"}
     => record.release.transition.prev_root = root]_vars

(* AcceptPreparedCanComplete: the prepared record can be committed.        *)
PreparedCanComplete ==
  reply = "AcceptPreparedCanComplete" /\ wasted = 0 => CommitCheck = "Ok"

-----------------------------------------------------------------------------
(* The inductive strengthening of the safety invariants.                   *)

(* A prepared record is always about the transition of the index after u.  *)
FollowsU(t) == t.anchor_counter = u /\ t.next_anchor_counter = u + 1
PreparedInv == IsPrepared => FollowsU(record.txn)

(* A committed record is about that index too until u has taken it, and is *)
(* marked only once the counter has moved.                                 *)
CommittedInv ==
  IsCommitted =>
    /\ status = "Committed"
    /\ ~record.committed => RecordIndex = u + 1
    /\ record.committed => RecordIndex \in {u, u + 1} /\ RecordIndex <= LiveIndex

(* What an operation relies on between two of its steps.                   *)
StepInv ==
  /\ pc = "prepare_store" =>
       staged.kind = "Prepared" /\ FollowsU(staged.txn) /\ ~IsCommitted
  /\ pc \in {"commit_status", "commit_store"} =>
       /\ IsPrepared
       /\ staged.kind = "Committed" /\ ~staged.committed
       /\ IndexOfRelease(staged.release) = u + 1
  /\ pc = "commit_store" => status = "Committed"
  /\ pc \in {"commit_count", "recover_count"} =>
       IsCommitted /\ ~record.committed /\ LiveIndex <= u + wasted
  /\ pc \in {"commit_flag", "recover_flag"} =>
       IsCommitted /\ ~record.committed /\ RecordIndex <= LiveIndex
  /\ pc \in {"commit_index", "recover_index"} => IsCommitted /\ record.committed
  /\ pc \in {"cancel_status", "cancel_store"} => IsPrepared

(* Installed releases lie below the candidate, one per index.              *)
InstalledInv ==
  /\ \A r \in installed : /\ IndexOfRelease(r) <= u
                          /\ IsCommitted => IndexOfRelease(r) < RecordIndex
  /\ \A r, s \in installed : IndexOfRelease(r) = IndexOfRelease(s) => r = s

ExportedInv ==
  \A r \in exported : \/ r \in installed
                      \/ IsCommitted /\ record.committed /\ r = record.release

(* Holds initially, is kept by every step and implies the invariants above *)
(* it: what the theorems of ApplianceProofs rest on.                       *)
IInv == /\ TypeOK /\ PreparedInv /\ CommittedInv /\ StepInv
        /\ CounterAccounted /\ InstalledInv /\ ExportedInv
=============================================================================
