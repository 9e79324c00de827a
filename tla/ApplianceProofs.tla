--------------------------- MODULE ApplianceProofs ---------------------------
(***************************************************************************)
(* The safety invariants of Appliance for every counter, every set of      *)
(* transitions and challenges and any number of foreign counter moves.     *)
(* IInv is inductive; type correctness and the invariants the runs check   *)
(* follow from it.                                                         *)
(***************************************************************************)
EXTENDS Appliance, TLAPS

-----------------------------------------------------------------------------
(* What the constructors of records and releases build.                    *)

(* The three records are told apart by kind and give back what they hold.  *)
LEMMA RecordFields ==
  /\ Empty.kind = "Empty" /\ RecordTypeOK(Empty)
  /\ \A k : \A t \in Transitions, rc \in Challenges :
       /\ Prepared(t, rc, k).kind = "Prepared"
       /\ Prepared(t, rc, k).txn = t
       /\ RecordTypeOK(Prepared(t, rc, k))
  /\ \A r : /\ Committed(r, TRUE).kind = "Committed"
            /\ Committed(r, FALSE).kind = "Committed"
            /\ Committed(r, TRUE).release = r /\ Committed(r, FALSE).release = r
            /\ Committed(r, TRUE).committed /\ ~Committed(r, FALSE).committed
            /\ r.transition \in Transitions
                 => /\ RecordTypeOK(Committed(r, TRUE))
                    /\ RecordTypeOK(Committed(r, FALSE))
  BY DEF Empty, Prepared, Committed, RecordTypeOK

(* What the type of a record says of its fields.                           *)
LEMMA RecordCases ==
  ASSUME NEW r, RecordTypeOK(r)
  PROVE  /\ r.kind = "Prepared" =>
              r.txn \in Transitions /\ r.receiver_challenge \in Challenges
         /\ r.kind = "Committed" =>
              r.release.transition \in Transitions /\ r.committed \in BOOLEAN
  BY DEF RecordTypeOK, Empty

(* A release is about the transition it was signed for, and its index is a *)
(* natural number.                                                         *)
LEMMA ReleaseTransition ==
  /\ \A t, rc, k : SignedRelease(t, rc, k).transition = t
  /\ \A r : r.transition \in Transitions => IndexOfRelease(r) \in Nat
  BY TransitionAssumption DEF SignedRelease, OfflineRelease, IndexOfRelease

-----------------------------------------------------------------------------
(* The steps.                                                              *)

(* The arithmetic every step uses.                                         *)
LEMMA Arithmetic ==
  ASSUME TypeOK
  PROVE  /\ u \in Nat /\ h \in Nat /\ LiveIndex \in Nat /\ LiveIndex <= H0
         /\ wasted \in Nat /\ H0 \in Nat
         /\ IsCommitted => RecordIndex \in Nat /\ record.committed \in BOOLEAN
         /\ \A r \in exported \cup installed : IndexOfRelease(r) \in Nat
  BY H0Assumption, MaxWasteAssumption, RecordCases, ReleaseTransition
  DEF TypeOK, ChipTypeOK, LiveIndex, IsCommitted, RecordIndex

(* A step that leaves the durable index, status and record, the counter    *)
(* and the history alone and ends nowhere in the middle of an operation:   *)
(* a refusal, a failed chip read, an outage, an online advance, and what   *)
(* recover answers without completing anything.                            *)
LEMMA NothingStored ==
  ASSUME IInv,
         UNCHANGED <<h, u, status, record, history>>,
         slot_state' \in 0..MaxWitness, root' \in Roots,
         pc' \in {"idle", "boot", "recover_read"},
         RecordTypeOK(staged'), reply' \in Replies
  PROVE  IInv'
  <1>1. TypeOK'
    BY DEF IInv, TypeOK, ChipTypeOK, PcValues, history
  <1>2. PreparedInv' /\ CommittedInv' /\ CounterAccounted'
    BY DEF IInv, PreparedInv, CommittedInv, CounterAccounted, Accounted,
           FollowsU, IsPrepared, IsCommitted, RecordIndex, LiveIndex, history
  <1>3. StepInv'
    BY DEF StepInv
  <1>4. InstalledInv' /\ ExportedInv'
    BY DEF IInv, InstalledInv, ExportedInv, IsCommitted, RecordIndex, history
  <1> QED BY <1>1, <1>2, <1>3, <1>4 DEF IInv

(* Marking the committed record once the counter has moved for it, in      *)
(* commit or in recover.                                                   *)
LEMMA FlagKeepsIInv ==
  ASSUME IInv, IsCommitted, ~record.committed, RecordIndex <= LiveIndex,
         record' = Committed(record.release, TRUE),
         \/ Continue("commit_index", Empty)
         \/ Continue("recover_index", Empty),
         UNCHANGED <<chipVars, root, u, status, history>>
  PROVE  IInv'
  <1> USE DEF IInv
  <1>1. /\ IsCommitted' /\ ~IsPrepared' /\ record'.committed
        /\ record'.release = record.release /\ RecordIndex' = RecordIndex
        /\ RecordTypeOK(record')
    BY RecordFields, RecordCases DEF IsCommitted, IsPrepared, RecordIndex, TypeOK
  <1>2. TypeOK'
    BY <1>1, RecordFields DEF Continue, TypeOK, ChipTypeOK, PcValues, Replies,
      history, chipVars
  <1>3. PreparedInv' /\ CommittedInv' /\ CounterAccounted' /\ StepInv'
    BY <1>1 DEF Continue, PreparedInv, CommittedInv, CounterAccounted,
      Accounted, StepInv, LiveIndex, history, chipVars
  <1>4. InstalledInv' /\ ExportedInv'
    BY <1>1 DEF InstalledInv, ExportedInv, history
  <1> QED BY <1>2, <1>3, <1>4

(* Taking the index of a marked record, in commit or in recover.           *)
LEMMA IndexKeepsIInv ==
  ASSUME IInv, IsCommitted, record.committed,
         u' = RecordIndex, NEW result \in Replies, Answer(result),
         UNCHANGED <<chipVars, root, status, record, history>>
  PROVE  IInv'
  <1> USE DEF IInv
  <1>1. /\ u \in Nat /\ LiveIndex \in Nat /\ LiveIndex <= H0 /\ H0 \in Nat
        /\ RecordIndex \in Nat /\ RecordIndex <= LiveIndex
        /\ RecordIndex \in {u, u + 1}
    BY Arithmetic DEF CommittedInv
  <1>2. TypeOK'
    BY <1>1, RecordFields DEF Answer, TypeOK, ChipTypeOK, PcValues, history,
      chipVars
  <1>3. PreparedInv' /\ CommittedInv' /\ CounterAccounted' /\ StepInv'
    BY <1>1 DEF Answer, PreparedInv, CommittedInv, CounterAccounted,
      Accounted, StepInv, IsPrepared, IsCommitted, RecordIndex, LiveIndex,
      history, chipVars
  <1>4. InstalledInv' /\ ExportedInv'
    BY <1>1, Arithmetic DEF InstalledInv, ExportedInv, IsCommitted,
      RecordIndex, history
  <1> QED BY <1>2, <1>3, <1>4

(* prepare: a transition that passes the checks follows u, and no          *)
(* committed record is there to be overwritten.                            *)
LEMMA PrepareKeepsIInv == ASSUME IInv, PrepareStep PROVE IInv'
  <1> USE DEF IInv
  <1>1. ASSUME NEW t \in Transitions, NEW rc \in Challenges, PrepareBegin(t, rc)
        PROVE  IInv'
    <2>1. /\ ~IsCommitted /\ FollowsU(t)
          /\ RecordTypeOK(staged') /\ staged'.kind = "Prepared" /\ staged'.txn = t
      <3>1. ~IsCommitted /\ FollowsU(t)
        BY <1>1 DEF PrepareBegin, PrepareCheck, CommittedInv, FollowsU
      <3>2. staged' = Prepared(t, rc, WitnessKey(t, rc))
        BY <1>1 DEF PrepareBegin, Continue
      <3> QED BY <3>1, <3>2, RecordFields
    <2>2. TypeOK'
      BY <1>1, <2>1, MaxWitnessAssumption
      DEF PrepareBegin, Continue, MacAndDestroy, TypeOK, ChipTypeOK,
          PcValues, Replies, history
    <2>3. PreparedInv' /\ CommittedInv' /\ CounterAccounted'
      BY <1>1, <2>1 DEF PrepareBegin, PreparedInv, CommittedInv,
        CounterAccounted, Accounted, FollowsU, IsPrepared, IsCommitted,
        RecordIndex, LiveIndex, history
    <2>4. StepInv'
      BY <1>1, <2>1 DEF PrepareBegin, Continue, StepInv, FollowsU, IsCommitted
    <2>5. InstalledInv' /\ ExportedInv'
      BY <1>1, <2>1 DEF PrepareBegin, InstalledInv, ExportedInv, IsCommitted,
        RecordIndex, history
    <2> QED BY <2>2, <2>3, <2>4, <2>5
  <1>2. ASSUME PrepareStore PROVE IInv'
    <2>1. ~IsCommitted /\ ~IsCommitted' /\ FollowsU(record'.txn)
      BY <1>2 DEF PrepareStore, StepInv, IsCommitted
    <2>2. TypeOK'
      BY <1>2, RecordFields DEF PrepareStore, Answer, TypeOK, ChipTypeOK,
        PcValues, Replies, history, chipVars
    <2>3. PreparedInv' /\ CommittedInv' /\ CounterAccounted' /\ StepInv'
      BY <1>2, <2>1 DEF PrepareStore, Answer, PreparedInv, CommittedInv,
        CounterAccounted, Accounted, StepInv, FollowsU, IsPrepared,
        LiveIndex, history, chipVars
    <2>4. InstalledInv' /\ ExportedInv'
      BY <1>2, <2>1 DEF PrepareStore, InstalledInv, ExportedInv, history
    <2> QED BY <2>2, <2>3, <2>4
  <1>3. ASSUME NEW t \in Transitions,
               PrepareRefused(t) \/ PrepareReadFails(t) \/ PrepareWitnessFails(t)
        PROVE  IInv'
    <2>1. /\ UNCHANGED <<h, u, status, record, history>> /\ root' \in Roots
          /\ slot_state' \in 0..MaxWitness /\ pc' = "idle"
      BY <1>3, MaxWitnessAssumption DEF PrepareRefused, PrepareReadFails,
        PrepareWitnessFails, Refuse, ChipReadFails, Answer, MacAndDestroyFails,
        MacAndDestroy, TypeOK, ChipTypeOK, durable, chipVars
    <2>2. RecordTypeOK(staged') /\ reply' \in Replies
      BY <1>3, RecordFields DEF PrepareRefused, PrepareReadFails,
        PrepareWitnessFails, Refuse, ChipReadFails, Answer, PrepareCheck, Replies
    <2> QED BY <2>1, <2>2, NothingStored
  <1> QED BY <1>1, <1>2, <1>3 DEF PrepareStep

(* commit: the signed release is about the prepared transition, the index  *)
(* after u, and the counter moves once while the record waits for it.      *)
LEMMA CommitKeepsIInv == ASSUME IInv, CommitStep PROVE IInv'
  <1> USE DEF IInv
  <1>a. /\ u \in Nat /\ h \in Nat /\ LiveIndex \in Nat /\ LiveIndex <= H0
        /\ wasted \in Nat /\ H0 \in Nat
        /\ IsCommitted => RecordIndex \in Nat /\ record.committed \in BOOLEAN
    BY Arithmetic
  <1>1. CASE CommitSign
    <2> DEFINE t == record.txn
               rc == record.receiver_challenge
               release == SignedRelease(t, rc, record.sk_hw)
    <2>1. /\ IsPrepared /\ ~IsCommitted /\ LiveIndex = t.anchor_counter
          /\ t \in Transitions /\ rc \in Challenges /\ FollowsU(t)
      BY <1>1, RecordCases DEF CommitSign, CommitCheck, IsPrepared,
        IsCommitted, TypeOK, PreparedInv
    <2>2. /\ RecordTypeOK(record') /\ IsPrepared' /\ ~IsCommitted'
          /\ record'.txn = t
      BY <1>1, <2>1, RecordFields DEF CommitSign, IsPrepared, IsCommitted
    <2>3. /\ RecordTypeOK(staged') /\ staged'.kind = "Committed"
          /\ ~staged'.committed /\ IndexOfRelease(staged'.release) = u + 1
      <3>1. staged' = Committed(release, FALSE)
        BY <1>1 DEF CommitSign, Continue
      <3>2. release.transition = t
        BY ReleaseTransition
      <3>3. IndexOfRelease(release) = u + 1
        BY <2>1, <3>2 DEF IndexOfRelease, FollowsU
      <3> QED BY <2>1, <3>1, <3>2, <3>3, RecordFields
    <2>4. TypeOK'
      BY <1>1, <2>2, <2>3 DEF CommitSign, Continue, TypeOK, ChipTypeOK,
        PcValues, Replies, history, chipVars
    <2>5. PreparedInv' /\ CommittedInv' /\ CounterAccounted' /\ StepInv'
      BY <1>1, <2>1, <2>2, <2>3 DEF CommitSign, Continue, PreparedInv,
        CommittedInv, CounterAccounted, Accounted, StepInv, FollowsU,
        LiveIndex, history, chipVars
    <2>6. InstalledInv' /\ ExportedInv'
      BY <1>1, <2>1, <2>2 DEF CommitSign, InstalledInv, ExportedInv, history
    <2> QED BY <2>4, <2>5, <2>6
  <1>2. CASE CommitStatus
    <2>1. TypeOK'
      BY <1>2 DEF CommitStatus, Continue, TypeOK, ChipTypeOK, PcValues,
        Replies, history, chipVars
    <2>2. PreparedInv' /\ CommittedInv' /\ CounterAccounted' /\ StepInv'
      BY <1>2 DEF CommitStatus, Continue, PreparedInv, CommittedInv,
        CounterAccounted, Accounted, StepInv, FollowsU, IsPrepared,
        IsCommitted, RecordIndex, LiveIndex, history, chipVars
    <2>3. InstalledInv' /\ ExportedInv'
      BY <1>2 DEF CommitStatus, InstalledInv, ExportedInv, IsCommitted,
        RecordIndex, history
    <2> QED BY <2>1, <2>2, <2>3
  <1>3. CASE CommitStore
    <2>1. /\ ~IsCommitted /\ IsCommitted' /\ ~IsPrepared' /\ ~record'.committed
          /\ RecordIndex' = u + 1 /\ status = "Committed"
          /\ LiveIndex <= u + wasted
      BY <1>3 DEF CommitStore, StepInv, IsPrepared, IsCommitted, RecordIndex,
        CounterAccounted, Accounted
    <2>2. TypeOK'
      BY <1>3, RecordFields DEF CommitStore, Continue, TypeOK, ChipTypeOK,
        PcValues, Replies, history, chipVars
    <2>3. PreparedInv' /\ CommittedInv' /\ CounterAccounted' /\ StepInv'
      BY <1>a, <1>3, <2>1 DEF CommitStore, Continue, PreparedInv, CommittedInv,
        CounterAccounted, Accounted, StepInv, LiveIndex, history, chipVars
    <2>4. InstalledInv' /\ ExportedInv'
      BY <1>a, <1>3, <2>1, Arithmetic DEF CommitStore, InstalledInv,
        ExportedInv, history
    <2> QED BY <2>2, <2>3, <2>4
  <1>4. CASE CommitCount
    <2>1. TypeOK'
      BY <1>4, RecordFields, H0Assumption DEF CommitCount, CounterUpdate, Continue, TypeOK,
        ChipTypeOK, PcValues, Replies, history, durable
    <2>2. PreparedInv' /\ CommittedInv' /\ CounterAccounted' /\ StepInv'
      BY <1>a, <1>4 DEF CommitCount, CounterUpdate, Continue, PreparedInv,
        CommittedInv, CounterAccounted, Accounted, StepInv, FollowsU,
        IsPrepared, IsCommitted, RecordIndex, LiveIndex, history, durable
    <2>3. InstalledInv' /\ ExportedInv'
      BY <1>4 DEF CommitCount, InstalledInv, ExportedInv, IsCommitted,
        RecordIndex, history, durable
    <2> QED BY <2>1, <2>2, <2>3
  <1>5. CASE CommitCountFails
    <2>1. TypeOK'
      BY <1>5, RecordFields, H0Assumption DEF CommitCountFails, CounterUpdateFails,
        CounterUpdate, Answer, TypeOK, ChipTypeOK, PcValues, Replies, history,
        durable
    <2>2. PreparedInv' /\ CommittedInv' /\ CounterAccounted' /\ StepInv'
      BY <1>a, <1>5 DEF CommitCountFails, CounterUpdateFails, CounterUpdate,
        Answer, PreparedInv, CommittedInv, CounterAccounted, Accounted,
        StepInv, FollowsU, IsPrepared, IsCommitted, RecordIndex, LiveIndex,
        history, durable
    <2>3. InstalledInv' /\ ExportedInv'
      BY <1>5 DEF CommitCountFails, InstalledInv, ExportedInv, IsCommitted,
        RecordIndex, history, durable
    <2> QED BY <2>1, <2>2, <2>3
  <1>6. CASE CommitFlag
    BY <1>6, FlagKeepsIInv DEF CommitFlag, StepInv
  <1>7. CASE CommitIndex
    <2>1. "Ok" \in Replies
      BY DEF Replies
    <2> QED BY <1>7, <2>1, IndexKeepsIInv DEF CommitIndex, StepInv
  <1>8. CASE CommitRefused \/ CommitReadFails
    <2>1. /\ UNCHANGED <<h, slot_state, root, u, status, record, history>>
          /\ pc' = "idle" /\ staged' = Empty
      BY <1>8 DEF CommitRefused, CommitReadFails, Refuse, ChipReadFails,
        Answer, durable, chipVars
    <2>2. reply' \in Replies
      BY <1>8 DEF CommitRefused, CommitReadFails, Refuse, ChipReadFails,
        Answer, CommitCheck, Replies
    <2> QED BY <2>1, <2>2, NothingStored, RecordFields DEF TypeOK, ChipTypeOK
  <1> QED BY <1>1, <1>2, <1>3, <1>4, <1>5, <1>6, <1>7, <1>8 DEF CommitStep

(* emit: only a marked record is handed out.                               *)
LEMMA EmitKeepsIInv == ASSUME IInv, Emit \/ EmitRefused PROVE IInv'
  <1> USE DEF IInv
  <1>1. CASE Emit
    <2>1. /\ IsCommitted /\ record.committed
          /\ record.release.transition \in Transitions
      BY <1>1, RecordCases DEF Emit, TypeOK, IsCommitted
    <2>2. TypeOK'
      BY <1>1, <2>1, RecordFields DEF Emit, Answer, TypeOK, ChipTypeOK,
        PcValues, Replies, chipVars, durable
    <2>3. PreparedInv' /\ CommittedInv' /\ CounterAccounted' /\ StepInv'
      BY <1>1 DEF Emit, Answer, PreparedInv, CommittedInv, CounterAccounted,
        Accounted, StepInv, FollowsU, IsPrepared, IsCommitted, RecordIndex,
        LiveIndex, chipVars, durable
    <2>4. InstalledInv' /\ ExportedInv'
      BY <1>1 DEF Emit, InstalledInv, ExportedInv, IsCommitted, RecordIndex,
        durable
    <2> QED BY <2>2, <2>3, <2>4
  <1>2. CASE EmitRefused
    <2>1. /\ UNCHANGED <<h, slot_state, root, u, status, record, history>>
          /\ pc' = "idle" /\ staged' = Empty /\ reply' \in Replies
      BY <1>2 DEF EmitRefused, Refuse, Answer, Replies, durable, chipVars
    <2> QED BY <2>1, NothingStored, RecordFields DEF TypeOK, ChipTypeOK
  <1> QED BY <1>1, <1>2

(* finalize: its counter check makes the index of the record u, above      *)
(* everything installed.                                                   *)
LEMMA FinalizeKeepsIInv == ASSUME IInv, FinalizeStep PROVE IInv'
  <1> USE DEF IInv
  <1>1. CASE Finalize
    <2>1. /\ IsCommitted /\ record.committed /\ u = LiveIndex /\ u \in Nat
          /\ RecordIndex \in Nat /\ RecordIndex = u
          /\ record.release.transition \in Transitions
      BY <1>1, Arithmetic, RecordCases DEF Finalize, FinalizeCheck,
        CommittedInv, TypeOK, IsCommitted
    <2>2. ~IsCommitted' /\ ~IsPrepared'
      BY <1>1, RecordFields DEF Finalize, IsCommitted, IsPrepared
    <2>3. TypeOK'
      BY <1>1, <2>1, RecordFields, TransitionAssumption DEF Finalize, Answer,
        TypeOK, ChipTypeOK, PcValues, Replies, chipVars
    <2>4. PreparedInv' /\ CommittedInv' /\ CounterAccounted' /\ StepInv'
      BY <1>1, <2>1, <2>2, Arithmetic DEF Finalize, Answer, PreparedInv,
        CommittedInv, CounterAccounted, Accounted, StepInv, LiveIndex, chipVars
    <2>5. InstalledInv'
      BY <1>1, <2>1, <2>2, Arithmetic DEF Finalize, InstalledInv, RecordIndex
    <2>6. ExportedInv'
      BY <1>1 DEF Finalize, ExportedInv
    <2> QED BY <2>3, <2>4, <2>5, <2>6
  <1>2. CASE FinalizeRefused \/ FinalizeReadFails
    <2>1. /\ UNCHANGED <<h, slot_state, root, u, status, record, history>>
          /\ pc' = "idle" /\ staged' = Empty
      BY <1>2 DEF FinalizeRefused, FinalizeReadFails, Refuse, ChipReadFails,
        Answer, durable, chipVars
    <2>2. reply' \in Replies
      BY <1>2 DEF FinalizeRefused, FinalizeReadFails, Refuse, ChipReadFails,
        Answer, FinalizeCheck, Replies
    <2> QED BY <2>1, <2>2, NothingStored, RecordFields DEF TypeOK, ChipTypeOK
  <1> QED BY <1>1, <1>2 DEF FinalizeStep

(* cancel: between its steps the record is a prepared one.                 *)
LEMMA CancelKeepsIInv == ASSUME IInv, CancelStep PROVE IInv'
  <1> USE DEF IInv
  <1>1. CASE CancelErase
    <2>1. /\ IsPrepared /\ ~IsCommitted /\ FollowsU(record.txn)
          /\ record.txn \in Transitions /\ record.receiver_challenge \in Challenges
      BY <1>1, RecordCases DEF CancelErase, PreparedInv, TypeOK, IsPrepared,
        IsCommitted
    <2>2. /\ RecordTypeOK(record') /\ IsPrepared' /\ ~IsCommitted'
          /\ record'.txn = record.txn
      BY <1>1, <2>1, RecordFields DEF CancelErase, IsPrepared, IsCommitted
    <2>3. TypeOK'
      BY <1>1, <2>2, RecordFields DEF CancelErase, Continue, TypeOK,
        ChipTypeOK, PcValues, Replies, history, chipVars
    <2>4. PreparedInv' /\ CommittedInv' /\ CounterAccounted' /\ StepInv'
      BY <1>1, <2>1, <2>2 DEF CancelErase, Continue, PreparedInv, CommittedInv,
        CounterAccounted, Accounted, StepInv, FollowsU, LiveIndex, history,
        chipVars
    <2>5. InstalledInv' /\ ExportedInv'
      BY <1>1, <2>1, <2>2 DEF CancelErase, InstalledInv, ExportedInv, history
    <2> QED BY <2>3, <2>4, <2>5
  <1>2. CASE CancelStatus
    <2>1. IsPrepared /\ ~IsCommitted
      BY <1>2 DEF CancelStatus, StepInv, IsPrepared, IsCommitted
    <2>2. TypeOK'
      BY <1>2, RecordFields DEF CancelStatus, Continue, TypeOK, ChipTypeOK,
        PcValues, Replies, history, chipVars
    <2>3. PreparedInv' /\ CommittedInv' /\ CounterAccounted' /\ StepInv'
      BY <1>2, <2>1 DEF CancelStatus, Continue, PreparedInv, CommittedInv,
        CounterAccounted, Accounted, StepInv, FollowsU, IsPrepared,
        IsCommitted, RecordIndex, LiveIndex, history, chipVars
    <2>4. InstalledInv' /\ ExportedInv'
      BY <1>2 DEF CancelStatus, InstalledInv, ExportedInv, IsCommitted,
        RecordIndex, history
    <2> QED BY <2>2, <2>3, <2>4
  <1>3. CASE CancelStore
    <2>1. ~IsCommitted /\ ~IsCommitted' /\ ~IsPrepared'
      BY <1>3, RecordFields DEF CancelStore, StepInv, IsPrepared, IsCommitted
    <2>2. TypeOK'
      BY <1>3, RecordFields DEF CancelStore, Answer, TypeOK, ChipTypeOK,
        PcValues, Replies, history, chipVars
    <2>3. PreparedInv' /\ CommittedInv' /\ CounterAccounted' /\ StepInv'
      BY <1>3, <2>1 DEF CancelStore, Answer, PreparedInv, CommittedInv,
        CounterAccounted, Accounted, StepInv, LiveIndex, history, chipVars
    <2>4. InstalledInv' /\ ExportedInv'
      BY <1>3, <2>1 DEF CancelStore, InstalledInv, ExportedInv, history
    <2> QED BY <2>2, <2>3, <2>4
  <1>4. CASE CancelRefused
    <2>1. /\ UNCHANGED <<h, slot_state, root, u, status, record, history>>
          /\ pc' = "idle" /\ staged' = Empty /\ reply' \in Replies
      BY <1>4 DEF CancelRefused, Refuse, Answer, Replies, durable, chipVars
    <2> QED BY <2>1, NothingStored, RecordFields DEF TypeOK, ChipTypeOK
  <1> QED BY <1>1, <1>2, <1>3, <1>4 DEF CancelStep

(* recover: it completes the very record it found, and moves the counter   *)
(* only where that record still waits for it.                              *)
LEMMA RecoverKeepsIInv == ASSUME IInv, RecoverStep PROVE IInv'
  <1> USE DEF IInv
  <1>a. /\ u \in Nat /\ h \in Nat /\ LiveIndex \in Nat /\ LiveIndex <= H0
        /\ wasted \in Nat /\ H0 \in Nat
        /\ IsCommitted => RecordIndex \in Nat /\ record.committed \in BOOLEAN
    BY Arithmetic
  <1>b. "ReemitCommitted" \in Replies
    BY DEF Replies
  <1>1. CASE RecoverFaulty \/ RecoverStale \/ RecoverPrepared \/ RecoverRead
             \/ RecoverAhead
    <2>1. PICK outcome \in Replies : Recovered(outcome)
      BY <1>1 DEF RecoverFaulty, RecoverStale, RecoverPrepared, RecoverRead,
        RecoverAhead, Replies
    <2>2. /\ UNCHANGED <<h, slot_state, root, u, status, record, history>>
          /\ pc' = "idle" /\ staged' = Empty /\ reply' \in Replies
      BY <2>1 DEF Recovered, Answer, chipVars
    <2> QED BY <2>2, NothingStored, RecordFields DEF TypeOK, ChipTypeOK
  <1>2. CASE RecoverReemit
    BY <1>2, <1>b, IndexKeepsIInv DEF RecoverReemit, Reemittable, Candidate
  <1>3. CASE RecoverCountPending
    <2>1. IsCommitted /\ ~record.committed /\ LiveIndex = u
      BY <1>a, <1>3 DEF RecoverCountPending, CountPending, Candidate,
        CommittedInv
    <2>2. TypeOK'
      BY <1>3, RecordFields DEF RecoverCountPending, Continue, TypeOK,
        ChipTypeOK, PcValues, Replies, history, chipVars, durable
    <2>3. PreparedInv' /\ CommittedInv' /\ CounterAccounted' /\ StepInv'
      BY <1>a, <1>3, <2>1 DEF RecoverCountPending, Continue, PreparedInv,
        CommittedInv, CounterAccounted, Accounted, StepInv, FollowsU,
        IsPrepared, IsCommitted, RecordIndex, LiveIndex, history, chipVars,
        durable
    <2>4. InstalledInv' /\ ExportedInv'
      BY <1>3 DEF RecoverCountPending, InstalledInv, ExportedInv, IsCommitted,
        RecordIndex, history, durable
    <2> QED BY <2>2, <2>3, <2>4
  <1>4. CASE RecoverCount
    <2>1. TypeOK'
      BY <1>4, RecordFields, H0Assumption DEF RecoverCount, CounterUpdate,
        Continue, TypeOK, ChipTypeOK, PcValues, Replies, history, durable
    <2>2. PreparedInv' /\ CommittedInv' /\ CounterAccounted' /\ StepInv'
      BY <1>a, <1>4 DEF RecoverCount, CounterUpdate, Continue, PreparedInv,
        CommittedInv, CounterAccounted, Accounted, StepInv, FollowsU,
        IsPrepared, IsCommitted, RecordIndex, LiveIndex, history, durable
    <2>3. InstalledInv' /\ ExportedInv'
      BY <1>4 DEF RecoverCount, InstalledInv, ExportedInv, IsCommitted,
        RecordIndex, history, durable
    <2> QED BY <2>1, <2>2, <2>3
  <1>5. CASE RecoverCountFails
    <2>1. TypeOK'
      BY <1>5, RecordFields, H0Assumption DEF RecoverCountFails,
        CounterUpdateFails, CounterUpdate, Answer, TypeOK, ChipTypeOK,
        PcValues, Replies, history, durable
    <2>2. PreparedInv' /\ CommittedInv' /\ CounterAccounted' /\ StepInv'
      BY <1>a, <1>5 DEF RecoverCountFails, CounterUpdateFails, CounterUpdate,
        Answer, PreparedInv, CommittedInv, CounterAccounted, Accounted,
        StepInv, FollowsU, IsPrepared, IsCommitted, RecordIndex, LiveIndex,
        history, durable
    <2>3. InstalledInv' /\ ExportedInv'
      BY <1>5 DEF RecoverCountFails, InstalledInv, ExportedInv, IsCommitted,
        RecordIndex, history, durable
    <2> QED BY <2>1, <2>2, <2>3
  <1>6. CASE RecoverFlag
    <2>1. IsCommitted /\ ~record.committed /\ RecordIndex <= LiveIndex
      BY <1>a, <1>6 DEF RecoverFlag, FlagLost, Candidate, StepInv
    <2> QED BY <1>6, <2>1, FlagKeepsIInv DEF RecoverFlag
  <1>7. CASE RecoverIndex
    BY <1>7, <1>b, IndexKeepsIInv DEF RecoverIndex, StepInv
  <1>8. CASE RecoverReady
    <2>1. /\ UNCHANGED <<h, slot_state, root, u, status, record, history>>
          /\ pc' = "recover_read" /\ staged' = Empty /\ reply' \in Replies
      BY <1>8 DEF RecoverReady, Continue, Replies, durable, chipVars
    <2> QED BY <2>1, NothingStored, RecordFields DEF TypeOK, ChipTypeOK
  <1> QED BY <1>1, <1>2, <1>3, <1>4, <1>5, <1>6, <1>7, <1>8 DEF RecoverStep

(* The environment: an outage loses only what is volatile, a foreign       *)
(* counter move is paid by wasted, an online advance moves only the root.  *)
LEMMA EnvironmentKeepsIInv == ASSUME IInv, EnvironmentStep PROVE IInv'
  <1> USE DEF IInv
  <1>1. CASE PowerLoss
    <2>1. /\ UNCHANGED <<h, slot_state, root, u, status, record, history>>
          /\ pc' = "boot" /\ staged' = Empty /\ reply' \in Replies
      BY <1>1 DEF PowerLoss, Replies, durable, chipVars
    <2> QED BY <2>1, NothingStored, RecordFields DEF TypeOK, ChipTypeOK
  <1>2. CASE CounterWaste
    <2>1. TypeOK'
      BY <1>2, H0Assumption, MaxWasteAssumption DEF CounterWaste,
        CounterUpdate, TypeOK, ChipTypeOK, durable, volatile
    <2>2. PreparedInv' /\ CommittedInv' /\ CounterAccounted' /\ StepInv'
      BY <1>2, Arithmetic DEF CounterWaste, CounterUpdate, PreparedInv,
        CommittedInv, CounterAccounted, Accounted, StepInv, FollowsU,
        IsPrepared, IsCommitted, RecordIndex, LiveIndex, durable, volatile
    <2>3. InstalledInv' /\ ExportedInv'
      BY <1>2 DEF CounterWaste, InstalledInv, ExportedInv, IsCommitted,
        RecordIndex, durable
    <2> QED BY <2>1, <2>2, <2>3
  <1>3. ASSUME NEW r \in OnlineRoots, OnlineAdvance(r) PROVE IInv'
    <2>1. /\ UNCHANGED <<h, slot_state, u, status, record, history>>
          /\ pc' \in {"boot", "idle"} /\ RecordTypeOK(staged')
          /\ reply' \in Replies /\ root' \in Roots
      BY <1>3, RootAssumption DEF OnlineAdvance, TypeOK, volatile, chipVars
    <2> QED BY <2>1, NothingStored DEF TypeOK, ChipTypeOK
  <1> QED BY <1>1, <1>2, <1>3 DEF EnvironmentStep

(* One step of the appliance keeps the candidate and its mark, or installs *)
(* it.                                                                     *)
LEMMA CandidateStep ==
  ASSUME IInv, [Next]_vars, IsCommitted
  PROVE  \/ /\ IsCommitted' /\ record'.release = record.release
            /\ record.committed => record'.committed
         \/ record.release \in installed'
  <1> SUFFICES ASSUME Next, record' # record
               PROVE  \/ /\ IsCommitted' /\ record'.release = record.release
                         /\ record.committed => record'.committed
                      \/ record.release \in installed'
    BY DEF vars, durable, IsCommitted
  <1>1. CASE Finalize
    BY <1>1 DEF Finalize
  <1>2. CASE CommitFlag \/ RecoverFlag
    <2>1. record' = Committed(record.release, TRUE)
      BY <1>2 DEF CommitFlag, RecoverFlag
    <2>2. record'.kind = "Committed" /\ record'.release = record.release
          /\ record'.committed
      BY <2>1, RecordFields
    <2> QED BY <2>2 DEF IsCommitted
  <1>3. CASE PrepareStore \/ CommitSign \/ CommitStore \/ CancelErase
               \/ CancelStore
    BY <1>3 DEF IInv, StepInv, IsCommitted, IsPrepared, PrepareStore,
      CommitSign, CommitCheck, CommitStore, CancelErase, CancelStore
  <1>4. CASE \/ \E t \in Transitions, rc \in Challenges : PrepareBegin(t, rc)
             \/ \E t \in Transitions : \/ PrepareRefused(t)
                                       \/ PrepareReadFails(t)
                                       \/ PrepareWitnessFails(t)
             \/ CommitStatus \/ CommitCount \/ CommitCountFails
             \/ CommitIndex \/ CommitRefused \/ CommitReadFails
             \/ Emit \/ EmitRefused \/ FinalizeRefused \/ FinalizeReadFails
             \/ CancelStatus \/ CancelRefused
    BY <1>4 DEF PrepareBegin, PrepareRefused, PrepareReadFails,
      PrepareWitnessFails, CommitStatus, CommitCount, CommitCountFails,
      CommitIndex, CommitRefused, CommitReadFails, Emit, EmitRefused,
      FinalizeRefused, FinalizeReadFails, CancelStatus, CancelRefused,
      Refuse, ChipReadFails, durable
  <1>5. CASE RecoverFaulty \/ RecoverReemit \/ RecoverCountPending
               \/ RecoverCount \/ RecoverCountFails \/ RecoverIndex
               \/ RecoverStale \/ RecoverPrepared \/ RecoverReady
               \/ RecoverRead \/ RecoverAhead \/ EnvironmentStep
    BY <1>5 DEF RecoverFaulty, RecoverReemit, RecoverCountPending,
      RecoverCount, RecoverCountFails, RecoverIndex, RecoverStale,
      RecoverPrepared, RecoverReady, RecoverRead, RecoverAhead, Recovered,
      EnvironmentStep, PowerLoss, CounterWaste, OnlineAdvance, durable
  <1> QED BY <1>1, <1>2, <1>3, <1>4, <1>5 DEF Next, PrepareStep,
    CommitStep, FinalizeStep, CancelStep, RecoverStep

(* What was installed stays installed.                                     *)
LEMMA InstalledGrows == ASSUME [Next]_vars PROVE installed \subseteq installed'
  BY DEF Next, PrepareStep, PrepareBegin, PrepareStore, PrepareRefused,
    PrepareReadFails, PrepareWitnessFails, CommitStep, CommitSign, CommitStatus,
    CommitStore, CommitCount, CommitCountFails, CommitFlag, CommitIndex,
    CommitRefused, CommitReadFails, Emit, EmitRefused, FinalizeStep, Finalize,
    FinalizeRefused, FinalizeReadFails, CancelStep, CancelErase, CancelStatus,
    CancelStore, CancelRefused, RecoverStep, RecoverFaulty, RecoverReemit,
    RecoverCountPending, RecoverCount, RecoverCountFails, RecoverFlag,
    RecoverIndex, RecoverStale, RecoverPrepared, RecoverReady, RecoverRead,
    RecoverAhead, Recovered, EnvironmentStep, PowerLoss, CounterWaste,
    OnlineAdvance, Refuse, ChipReadFails, history, vars

(* What was exported stays exported.                                       *)
LEMMA ExportedGrows == ASSUME [Next]_vars PROVE exported \subseteq exported'
  BY DEF Next, PrepareStep, PrepareBegin, PrepareStore, PrepareRefused,
    PrepareReadFails, PrepareWitnessFails, CommitStep, CommitSign, CommitStatus,
    CommitStore, CommitCount, CommitCountFails, CommitFlag, CommitIndex,
    CommitRefused, CommitReadFails, Emit, EmitRefused, FinalizeStep, Finalize,
    FinalizeRefused, FinalizeReadFails, CancelStep, CancelErase, CancelStatus,
    CancelStore, CancelRefused, RecoverStep, RecoverFaulty, RecoverReemit,
    RecoverCountPending, RecoverCount, RecoverCountFails, RecoverFlag,
    RecoverIndex, RecoverStale, RecoverPrepared, RecoverReady, RecoverRead,
    RecoverAhead, Recovered, EnvironmentStep, PowerLoss, CounterWaste,
    OnlineAdvance, Refuse, ChipReadFails, history, vars

(* What commit signs verifies: the signature is over the message a         *)
(* receiver recomputes, whatever the key.                                  *)
LEMMA SignedVerifies ==
  ASSUME NEW t \in Transitions, FollowsU(t), NEW rc, NEW k
  PROVE  Verifiable(SignedRelease(t, rc, k))
  <1> DEFINE d == transition_digest(t)
             x == witness_input(t, d, AnchorId, Slot, rc)
             pk == keygen_pk(k[2])
             m == cert_message(t, d, x, pk_hash(pk), AnchorId, Slot, rc)
             ev == CounterEvidence(AnchorId, H0, h - 1, t.next_anchor_counter)
             cert == Certificate(t, d, x, pk_hash(pk), pk, sign(k, m), AnchorId,
                                 Slot, rc)
             r == OfflineRelease(t, cert, ev)
  <1>1. SignedRelease(t, rc, k) = r
    BY DEF SignedRelease
  <1>2. r.transition = t /\ r.cert = cert /\ r.counter = ev
    BY DEF OfflineRelease
  <1>3. /\ cert.transition_digest = d /\ cert.witness_input = x
        /\ cert.pk_hash = pk_hash(pk) /\ cert.pk_hw = pk
        /\ cert.sigma = sign(k, m) /\ cert.receiver_challenge = rc
    BY DEF Certificate
  <1> HIDE DEF cert, r, d, x
  <1>4. r.cert = Recomputed(r)
    BY <1>2, <1>3 DEF Recomputed, cert, d, x
  <1>5. verify(r.cert.pk_hw, MessageOf(r), r.cert.sigma)
    BY <1>2, <1>3 DEF verify, MessageOf, keygen_pk, sign
  <1>6. ev.anchor_id = AnchorId
    BY DEF CounterEvidence
  <1>7. t.next_anchor_counter = t.anchor_counter + 1
    BY DEF FollowsU
  <1>8. r = OfflineRelease(r.transition, r.cert, r.counter)
    BY <1>2 DEF r
  <1> QED BY <1>1, <1>2, <1>4, <1>5, <1>6, <1>7, <1>8 DEF Verifiable

(* Every step keeps what verifies.                                         *)
LEMMA VerifyKept ==
  ASSUME IInv, ReleasesVerify, [Next]_vars
  PROVE  ReleasesVerify'
  <1>1. CASE CommitSign
    <2>1. /\ record.txn \in Transitions /\ FollowsU(record.txn)
      BY <1>1, RecordCases DEF CommitSign, CommitCheck, IsPrepared, IInv,
        TypeOK, PreparedInv
    <2>2. staged'.release = SignedRelease(record.txn,
                              record.receiver_challenge, record.sk_hw)
      BY <1>1, RecordFields DEF CommitSign, Continue
    <2>3. ~IsCommitted'
      BY <1>1 DEF CommitSign, Prepared, IsCommitted
    <2> QED BY <1>1, <2>1, <2>2, <2>3, SignedVerifies DEF CommitSign,
      ReleasesVerify, history
  <1>2. CASE CommitStore
    BY <1>2, RecordFields DEF CommitStore, Continue, IInv, StepInv,
      ReleasesVerify, IsCommitted, history
  <1>3. CASE Emit
    BY <1>3, RecordFields DEF Emit, Answer, ReleasesVerify, IsCommitted, durable
  <1>4. CASE CommitFlag \/ RecoverFlag
    <2>1. /\ record' = Committed(record.release, TRUE) /\ IsCommitted
          /\ staged' = Empty /\ exported' = exported
      BY <1>4 DEF CommitFlag, RecoverFlag, Continue, IInv, StepInv, FlagLost,
        Candidate, history
    <2> QED BY <2>1, RecordFields DEF ReleasesVerify
  <1>5. CASE PrepareStore \/ Finalize \/ CancelErase \/ CancelStore
    <2>1. ~IsCommitted' /\ staged' = Empty /\ exported' = exported
      BY <1>5, RecordFields DEF PrepareStore, Finalize, CancelErase,
        CancelStore, Answer, Continue, IInv, StepInv, IsCommitted, Prepared,
        history
    <2> QED BY <2>1, RecordFields DEF ReleasesVerify
  <1>6. ASSUME NEW t \in Transitions, NEW rc \in Challenges, PrepareBegin(t, rc)
        PROVE  ReleasesVerify'
    BY <1>6, RecordFields DEF PrepareBegin, Continue, ReleasesVerify,
      IsCommitted, history
  <1>7. CASE \/ \E t \in Transitions : \/ PrepareRefused(t)
                                       \/ PrepareReadFails(t)
                                       \/ PrepareWitnessFails(t)
             \/ CommitStatus \/ CommitCount \/ CommitCountFails
             \/ CommitIndex \/ CommitRefused \/ CommitReadFails
             \/ EmitRefused \/ FinalizeRefused \/ FinalizeReadFails
             \/ CancelStatus \/ CancelRefused
    <2>1. /\ record' = record /\ exported' = exported
          /\ staged' = Empty \/ staged' = staged
      BY <1>7 DEF PrepareRefused, PrepareReadFails, PrepareWitnessFails,
        CommitStatus, CommitCount, CommitCountFails, CommitIndex, CommitRefused,
        CommitReadFails, EmitRefused, FinalizeRefused, FinalizeReadFails,
        CancelStatus, CancelRefused, Refuse, ChipReadFails, Answer, Continue,
        durable, history
    <2> QED BY <2>1, RecordFields DEF ReleasesVerify, IsCommitted
  <1>8. CASE RecoverFaulty \/ RecoverReemit \/ RecoverCountPending
               \/ RecoverCount \/ RecoverCountFails \/ RecoverIndex
               \/ RecoverStale \/ RecoverPrepared \/ RecoverReady
               \/ RecoverRead \/ RecoverAhead \/ EnvironmentStep
               \/ UNCHANGED vars
    <2>1. /\ record' = record /\ exported' = exported
          /\ staged' = Empty \/ staged' = staged
      BY <1>8 DEF RecoverFaulty, RecoverReemit, RecoverCountPending,
        RecoverCount, RecoverCountFails, RecoverIndex, RecoverStale,
        RecoverPrepared, RecoverReady, RecoverRead, RecoverAhead, Recovered,
        EnvironmentStep, PowerLoss, CounterWaste, OnlineAdvance, Answer,
        Continue, durable, history, volatile, vars
    <2> QED BY <2>1, RecordFields DEF ReleasesVerify, IsCommitted
  <1> QED BY <1>1, <1>2, <1>3, <1>4, <1>5, <1>6, <1>7, <1>8 DEF Next,
    PrepareStep, CommitStep, FinalizeStep, CancelStep, RecoverStep

-----------------------------------------------------------------------------
(* The theorems.                                                           *)

(* Every step keeps the inductive invariant.                               *)
LEMMA StepKeepsIInv == ASSUME IInv, [Next]_vars PROVE IInv'
  <1>1. CASE UNCHANGED vars
    BY <1>1 DEF vars, chipVars, durable, volatile, history, IInv, TypeOK,
      ChipTypeOK, PreparedInv, CommittedInv, StepInv, CounterAccounted,
      Accounted, InstalledInv, ExportedInv, FollowsU, IsPrepared,
      IsCommitted, RecordIndex, LiveIndex
  <1> QED BY <1>1, PrepareKeepsIInv, CommitKeepsIInv, EmitKeepsIInv,
    FinalizeKeepsIInv, CancelKeepsIInv, RecoverKeepsIInv,
    EnvironmentKeepsIInv DEF Next

(* The inductive invariant holds in every reachable state.                 *)
THEOREM Inductive == Spec => []IInv
  <1>1. Init => IInv
    <2> SUFFICES ASSUME Init PROVE IInv
      OBVIOUS
    <2>1. TypeOK
      BY RecordFields, RootAssumption, H0Assumption, MaxWitnessAssumption,
        MaxWasteAssumption
      DEF Init, ChipInit, TypeOK, ChipTypeOK, PcValues, Replies
    <2>2. PreparedInv /\ CommittedInv /\ StepInv /\ CounterAccounted
      BY RecordFields, H0Assumption DEF Init, ChipInit, PreparedInv,
        CommittedInv, StepInv, CounterAccounted, Accounted, IsPrepared,
        IsCommitted, LiveIndex
    <2>3. InstalledInv /\ ExportedInv
      BY DEF Init, InstalledInv, ExportedInv
    <2> QED BY <2>1, <2>2, <2>3 DEF IInv
  <1> QED BY <1>1, StepKeepsIInv, PTL DEF Spec

(* Every variable keeps its type.                                          *)
THEOREM TypeCorrect == Spec => []TypeOK
  <1>1. IInv => TypeOK
    BY DEF IInv
  <1> QED BY <1>1, Inductive, PTL

(* The counter moves once per committed record, whatever is interrupted,   *)
(* retried or recovered in between.                                        *)
THEOREM CounterIsAccounted == Spec => []CounterAccounted
  <1>1. IInv => CounterAccounted
    BY DEF IInv
  <1> QED BY <1>1, Inductive, PTL

(* Nothing is exported before the counter has moved for it.                *)
THEOREM NothingExportedEarly == Spec => []ExportedAfterCount
  <1>1. IInv => ExportedAfterCount
    <2> SUFFICES ASSUME IInv, NEW r \in exported
                 PROVE  IndexOfRelease(r) <= LiveIndex
      BY DEF ExportedAfterCount
    <2>1. u \in Nat /\ LiveIndex \in Nat /\ IndexOfRelease(r) \in Nat
          /\ u <= LiveIndex
      BY Arithmetic DEF IInv, CounterAccounted
    <2>2. CASE r \in installed
      BY <2>1, <2>2 DEF IInv, InstalledInv
    <2>3. CASE IsCommitted /\ record.committed /\ r = record.release
      BY <2>3 DEF IInv, CommittedInv, RecordIndex
    <2> QED BY <2>2, <2>3 DEF IInv, ExportedInv
  <1> QED BY <1>1, Inductive, PTL

(* The candidate's index is above the installed ones.                      *)
LEMMA OneReleaseByIInv == IInv => OneReleasePerIndex
  <1> SUFFICES ASSUME IInv, NEW r \in exported \cup installed,
                      NEW s \in exported \cup installed,
                      IndexOfRelease(r) = IndexOfRelease(s)
               PROVE  r = s
    BY DEF OneReleasePerIndex
  <1>1. \A x \in exported \cup installed :
          \/ x \in installed
          \/ IsCommitted /\ x = record.release
    BY DEF IInv, ExportedInv
  <1>2. \A x \in installed : IsCommitted =>
          IndexOfRelease(x) \in Nat /\ RecordIndex \in Nat
            /\ IndexOfRelease(x) < RecordIndex
    BY Arithmetic DEF IInv, InstalledInv
  <1>3. CASE r \in installed /\ s \in installed
    BY <1>3 DEF IInv, InstalledInv
  <1> QED BY <1>1, <1>2, <1>3 DEF RecordIndex

(* No index, hence no parent, is ever spent by two releases.               *)
THEOREM NoIndexSpentTwice == Spec => []OneReleasePerIndex
  <1> QED BY OneReleaseByIInv, Inductive, PTL

(* What left the appliance is installed or still its candidate.            *)
THEOREM NothingExportedIsForgotten == Spec => []ExportedNotAbandoned
  <1>1. IInv => ExportedNotAbandoned
    BY DEF IInv, ExportedInv, ExportedNotAbandoned
  <1> QED BY <1>1, Inductive, PTL

(* No counter move is ever spent on a release that does not verify.        *)
THEOREM EveryReleaseVerifies == Spec => []ReleasesVerify
  <1>1. Init => ReleasesVerify
    BY RecordFields DEF Init, ReleasesVerify, IsCommitted
  <1> QED BY <1>1, VerifyKept, Inductive, PTL DEF Spec

(* A candidate leaves the record only by being installed: an action        *)
(* property, from the invariant before the step.                           *)
THEOREM CandidateNeverReplaced == Spec => CandidateStable
  <1> DEFINE Kept == IsCommitted' /\ record'.release = record.release
             Stable == IsCommitted => Kept \/ record.release \in installed'
  <1>1. IInv /\ [Next]_vars => [Stable]_vars
    BY CandidateStep
  <1>2. CandidateStable <=> [][Stable]_vars
    BY PTL DEF CandidateStable
  <1> QED BY <1>1, <1>2, Inductive, PTL DEF Spec

-----------------------------------------------------------------------------
(* What recover promises.  The key and the index of a prepared record do   *)
(* not depend on the root, which the owner may move; between its two reads *)
(* of the counter recover relies on the first.                             *)
Promises == {"Accept", "ReemitCommitted", "AcceptPreparedCanComplete",
             "OnlineCancelOrResolve"}
RecoveryInv ==
  wasted = 0 =>
    /\ pc = "recover_read" => status = "Ready" /\ u = LiveIndex
    /\ reply = "Accept" => status = "Ready" /\ u = LiveIndex /\ h > 0
    /\ reply = "ReemitCommitted" =>
         IsCommitted /\ record.committed /\ u = LiveIndex
    /\ reply = "AcceptPreparedCanComplete" =>
         /\ IsPrepared /\ record.sk_hw # NoKey
         /\ record.txn.anchor_counter = LiveIndex
    /\ reply = "OnlineCancelOrResolve" => IsPrepared

(* No operation but recover answers with a promise.                        *)
LEMMA OtherAnswers ==
  ASSUME PrepareStep \/ CommitStep \/ Emit \/ EmitRefused \/ FinalizeStep
           \/ CancelStep \/ PowerLoss
  PROVE  reply' \notin Promises /\ pc' # "recover_read"
  <1>1. CASE PrepareStep
    BY <1>1 DEF PrepareStep, PrepareBegin, PrepareStore, PrepareRefused,
      PrepareReadFails, PrepareWitnessFails, PrepareCheck, Refuse,
      ChipReadFails, Answer, Continue, Promises
  <1>2. CASE CommitStep
    BY <1>2 DEF CommitStep, CommitSign, CommitStatus, CommitStore, CommitCount,
      CommitCountFails, CommitFlag, CommitIndex, CommitRefused,
      CommitReadFails, CommitCheck, Refuse, ChipReadFails, Answer, Continue,
      Promises
  <1>3. CASE Emit \/ EmitRefused \/ FinalizeStep
    BY <1>3 DEF Emit, EmitRefused, FinalizeStep, Finalize, FinalizeRefused,
      FinalizeReadFails, FinalizeCheck, Refuse, ChipReadFails, Answer, Promises
  <1>4. CASE CancelStep \/ PowerLoss
    BY <1>4 DEF CancelStep, CancelErase, CancelStatus, CancelStore,
      CancelRefused, PowerLoss, Refuse, Answer, Continue, Promises
  <1> QED BY <1>1, <1>2, <1>3, <1>4

(* What recover answers is so when nobody else has moved the counter.      *)
LEMMA RecoverPromises ==
  ASSUME IInv, RecoveryInv, RecoverStep, wasted' = 0
  PROVE  RecoveryInv'
  <1>0. wasted = 0
    BY DEF RecoverStep, RecoverFaulty, RecoverReemit, RecoverCountPending,
      RecoverCount, RecoverCountFails, RecoverFlag, RecoverIndex,
      RecoverStale, RecoverPrepared, RecoverReady, RecoverRead, RecoverAhead,
      Recovered, history
  <1>1. CASE RecoverFaulty \/ RecoverCountPending \/ RecoverCount
               \/ RecoverCountFails \/ RecoverFlag \/ RecoverStale
               \/ RecoverAhead
    <2>1. reply' \notin Promises /\ pc' # "recover_read"
      BY <1>1 DEF RecoverFaulty, RecoverCountPending, RecoverCount,
        RecoverCountFails, RecoverFlag, RecoverStale, RecoverAhead,
        Recovered, Answer, Continue, Promises
    <2> QED BY <2>1 DEF RecoveryInv, Promises
  <1>2. CASE RecoverReemit
    BY <1>2 DEF RecoverReemit, Reemittable, Candidate, IsCommitted, LiveIndex,
      chipVars, Answer, RecoveryInv
  <1>3. CASE RecoverIndex
    <2>1. IsCommitted /\ record.committed
      BY <1>3 DEF RecoverIndex, IInv, StepInv
    <2>2. RecordIndex = LiveIndex
      BY <1>0, <2>1, Arithmetic DEF IInv, CommittedInv, CounterAccounted, Accounted
    <2> QED BY <1>3, <2>1, <2>2 DEF RecoverIndex, IsCommitted, LiveIndex,
      chipVars, Answer, RecoveryInv
  <1>4. CASE RecoverPrepared
    <2>1. /\ UNCHANGED <<h, u, status, record>> /\ pc' = "idle"
          /\ reply' = "AcceptPreparedCanComplete" =>
               IsPrepared /\ u = LiveIndex /\ record.sk_hw # NoKey
          /\ reply' = "OnlineCancelOrResolve" => IsPrepared
          /\ reply' \notin {"Accept", "ReemitCommitted"}
      BY <1>4 DEF RecoverPrepared, Recovered, Answer, chipVars
    <2>2. IsPrepared => record.txn.anchor_counter = u
      BY DEF IInv, PreparedInv, FollowsU
    <2> QED BY <2>1, <2>2 DEF RecoveryInv, IsPrepared, LiveIndex
  <1>5. CASE RecoverReady
    BY <1>5 DEF RecoverReady, Continue, RecoveryInv, LiveIndex, chipVars,
      durable
  <1>6. CASE RecoverRead
    <2>1. h \in Nat /\ status = "Ready" /\ u = LiveIndex
      BY <1>0, <1>6, Arithmetic DEF RecoverRead, RecoveryInv, IInv
    <2> QED BY <1>6, <2>1 DEF RecoverRead, Recovered, Answer, chipVars,
      RecoveryInv, LiveIndex
  <1> QED BY <1>1, <1>2, <1>3, <1>4, <1>5, <1>6 DEF RecoverStep

(* Every step keeps what recover promised: the next operation answers      *)
(* something else, and only a counter move by others breaks a promise.     *)
LEMMA StepKeepsPromises ==
  ASSUME IInv, RecoveryInv, [Next]_vars
  PROVE  RecoveryInv'
  <1>1. CASE PrepareStep \/ CommitStep \/ Emit \/ EmitRefused
               \/ FinalizeStep \/ CancelStep \/ PowerLoss
    BY <1>1, OtherAnswers DEF RecoveryInv, Promises
  <1>2. CASE RecoverStep
    <2>1. wasted' # 0 => RecoveryInv'
      BY DEF RecoveryInv
    <2> QED BY <1>2, <2>1, RecoverPromises
  <1>3. CASE CounterWaste
    <2>1. wasted' # 0
      BY <1>3, Arithmetic DEF CounterWaste, IInv
    <2> QED BY <2>1 DEF RecoveryInv
  <1>4. CASE (\E r \in OnlineRoots : OnlineAdvance(r)) \/ UNCHANGED vars
    <2>1. UNCHANGED <<h, u, status, record, pc, reply, wasted>>
      BY <1>4 DEF OnlineAdvance, vars, chipVars, durable, volatile, history
    <2> QED BY <2>1 DEF RecoveryInv, IsPrepared, IsCommitted, LiveIndex
  <1> QED BY <1>1, <1>2, <1>3, <1>4 DEF Next, EnvironmentStep

(* The promises are enough for the operations they are about.              *)
LEMMA PromisesHonoured == IInv /\ RecoveryInv => RecoveryHonoured
  BY DEF RecoveryInv, RecoveryHonoured, FinalizeCheck, CommitCheck

(* An answer of recover is kept: after ReemitCommitted the candidate can   *)
(* be finalized, after AcceptPreparedCanComplete a record with its key at  *)
(* its index waits for commit, after Accept the appliance can prepare.     *)
THEOREM RecoverKeepsItsPromises == Spec => []RecoveryHonoured
  <1>1. Init => RecoveryInv
    BY DEF Init, RecoveryInv
  <1> QED BY <1>1, StepKeepsPromises, PromisesHonoured, Inductive, PTL DEF Spec

-----------------------------------------------------------------------------
(* What is installed has no gaps.                                          *)

(* The index of the last installed release.                                *)
Tip == IF IsCommitted THEN RecordIndex - 1 ELSE u

(* Every index up to the tip is installed.                                 *)
Gapless == \A i \in 1..Tip : \E r \in installed : IndexOfRelease(r) = i

(* Marking the candidate leaves its release.                               *)
LEMMA FlagKeepsRelease ==
  ASSUME IInv, CommitFlag \/ RecoverFlag
  PROVE  /\ IsCommitted /\ IsCommitted' /\ staged' = Empty
         /\ record'.release = record.release
         /\ UNCHANGED <<root, installed>>
  <1>1. IsCommitted
    BY DEF IInv, StepInv, CommitFlag, RecoverFlag, FlagLost, Candidate
  <1>2. /\ record' = Committed(record.release, TRUE) /\ staged' = Empty
        /\ UNCHANGED <<root, installed>>
    BY DEF CommitFlag, RecoverFlag, Continue, history
  <1>3. record'.kind = "Committed" /\ record'.release = record.release
    BY <1>2 DEF Committed
  <1> QED BY <1>1, <1>2, <1>3 DEF IsCommitted

(* No step but Finalize moves the tip or what is installed, and none but   *)
(* an online advance the root.                                             *)
LEMMA TipKept ==
  ASSUME IInv, [Next]_vars, ~Finalize
  PROVE  /\ installed' = installed /\ Tip' = Tip
         /\ OnlineRoots = {} => root' = root
  <1> USE DEF IInv
  <1>1. CASE \/ \E t \in Transitions, rc \in Challenges : PrepareBegin(t, rc)
             \/ \E t \in Transitions : \/ PrepareRefused(t)
                                       \/ PrepareReadFails(t)
                                       \/ PrepareWitnessFails(t)
             \/ CommitStatus \/ CommitCount \/ CommitCountFails
             \/ CommitRefused \/ CommitReadFails \/ Emit \/ EmitRefused
             \/ FinalizeRefused \/ FinalizeReadFails
             \/ CancelStatus \/ CancelRefused
             \/ EnvironmentStep \/ UNCHANGED vars
    <2>1. UNCHANGED <<installed, u, record>> /\ (OnlineRoots = {} => root' = root)
      BY <1>1 DEF PrepareBegin, PrepareRefused, PrepareReadFails,
        PrepareWitnessFails, CommitStatus, CommitCount, CommitCountFails,
        CommitRefused, CommitReadFails, Emit, EmitRefused, FinalizeRefused,
        FinalizeReadFails, CancelStatus, CancelRefused, EnvironmentStep,
        PowerLoss, CounterWaste, OnlineAdvance, Refuse, ChipReadFails,
        vars, durable, history
    <2> QED BY <2>1 DEF Tip, IsCommitted, RecordIndex
  <1>2. CASE PrepareStore \/ CommitSign \/ CancelErase \/ CancelStore
    <2>1. ~IsCommitted /\ UNCHANGED <<root, installed, u>>
      BY <1>2 DEF PrepareStore, CommitSign, CommitCheck, CancelErase,
        CancelStore, StepInv, IsPrepared, IsCommitted, history
    <2>2. record'.kind \in {"Prepared", "Empty"}
      <3>1. /\ Prepared(record.txn, record.receiver_challenge, NoKey).kind
                 = "Prepared"
            /\ Empty.kind = "Empty"
        BY DEF Prepared, Empty
      <3>2. CASE PrepareStore
        BY <3>2 DEF PrepareStore, StepInv
      <3>3. CASE CommitSign \/ CancelErase \/ CancelStore
        BY <3>1, <3>3 DEF CommitSign, CancelErase, CancelStore
      <3> QED BY <1>2, <3>2, <3>3
    <2> QED BY <2>1, <2>2 DEF Tip, IsCommitted
  <1>3. CASE CommitStore
    <2>1. /\ ~IsCommitted /\ IsCommitted' /\ RecordIndex' = u + 1
          /\ UNCHANGED <<root, installed, u>>
      BY <1>3 DEF CommitStore, StepInv, IsPrepared, IsCommitted, RecordIndex,
        history
    <2> QED BY <2>1, Arithmetic DEF Tip
  <1>4. CASE CommitFlag \/ RecoverFlag
    BY <1>4, FlagKeepsRelease DEF Tip, RecordIndex
  <1>5. CASE CommitIndex \/ RecoverIndex \/ RecoverReemit
    <2>1. IsCommitted /\ UNCHANGED <<root, installed, record>>
      BY <1>5 DEF CommitIndex, RecoverIndex, RecoverReemit, Reemittable,
        Candidate, StepInv, history
    <2> QED BY <2>1 DEF Tip, IsCommitted, RecordIndex
  <1>6. CASE \/ RecoverFaulty \/ RecoverCountPending \/ RecoverCount
             \/ RecoverCountFails \/ RecoverStale \/ RecoverPrepared
             \/ RecoverReady \/ RecoverRead \/ RecoverAhead
    <2>1. UNCHANGED <<root, installed, u, record>>
      BY <1>6 DEF RecoverFaulty, RecoverCountPending, RecoverCount,
        RecoverCountFails, RecoverStale, RecoverPrepared, RecoverReady,
        RecoverRead, RecoverAhead, Recovered, durable, history
    <2> QED BY <2>1 DEF Tip, IsCommitted, RecordIndex
  <1> QED BY <1>1, <1>2, <1>3, <1>4, <1>5, <1>6 DEF Next, PrepareStep,
    CommitStep, FinalizeStep, CancelStep, RecoverStep

(* Finalize closes the gap between the tip and the index.                  *)
LEMMA GaplessKept ==
  ASSUME IInv, Gapless, [Next]_vars
  PROVE  Gapless'
  <1>1. CASE ~Finalize
    BY <1>1, TipKept DEF Gapless
  <1>2. CASE Finalize
    <2>1. /\ IsCommitted /\ record.committed /\ u = LiveIndex
          /\ installed' = installed \cup {record.release}
          /\ ~IsCommitted' /\ u' = u
      BY <1>2, RecordFields DEF Finalize, FinalizeCheck, IsCommitted
    <2>2. RecordIndex = u /\ u \in Nat /\ Tip = u - 1 /\ Tip' = u
      BY <2>1, Arithmetic DEF IInv, CommittedInv, Tip
    <2>3. ASSUME NEW i \in 1..u
          PROVE  \E r \in installed' : IndexOfRelease(r) = i
      <3>1. CASE i = u
        BY <2>1, <2>2, <3>1 DEF RecordIndex
      <3>2. CASE i \in 1..(u - 1)
        BY <2>1, <2>2, <3>2 DEF Gapless
      <3> QED BY <2>2, <3>1, <3>2
    <2> QED BY <2>2, <2>3 DEF Gapless
  <1> QED BY <1>1, <1>2

LEMMA InstalledWithoutGaps == Spec => []Gapless
  <1>1. Init => Gapless
    BY RecordFields DEF Init, Gapless, Tip, IsCommitted
  <1> QED BY <1>1, GaplessKept, Inductive, PTL DEF Spec

(* So every index the counter has passed is spent on a release of the      *)
(* appliance, installed or the candidate, unless others moved the counter. *)
LEMMA PassedIsSpent ==
  ASSUME IInv, Gapless, wasted = 0, NEW i \in Nat, 1 <= i, i <= LiveIndex
  PROVE  \/ \E r \in installed : IndexOfRelease(r) = i
         \/ IsCommitted /\ RecordIndex = i
  <1>1. i <= Accounted
    BY Arithmetic DEF IInv, CounterAccounted, Accounted
  <1>2. CASE ~IsCommitted
    BY <1>1, <1>2, Arithmetic DEF IInv, Accounted, Tip, Gapless
  <1>3. CASE IsCommitted
    <2>1. i = RecordIndex \/ i \in 1..Tip
      BY <1>1, <1>3, Arithmetic DEF IInv, Accounted, Tip
    <2> QED BY <1>3, <2>1 DEF Gapless
  <1> QED BY <1>2, <1>3
=============================================================================
