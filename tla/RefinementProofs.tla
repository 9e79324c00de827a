-------------------------- MODULE RefinementProofs --------------------------
(***************************************************************************)
(* The chain of roots an appliance installs.  Without online advances the  *)
(* installed releases are one chain from Genesis to the active root, one   *)
(* per index, whatever is cancelled, interrupted and recovered and         *)
(* whatever others do to the counter.  And the appliance implements        *)
(* RootAuthority for every counter and every set of transitions when       *)
(* nobody else moves its counter (MaxWaste = 0).                           *)
(***************************************************************************)
EXTENDS ApplianceRefinement, ApplianceProofs, SequenceTheorems

(* Everything on its way to being installed starts at the active root.     *)
FromRoot ==
  /\ IsPrepared => record.txn.prev_root = root
  /\ IsCommitted => record.release.transition.prev_root = root /\ RecordIndex # 0
  /\ staged.kind = "Prepared" => staged.txn.prev_root = root
  /\ staged.kind = "Committed" => staged.release.transition.prev_root = root

(* What is installed is linked, release by release.                        *)
Linked ==
  /\ \A i \in 1..Tip : \E r \in installed : IndexOfRelease(r) = i
  /\ \A r \in installed : IndexOfRelease(r) \in 1..Tip
  /\ Tip = 0 => root = Genesis
  /\ \A r \in installed :
       /\ IndexOfRelease(r) = Tip => r.transition.next_root = root
       /\ IndexOfRelease(r) = 1 => r.transition.prev_root = Genesis
  /\ \A r, s \in installed :
       IndexOfRelease(r) = IndexOfRelease(s) + 1 =>
         r.transition.prev_root = s.transition.next_root

-----------------------------------------------------------------------------
(* The tip is a natural number, and a candidate lies one above it.         *)
LEMMA TipArithmetic ==
  ASSUME IInv, FromRoot
  PROVE  Tip \in Nat /\ (IsCommitted => RecordIndex = Tip + 1)
  BY Arithmetic DEF IInv, FromRoot, Tip

(* A prepared transition starts at the active root, and stays that of its  *)
(* record until it is installed.                                           *)
LEMMA FromRootKept ==
  ASSUME IInv, OnlineRoots = {}, FromRoot, [Next]_vars
  PROVE  FromRoot'
  <1> USE DEF IInv
  <1>1. CASE Finalize
    BY <1>1, RecordFields DEF Finalize, Answer, FromRoot, IsPrepared, IsCommitted
  <1>2. CASE ~Finalize
    <2>0. root' = root
      BY <1>2, TipKept
    <2>1. ASSUME NEW t \in Transitions, NEW rc \in Challenges,
                 PrepareBegin(t, rc)
          PROVE  FromRoot'
      <3>1. t.prev_root = root
        BY <2>1 DEF PrepareBegin, PrepareCheck
      <3>2. staged'.kind = "Prepared" /\ staged'.txn = t /\ record' = record
        BY <2>1, RecordFields DEF PrepareBegin, Continue
      <3> QED BY <2>0, <3>1, <3>2 DEF FromRoot, IsPrepared, IsCommitted,
        RecordIndex
    <2>2. CASE PrepareStore \/ CommitStore
      <3>1. /\ record' = staged /\ staged' = Empty
            /\ staged.kind = "Committed" => IndexOfRelease(staged.release) = u + 1
        BY <2>2, RecordFields DEF PrepareStore, CommitStore, Answer, Continue,
          StepInv
      <3>2. u + 1 # 0
        BY Arithmetic
      <3> QED BY <2>0, <3>1, <3>2, RecordFields DEF FromRoot, IsPrepared,
        IsCommitted, RecordIndex
    <2>3. CASE CommitSign
      <3> DEFINE rel == SignedRelease(record.txn, record.receiver_challenge,
                                      record.sk_hw)
      <3>1. /\ record.txn.prev_root = root /\ IsPrepared
            /\ record' = Prepared(record.txn, record.receiver_challenge, NoKey)
            /\ staged' = Committed(rel, FALSE)
        BY <2>3 DEF CommitSign, CommitCheck, Continue
      <3>2. rel.transition = record.txn
        BY ReleaseTransition
      <3> HIDE DEF rel
      <3>3. /\ staged'.kind = "Committed" /\ staged'.release = rel
            /\ record'.kind = "Prepared" /\ record'.txn = record.txn
        BY <3>1 DEF Committed, Prepared
      <3> QED BY <2>0, <3>1, <3>2, <3>3 DEF FromRoot, IsPrepared, IsCommitted
    <2>4. CASE CommitFlag \/ RecoverFlag
      BY <2>0, <2>4, FlagKeepsRelease, RecordFields DEF FromRoot, IsPrepared,
        IsCommitted, RecordIndex
    <2>5. CASE CancelErase \/ CancelStore
      <3>1. /\ staged' = Empty
            /\ \/ record' = Empty
               \/ /\ IsPrepared /\ record'.kind = "Prepared"
                  /\ record'.txn = record.txn
        BY <2>5 DEF CancelErase, CancelStore, Continue, Answer, Prepared
      <3> QED BY <2>0, <3>1, RecordFields DEF FromRoot, IsPrepared, IsCommitted
    <2>6. CASE record' = record /\ (staged' = Empty \/ staged' = staged)
      BY <2>0, <2>6, RecordFields DEF FromRoot, IsPrepared, IsCommitted,
        RecordIndex
    <2>7. CASE \/ \E t \in Transitions : \/ PrepareRefused(t)
                                         \/ PrepareReadFails(t)
                                         \/ PrepareWitnessFails(t)
               \/ CommitStatus \/ CommitCount \/ CommitCountFails
               \/ CommitIndex \/ CommitRefused \/ CommitReadFails
               \/ Emit \/ EmitRefused \/ FinalizeRefused \/ FinalizeReadFails
               \/ CancelStatus \/ CancelRefused
      BY <2>6, <2>7 DEF PrepareRefused, PrepareReadFails, PrepareWitnessFails,
        CommitStatus, CommitCount, CommitCountFails, CommitIndex,
        CommitRefused, CommitReadFails, Emit, EmitRefused, FinalizeRefused,
        FinalizeReadFails, CancelStatus, CancelRefused, Refuse, ChipReadFails,
        Answer, Continue, durable
    <2>8. CASE \/ RecoverFaulty \/ RecoverReemit \/ RecoverCountPending
               \/ RecoverCount \/ RecoverCountFails \/ RecoverIndex
               \/ RecoverStale \/ RecoverPrepared \/ RecoverReady
               \/ RecoverRead \/ RecoverAhead \/ EnvironmentStep
               \/ UNCHANGED vars
      BY <2>6, <2>8 DEF RecoverFaulty, RecoverReemit, RecoverCountPending,
        RecoverCount, RecoverCountFails, RecoverIndex, RecoverStale,
        RecoverPrepared, RecoverReady, RecoverRead, RecoverAhead, Recovered,
        EnvironmentStep, PowerLoss, CounterWaste, OnlineAdvance, Answer,
        Continue, durable, volatile, vars
    <2> QED BY <1>2, <2>1, <2>2, <2>3, <2>4, <2>5, <2>7, <2>8 DEF Next,
      PrepareStep, CommitStep, FinalizeStep, CancelStep, RecoverStep
  <1> QED BY <1>1, <1>2

(* Finalize appends the candidate, which starts where the chain ends.      *)
LEMMA LinkedKept ==
  ASSUME IInv, OnlineRoots = {}, FromRoot, Linked, [Next]_vars
  PROVE  Linked'
  <1> USE DEF IInv
  <1>1. CASE ~Finalize
    BY <1>1, TipKept DEF Linked
  <1>2. CASE Finalize
    <2> DEFINE c == record.release
    <2>1. IsCommitted /\ record.committed /\ u = LiveIndex
      BY <1>2 DEF Finalize, FinalizeCheck
    <2>2. u = Tip + 1 /\ RecordIndex = Tip + 1 /\ Tip \in Nat
      BY <2>1, Arithmetic, TipArithmetic DEF CommittedInv
    <2>3. ~IsCommitted' /\ u' = u /\ Tip' = Tip + 1
      BY <1>2, <2>2, RecordFields DEF Finalize, IsCommitted, Tip
    <2>4. /\ installed' = installed \cup {c}
          /\ root' = c.transition.next_root
          /\ IndexOfRelease(c) = Tip + 1
          /\ c.transition.prev_root = root
      BY <1>2, <2>1, <2>2 DEF Finalize, RecordIndex, FromRoot
    <2> HIDE DEF c
    <2>5. \A r \in installed : IndexOfRelease(r) \in 1..Tip
      BY DEF Linked
    <2>6. ASSUME NEW i \in 1..(Tip + 1)
          PROVE  \E r \in installed' : IndexOfRelease(r) = i
      <3>1. CASE i = Tip + 1
        BY <2>4, <3>1
      <3>2. CASE i \in 1..Tip
        BY <2>4, <3>2 DEF Linked
      <3> QED BY <2>2, <3>1, <3>2
    <2>7. \A r \in installed' : IndexOfRelease(r) \in 1..(Tip + 1)
      BY <2>2, <2>4, <2>5
    <2>8. ASSUME NEW r \in installed'
          PROVE  /\ IndexOfRelease(r) = Tip + 1 => r.transition.next_root = root'
                 /\ IndexOfRelease(r) = 1 => r.transition.prev_root = Genesis
      <3>1. CASE r = c
        BY <2>2, <2>4, <3>1 DEF Linked
      <3>2. CASE r \in installed
        BY <2>2, <2>5, <3>2 DEF Linked
      <3> QED BY <2>4, <3>1, <3>2
    <2>9. ASSUME NEW r \in installed', NEW s \in installed',
                 IndexOfRelease(r) = IndexOfRelease(s) + 1
          PROVE  r.transition.prev_root = s.transition.next_root
      <3>1. CASE r \in installed /\ s \in installed
        BY <2>9, <3>1 DEF Linked
      <3>2. CASE r = c /\ s \in installed
        <4>1. IndexOfRelease(s) = Tip
          BY <2>2, <2>4, <2>5, <2>9, <3>2
        <4> QED BY <2>4, <3>2, <4>1 DEF Linked
      <3>3. CASE s = c
        BY <2>2, <2>4, <2>7, <2>9, <3>3
      <3> QED BY <2>4, <3>1, <3>2, <3>3
    <2>10. Tip' # 0
      BY <2>2, <2>3
    <2> QED BY <2>3, <2>6, <2>7, <2>8, <2>9, <2>10 DEF Linked
  <1> QED BY <1>1, <1>2

(* The links, written as one function from indices to roots.               *)
LEMMA LinkedIsChain ==
  ASSUME IInv, FromRoot, Linked
  PROVE  ChainLinked
  <1> DEFINE index == {IndexOfRelease(r) : r \in installed}
             at(i) == CHOOSE r \in installed : IndexOfRelease(r) = i
             rootAt == [i \in index \cup {0} |->
                          IF i = 0 THEN Genesis ELSE at(i).transition.next_root]
  <1>1. Tip \in Nat
    BY TipArithmetic
  <1>2. index = 1..Tip
    BY DEF Linked
  <1>3. \A r \in installed : at(IndexOfRelease(r)) = r
    <2> SUFFICES ASSUME NEW r \in installed PROVE at(IndexOfRelease(r)) = r
      OBVIOUS
    <2>1. /\ at(IndexOfRelease(r)) \in installed
          /\ IndexOfRelease(at(IndexOfRelease(r))) = IndexOfRelease(r)
      OBVIOUS
    <2> QED BY <2>1 DEF IInv, InstalledInv
  <1>4. \A r \in installed :
          rootAt[IndexOfRelease(r)] = r.transition.next_root
    <2> SUFFICES ASSUME NEW r \in installed
                 PROVE  rootAt[IndexOfRelease(r)] = r.transition.next_root
      OBVIOUS
    <2>1. IndexOfRelease(r) \in index /\ IndexOfRelease(r) # 0
      BY <1>1, <1>2
    <2> HIDE DEF at, index
    <2> QED BY <1>3, <2>1
  <1>5. rootAt[0] = Genesis
    BY DEF rootAt
  <1>6. root = rootAt[Tip]
    <2>1. CASE Tip = 0
      BY <1>5, <2>1 DEF Linked
    <2>2. CASE Tip # 0
      <3>1. PICK r \in installed : IndexOfRelease(r) = Tip
        BY <1>1, <2>2 DEF Linked
      <3> QED BY <1>4, <3>1 DEF Linked
    <2> QED BY <2>1, <2>2
  <1>7. ASSUME NEW r \in installed
        PROVE  r.transition.prev_root = rootAt[IndexOfRelease(r) - 1]
    <2>1. IndexOfRelease(r) \in 1..Tip
      BY DEF Linked
    <2>2. CASE IndexOfRelease(r) = 1
      <3>1. IndexOfRelease(r) - 1 = 0
        BY <2>2
      <3> QED BY <1>5, <2>2, <3>1 DEF Linked
    <2>3. CASE IndexOfRelease(r) # 1
      <3>1. IndexOfRelease(r) - 1 \in 1..Tip
        BY <1>1, <2>1, <2>3
      <3>2. PICK s \in installed : IndexOfRelease(s) = IndexOfRelease(r) - 1
        BY <3>1 DEF Linked
      <3>3. IndexOfRelease(r) = IndexOfRelease(s) + 1
        BY <2>1, <3>2
      <3> QED BY <1>4, <3>2, <3>3 DEF Linked
    <2> QED BY <2>2, <2>3
  <1> QED BY <1>2, <1>6, <1>7 DEF ChainLinked, Tip

(* Without online advances the installed releases are one chain from the   *)
(* genesis root to the active root, one per index: nothing finalize        *)
(* installs is out of place, whatever was cancelled, lost or recovered in  *)
(* between.                                                                *)
THEOREM InstalledIsOneChain ==
  ASSUME OnlineRoots = {}
  PROVE  Spec => []ChainLinked
  <1>1. Init => FromRoot /\ Linked
    <2> SUFFICES ASSUME Init PROVE FromRoot /\ Linked
      OBVIOUS
    <2>1. ~IsPrepared /\ ~IsCommitted /\ staged.kind = "Empty" /\ Tip = 0
      BY RecordFields DEF Init, IsPrepared, IsCommitted, Tip
    <2> QED BY <2>1 DEF Init, FromRoot, Linked
  <1>2. IInv /\ FromRoot /\ Linked /\ [Next]_vars => FromRoot' /\ Linked'
    BY FromRootKept, LinkedKept
  <1> QED BY <1>1, <1>2, LinkedIsChain, Inductive, PTL DEF Spec

-----------------------------------------------------------------------------
(* The refinement mapping.                                                 *)

Certified == IF CounterMoved THEN record.release.transition.next_root
             ELSE NoRoot
Released == {<<IndexOfRelease(r), r.transition.next_root>> : r \in exported}

(* The abstract state, as far as a step of the appliance can leave it.     *)
Mapped == <<Chain, Certified, LiveIndex, Released>>

-----------------------------------------------------------------------------
(* What the mapping is in a reachable state.                               *)

(* A candidate lies at the index of the counter once the counter moved and *)
(* one above it before.                                                    *)
LEMMA CandidateIndex ==
  ASSUME IInv, ReleasesVerify, MaxWaste = 0, IsCommitted
  PROVE  /\ RecordIndex \in Nat /\ LiveIndex \in Nat /\ LiveIndex <= H0
         /\ H0 \in Nat /\ RecordIndex > 0
         /\ LiveIndex <= RecordIndex
         /\ CounterMoved <=> RecordIndex = LiveIndex
         /\ record.release.transition.next_root \in Roots
  <1>1. /\ wasted = 0 /\ LiveIndex <= RecordIndex
        /\ RecordIndex \in Nat /\ LiveIndex \in Nat /\ LiveIndex <= H0
        /\ H0 \in Nat /\ u \in Nat
    BY Arithmetic DEF IInv, TypeOK, CounterAccounted, Accounted
  <1>2. record.release.transition \in Transitions
    BY RecordCases DEF IInv, TypeOK, IsCommitted
  <1>3. RecordIndex > 0
    BY <1>2, TransitionAssumption DEF ReleasesVerify, Verifiable, RecordIndex,
      IndexOfRelease
  <1> QED BY <1>1, <1>2, <1>3, TransitionAssumption DEF CounterMoved

(* The element of the chain at i.                                          *)
RootIn(releases, i) ==
  IF i = 1 THEN Genesis
  ELSE (CHOOSE r \in releases : IndexOfRelease(r) = i - 1).transition.next_root
ChainLength == IF IsCommitted THEN RecordIndex ELSE u + 1

LEMMA ChainShape ==
  ASSUME ChainLength \in Nat
  PROVE  /\ Len(Chain) = ChainLength /\ DOMAIN Chain = 1..ChainLength
         /\ \A i \in 1..ChainLength : Chain[i] = RootIn(installed, i)
         /\ Chain \in Seq({RootIn(installed, i) : i \in 1..ChainLength})
  <1> DEFINE S == {RootIn(installed, i) : i \in 1..ChainLength}
  <1>1. Chain = [i \in 1..ChainLength |-> RootIn(installed, i)]
    BY DEF Chain, RootIn, ChainLength
  <1>2. Chain \in [1..ChainLength -> S]
    BY <1>1
  <1>3. Chain \in Seq(S)
    BY <1>2, SeqDef
  <1>4. Len(Chain) = ChainLength
    BY <1>2, <1>3, LenProperties
  <1> QED BY <1>1, <1>3, <1>4

(* It is determined by the releases of the index before i.                 *)
LEMMA ChooseSame ==
  ASSUME NEW A, NEW B, NEW i,
         \A r : r \in A /\ IndexOfRelease(r) = i <=> r \in B /\ IndexOfRelease(r) = i
  PROVE  (CHOOSE r \in A : IndexOfRelease(r) = i)
           = (CHOOSE r \in B : IndexOfRelease(r) = i)
  BY Zenon

LEMMA RootInSame ==
  ASSUME NEW A, NEW B, NEW i,
         \A r : r \in A /\ IndexOfRelease(r) = i - 1
                  <=> r \in B /\ IndexOfRelease(r) = i - 1
  PROVE  RootIn(A, i) = RootIn(B, i)
  <1>1. (CHOOSE r \in A : IndexOfRelease(r) = i - 1)
          = (CHOOSE r \in B : IndexOfRelease(r) = i - 1)
    BY ChooseSame
  <1> QED BY <1>1 DEF RootIn

-----------------------------------------------------------------------------
(* The steps that move the abstract state.                                 *)

(* A step that keeps the counter, the history and the candidate, or keeps  *)
(* u where there is none, is a stutter.                                    *)
LEMMA Stutter ==
  ASSUME UNCHANGED <<h, exported, installed>>,
         \/ /\ IsCommitted /\ IsCommitted' /\ record'.release = record.release
         \/ ~IsCommitted /\ ~IsCommitted' /\ u' = u
  PROVE  Mapped' = Mapped
  <1>1. LiveIndex' = LiveIndex /\ Released' = Released
    BY DEF LiveIndex, Released
  <1>2. IsCommitted' = IsCommitted /\ (IsCommitted => RecordIndex' = RecordIndex)
    BY DEF RecordIndex, IsCommitted
  <1>3. CounterMoved' = CounterMoved /\ Certified' = Certified
    BY <1>1, <1>2 DEF CounterMoved, Certified
  <1>4. Chain' = Chain
    BY <1>2 DEF Chain
  <1> QED BY <1>1, <1>3, <1>4 DEF Mapped

(* Storing the candidate keeps the chain: its index is the one after u.    *)
LEMMA StoreStutters ==
  ASSUME IInv, MaxWaste = 0, CommitStore
  PROVE  Mapped' = Mapped
  <1>1. /\ ~IsCommitted /\ IsCommitted' /\ RecordIndex' = u + 1
        /\ u' = u /\ h' = h /\ installed' = installed /\ exported' = exported
    BY DEF CommitStore, IInv, StepInv, IsPrepared, IsCommitted, RecordIndex,
      chipVars, history
  <1>2. LiveIndex' = LiveIndex /\ LiveIndex <= u /\ u \in Nat /\ LiveIndex \in Nat
    BY <1>1, Arithmetic DEF IInv, TypeOK, CounterAccounted, Accounted, LiveIndex
  <1>3. ~CounterMoved /\ ~CounterMoved'
    BY <1>1, <1>2 DEF CounterMoved
  <1>4. Certified' = Certified /\ Released' = Released
    BY <1>1, <1>3 DEF Certified, Released
  <1>5. Chain' = Chain
    BY <1>1 DEF Chain
  <1> QED BY <1>2, <1>4, <1>5 DEF Mapped

(* The counter moves for the candidate: its successor becomes certified.   *)
LEMMA CountCertifies ==
  ASSUME IInv, ReleasesVerify, MaxWaste = 0,
         pc \in {"commit_count", "recover_count"}, CounterUpdate,
         UNCHANGED <<durable, history>>
  PROVE  Authority!Certify
  <1>1. /\ IsCommitted /\ IsCommitted' /\ ~record.committed
        /\ RecordIndex = u + 1 /\ RecordIndex' = RecordIndex
        /\ installed' = installed /\ exported' = exported /\ u' = u
        /\ record' = record
    BY DEF IInv, StepInv, CommittedInv, durable, history, IsCommitted, RecordIndex
  <1>2. /\ LiveIndex = u /\ u \in Nat /\ LiveIndex < H0 /\ LiveIndex' = u + 1
    BY Arithmetic, <1>1, H0Assumption DEF IInv, TypeOK, ChipTypeOK, StepInv,
      CounterAccounted, CounterUpdate, LiveIndex
  <1>3. ~CounterMoved /\ CounterMoved'
    BY <1>1, <1>2 DEF CounterMoved
  <1>4. /\ Certified = NoRoot
        /\ Certified' = record.release.transition.next_root
        /\ Certified' \in Roots
    BY <1>1, <1>3, CandidateIndex DEF Certified
  <1>5. Chain' = Chain /\ Released' = Released
    BY <1>1 DEF Chain, Released
  <1>6. Len(Chain) = u + 1
    BY <1>1, <1>2, ChainShape DEF ChainLength
  <1>7. LiveIndex = Len(Chain) - 1
    BY <1>2, <1>6
  <1> QED BY <1>2, <1>4, <1>5, <1>7 DEF Authority!Certify, Certified, Released

(* emit hands out the certified successor.                                 *)
LEMMA EmitHandsOut ==
  ASSUME IInv, ReleasesVerify, MaxWaste = 0, Emit
  PROVE  Authority!HandOut
  <1>1. /\ IsCommitted /\ record.committed /\ RecordIndex <= LiveIndex
        /\ record' = record /\ u' = u /\ h' = h /\ installed' = installed
        /\ exported' = exported \cup {record.release}
    BY DEF Emit, IInv, CommittedInv, durable, chipVars
  <1>2. /\ CounterMoved /\ RecordIndex = LiveIndex
        /\ Certified = record.release.transition.next_root
        /\ Certified \in Roots
    BY <1>1, CandidateIndex DEF CounterMoved, Certified
  <1>3. Certified # NoRoot
    BY <1>2, NoRootAssumption
  <1>4. Released' = Released \cup {<<LiveIndex, Certified>>}
    BY <1>1, <1>2 DEF Released, RecordIndex
  <1>5. LiveIndex' = LiveIndex /\ Certified' = Certified /\ Chain' = Chain
    BY <1>1 DEF LiveIndex, Certified, CounterMoved, Chain, IsCommitted,
      RecordIndex
  <1> QED BY <1>3, <1>4, <1>5 DEF Authority!HandOut, Certified, Released

(* finalize appends the certified successor to the chain.                  *)
LEMMA FinalizeInstalls ==
  ASSUME IInv, ReleasesVerify, MaxWaste = 0, Finalize
  PROVE  Authority!Install
  <1> DEFINE next == record.release.transition.next_root
             n == RecordIndex
  <1>1. /\ IsCommitted /\ record.committed /\ u = LiveIndex
        /\ record' = Empty /\ u' = u /\ h' = h /\ exported' = exported
        /\ installed' = installed \cup {record.release}
    BY DEF Finalize, FinalizeCheck, chipVars
  <1>2. /\ n \in Nat /\ n > 0 /\ n = u /\ next \in Roots /\ CounterMoved
    BY <1>1, CandidateIndex, Arithmetic DEF IInv, CommittedInv
  <1>3. ~IsCommitted'
    BY <1>1, RecordFields DEF IsCommitted
  <1>4. /\ Certified = next /\ next # NoRoot /\ Certified' = NoRoot
        /\ LiveIndex' = LiveIndex /\ Released' = Released
    BY <1>1, <1>2, <1>3, NoRootAssumption DEF Certified, CounterMoved,
      LiveIndex, Released
  <1>5. \A r \in installed : IndexOfRelease(r) \in Nat /\ IndexOfRelease(r) < n
    BY <1>1, Arithmetic DEF IInv, InstalledInv
  <1>6. ChainLength = n /\ ChainLength' = n + 1
    BY <1>1, <1>2, <1>3 DEF ChainLength
  <1>7. \A i \in 1..n : RootIn(installed', i) = RootIn(installed, i)
    <2> SUFFICES ASSUME NEW i \in 1..n PROVE RootIn(installed', i) = RootIn(installed, i)
      OBVIOUS
    <2>1. IndexOfRelease(record.release) # i - 1
      BY <1>2 DEF RecordIndex
    <2>2. \A r : r \in installed' /\ IndexOfRelease(r) = i - 1
                   <=> r \in installed /\ IndexOfRelease(r) = i - 1
      BY <1>1, <2>1
    <2> QED BY <2>2, RootInSame
  <1>8. RootIn(installed', n + 1) = next
    <2>1. \A r \in installed' : IndexOfRelease(r) = n <=> r = record.release
      BY <1>1, <1>2, <1>5 DEF RecordIndex
    <2>2. (CHOOSE r \in installed' : IndexOfRelease(r) = n) = record.release
      BY <1>1, <2>1
    <2>3. n + 1 # 1 /\ (n + 1) - 1 = n
      BY <1>2
    <2> QED BY <2>2, <2>3 DEF RootIn
  <1>9. Chain' = Append(Chain, next)
    <2> DEFINE S == {RootIn(installed, i) : i \in 1..n} \cup {next}
    <2>1. /\ Len(Chain) = n /\ Chain \in Seq(S)
          /\ \A i \in 1..n : Chain[i] = RootIn(installed, i)
      BY <1>2, <1>6, ChainShape, SeqMonotonic
    <2>2. /\ Append(Chain, next) \in Seq(S) /\ Len(Append(Chain, next)) = n + 1
          /\ \A i \in 1..n : Append(Chain, next)[i] = Chain[i]
          /\ Append(Chain, next)[n + 1] = next
      BY <2>1, AppendProperties
    <2>3. Chain' = [i \in 1..(n + 1) |-> RootIn(installed', i)]
      BY <1>6 DEF Chain, RootIn, ChainLength
    <2>4. \A i \in 1..(n + 1) : RootIn(installed', i) = Append(Chain, next)[i]
      BY <1>2, <1>7, <1>8, <2>1, <2>2
    <2>5. Append(Chain, next) = [i \in 1..(n + 1) |-> Append(Chain, next)[i]]
      BY <2>2, LenProperties
    <2> QED BY <2>3, <2>4, <2>5
  <1> QED BY <1>4, <1>9 DEF Authority!Install, Certified, Released
-----------------------------------------------------------------------------
(* Every step.                                                             *)

(* The abstract variables are the components of Mapped.                    *)
LEMMA AuthorityVars ==
  Mapped' = Mapped => UNCHANGED Authority!authorityVars
  BY DEF Mapped, Certified, Released, Authority!authorityVars

LEMMA EveryStepMaps ==
  ASSUME IInv, ReleasesVerify, MaxWaste = 0, [Next]_vars
  PROVE  [Authority!AuthorityNext]_(Authority!authorityVars)
  <1>1. CASE CommitStore
    BY <1>1, StoreStutters, AuthorityVars
  <1>2. CASE CommitCount \/ RecoverCount
    BY <1>2, CountCertifies DEF CommitCount, RecoverCount, durable,
      Authority!AuthorityNext
  <1>3. CASE CommitCountFails \/ RecoverCountFails
    <2>1. /\ pc \in {"commit_count", "recover_count"}
          /\ UNCHANGED <<durable, history>>
          /\ h' = h \/ CounterUpdate
      BY <1>3 DEF CommitCountFails, RecoverCountFails, CounterUpdateFails
    <2>2. CASE CounterUpdate
      BY <2>1, <2>2, CountCertifies DEF Authority!AuthorityNext
    <2>3. CASE h' = h
      BY <2>1, <2>3, Stutter, AuthorityVars DEF durable, history, IsCommitted
    <2> QED BY <2>1, <2>2, <2>3
  <1>4. CASE Emit
    BY <1>4, EmitHandsOut DEF Authority!AuthorityNext
  <1>5. CASE Finalize
    BY <1>5, FinalizeInstalls DEF Authority!AuthorityNext
  <1>6. CASE CommitFlag \/ RecoverFlag
    <2>1. /\ record' = Committed(record.release, TRUE) /\ IsCommitted
          /\ UNCHANGED <<h, exported, installed>>
      BY <1>6 DEF CommitFlag, RecoverFlag, IInv, StepInv, FlagLost, Candidate,
        chipVars, history
    <2>2. IsCommitted' /\ record'.release = record.release
      BY <2>1, RecordFields DEF IsCommitted
    <2> QED BY <2>1, <2>2, Stutter, AuthorityVars
  <1>7. CASE CommitIndex \/ RecoverIndex \/ RecoverReemit
    <2>1. /\ IsCommitted /\ record' = record
          /\ UNCHANGED <<h, exported, installed>>
      BY <1>7 DEF CommitIndex, RecoverIndex, RecoverReemit, Reemittable,
        Candidate, IInv, StepInv, chipVars, history
    <2> QED BY <2>1, Stutter, AuthorityVars DEF IsCommitted
  <1>8. CASE PrepareStore \/ CommitSign \/ CancelErase \/ CancelStore
    <2>1. UNCHANGED <<h, u, exported, installed>>
      BY <1>8 DEF PrepareStore, CommitSign, CancelErase, CancelStore, chipVars,
        history
    <2>2. ~IsCommitted
      BY <1>8 DEF PrepareStore, CommitSign, CommitCheck, CancelErase,
        CancelStore, IInv, StepInv, IsPrepared, IsCommitted
    <2>3. ~IsCommitted'
      <3>1. CASE PrepareStore
        BY <3>1 DEF PrepareStore, IInv, StepInv, IsCommitted
      <3>2. CASE CommitSign \/ CancelErase
        <4>1. record' = Prepared(record.txn, record.receiver_challenge, NoKey)
          BY <3>2 DEF CommitSign, CancelErase
        <4>2. record'.kind = "Prepared"
          BY <4>1 DEF Prepared
        <4> QED BY <4>2 DEF IsCommitted
      <3>3. CASE CancelStore
        BY <3>3, RecordFields DEF CancelStore, IsCommitted
      <3> QED BY <1>8, <3>1, <3>2, <3>3
    <2> QED BY <2>1, <2>2, <2>3, Stutter, AuthorityVars
  <1>9. ASSUME NEW t \in Transitions, NEW rc \in Challenges, PrepareBegin(t, rc)
        PROVE  UNCHANGED Authority!authorityVars
    BY <1>9, Stutter, AuthorityVars DEF PrepareBegin, IsCommitted, history
  <1>10. CASE \/ \E t \in Transitions : \/ PrepareRefused(t)
                                        \/ PrepareReadFails(t)
                                        \/ PrepareWitnessFails(t)
              \/ CommitStatus \/ CommitRefused \/ CommitReadFails
              \/ EmitRefused \/ FinalizeRefused \/ FinalizeReadFails
              \/ CancelStatus \/ CancelRefused
    <2>1. UNCHANGED <<h, u, record, exported, installed>>
      BY <1>10 DEF PrepareRefused, PrepareReadFails, PrepareWitnessFails,
        CommitStatus, CommitRefused, CommitReadFails, EmitRefused,
        FinalizeRefused, FinalizeReadFails, CancelStatus, CancelRefused, Refuse,
        ChipReadFails, durable, history, chipVars
    <2> QED BY <2>1, Stutter, AuthorityVars DEF IsCommitted
  <1>11. CASE \/ RecoverFaulty \/ RecoverCountPending \/ RecoverStale
              \/ RecoverPrepared \/ RecoverReady \/ RecoverRead \/ RecoverAhead
              \/ PowerLoss \/ (\E r \in OnlineRoots : OnlineAdvance(r))
              \/ UNCHANGED vars
    <2>1. UNCHANGED <<h, u, record, exported, installed>>
      BY <1>11 DEF RecoverFaulty, RecoverCountPending, RecoverStale,
        RecoverPrepared, RecoverReady, RecoverRead, RecoverAhead, Recovered,
        PowerLoss, OnlineAdvance, durable, history, chipVars, vars
    <2> QED BY <2>1, Stutter, AuthorityVars DEF IsCommitted
  <1>12. ~CounterWaste
    BY Arithmetic DEF CounterWaste, IInv
  <1> QED BY <1>1, <1>2, <1>3, <1>4, <1>5, <1>6, <1>7, <1>8, <1>9, <1>10,
    <1>11, <1>12 DEF Next, PrepareStep, CommitStep, FinalizeStep, CancelStep,
    RecoverStep, EnvironmentStep

(* The appliance starts as the authority does.                             *)
LEMMA InitMaps == ASSUME Init PROVE Authority!AuthorityInit
  <1>1. /\ ~IsCommitted /\ u = 0 /\ LiveIndex = 0 /\ exported = {}
    BY RecordFields, H0Assumption DEF Init, ChipInit, IsCommitted, LiveIndex
  <1>2. Chain = <<Genesis>>
    <2>1. Chain = [i \in 1..1 |-> Genesis]
      BY <1>1 DEF Chain
    <2> QED BY <2>1
  <1> QED BY <1>1, <1>2 DEF Authority!AuthorityInit, CounterMoved

-----------------------------------------------------------------------------
(* Whatever fails and restarts, an appliance nobody else moves the counter *)
(* of certifies one successor per index, hands out only that one and       *)
(* installs it: it behaves as RootAuthority, for any number of indices.    *)
THEOREM ApplianceImplementsAuthority ==
  ASSUME MaxWaste = 0
  PROVE  Spec => ImplementsAuthority
  <1>1. IInv /\ ReleasesVerify /\ [Next]_vars
          => [Authority!AuthorityNext]_(Authority!authorityVars)
    BY EveryStepMaps
  <1>2. Init => Authority!AuthorityInit
    BY InitMaps
  <1> QED BY <1>1, <1>2, Inductive, EveryReleaseVerifies, PTL
    DEF Spec, ImplementsAuthority, Authority!AuthoritySpec
=============================================================================
