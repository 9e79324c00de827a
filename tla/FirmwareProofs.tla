---------------------------- MODULE FirmwareProofs ----------------------------
(***************************************************************************)
(* Across power cycles and failed enrollments: every appliance the         *)
(* firmware makes keeps the invariants of Appliance, and between two       *)
(* settings of the counter no index is emitted twice.  And what the        *)
(* self-test's PASS and FAIL tell of the appliance and of the chip.        *)
(***************************************************************************)
EXTENDS Firmware, ServiceProofs

-----------------------------------------------------------------------------
(* What main lets an appliance do is what the service does.                *)

LEMMA HandleIsService == ASSUME NEW frame, handle(frame) PROVE ServiceNext
  <1>1. frame \in Frames
    BY DEF handle, DirectAnswer, Frames
  <1> QED BY <1>1 DEF ServiceNext

(* The phases in which an appliance runs.                                  *)
Running == SelfTest \/ Recover \/ ServeForever

LEMMA RunningIsService ==
  ASSUME Running
  PROVE  ServiceNext /\ [Next]_vars
  <1>1. ServiceNext
    BY HandleIsService DEF Running, SelfTest, Recover, ServeForever, ServiceNext
  <1> QED BY <1>1, ServiceStep

(* What is answered as a release has been exported.                        *)
LEMMA ReleasedIsExported ==
  ASSUME ServingInv, (\E frame : handle(frame)) \/ Continuation,
         NEW r \in Released
  PROVE  r \in exported'
  <1>1. PICK e \in exchange' : r \in e.response.release
    BY DEF Released
  <1>0. \A op, code : base(op).release = {} /\ fail(op, code).release = {}
                      /\ ok(op).release = {}
    BY DEF base, fail, ok
  <1>2. ASSUME NEW req, AfterStep(req)
        PROVE  req.op = "Emit" /\ reply' = "Ok" /\ r = record.release
    <2>1. e.response = AnswerOf(req.op, reply')
      BY <1>1, <1>2 DEF AfterStep, Respond
    <2>2. AnswerOf(req.op, reply').release # {}
      BY <1>1, <2>1
    <2>3. req.op = "Emit" /\ reply' = "Ok"
      BY <1>0, <2>2 DEF AnswerOf, ok, base
    <2>4. AnswerOf(req.op, reply').release = {record.release}
      BY <2>3 DEF AnswerOf, ok, base
    <2> QED BY <1>1, <2>1, <2>3, <2>4
  <1>3. CASE Continuation
    <2>1. PICK req \in serving : AfterStep(req)
      BY <1>3 DEF Continuation
    <2> QED BY <1>2, <2>1 DEF ServingInv
  <1>4. ASSUME NEW frame, handle(frame) PROVE r \in exported'
    <2>1. CASE Dispatch(frame)
      <3>1. frame.op = "Emit" /\ reply' = "Ok" /\ r = record.release
        BY <1>2, <2>1 DEF Dispatch
      <3>2. Emit \/ EmitRefused
        BY <2>1, <3>1 DEF Dispatch, DispatchPrepare, DispatchCommit,
          DispatchEmit, DispatchFinalize, DispatchCancel
      <3> QED BY <3>1, <3>2 DEF Emit, EmitRefused, Refuse, Answer
    <2>2. CASE DirectAnswer(frame)
      <3>1. [ok("Status") EXCEPT !.active_root = {root}, !.active_index = u,
                                 !.status = status].release = {}
        BY DEF ok, base
      <3>2. PICK response : Respond(frame, response) /\ response.release = {}
        BY <1>0, <2>2, <3>1 DEF DirectAnswer
      <3>3. e.response.release = {}
        BY <3>2 DEF Respond
      <3> QED BY <1>1, <3>3
    <2> QED BY <1>4, <2>1, <2>2 DEF handle
  <1> QED BY <1>3, <1>4

-----------------------------------------------------------------------------
(* A new appliance.                                                        *)

LEMMA Lost ==
  ASSUME NEW a \in 0..H0
  PROVE  /\ H0 - a \in Nat /\ H0 - a \in 0..MaxWaste
         /\ 0 <= H0 - a /\ H0 - a <= 0 + (H0 - a)
  BY H0Assumption, MaxWasteAssumption, MaxBootsAssumption

LEMMA NewKeeps ==
  ASSUME h' \in 0..H0, slot_state' \in 0..MaxWitness, pc' \in {"boot", "idle"},
         FInv, NewAppliance
  PROVE  IInv' /\ ReleasesVerify' /\ ServingInv' /\ StaleInv'
  <1>1. wasted' \in 0..MaxWaste /\ wasted' = H0 - h'
    <2>1. wasted' = H0 - h'
      BY DEF NewAppliance
    <2> QED
      BY <2>1, Lost
  <1>2. TypeOK'
    <2>1. 0 \in 0..H0
      BY H0Assumption
    <2> QED
      BY <1>1, <2>1, RecordFields, RootAssumption DEF NewAppliance, TypeOK,
        ChipTypeOK, PcValues, Replies
  <1>3. (PreparedInv /\ CommittedInv /\ StepInv)'
    BY RecordFields DEF NewAppliance, PreparedInv, CommittedInv, StepInv,
      IsPrepared, IsCommitted
  <1>4. CounterAccounted'
    <2>1. u' = 0 /\ ~IsCommitted' /\ wasted' = H0 - h'
      BY RecordFields DEF NewAppliance, IsCommitted
    <2>2. 0 <= H0 - h' /\ H0 - h' <= 0 + (H0 - h')
      BY Lost
    <2> QED BY <2>1, <2>2 DEF CounterAccounted, Accounted, LiveIndex
  <1>5. (InstalledInv /\ ExportedInv)'
    BY DEF NewAppliance, InstalledInv, ExportedInv
  <1>6. ReleasesVerify'
    BY RecordFields DEF NewAppliance, ReleasesVerify, IsCommitted
  <1>7. ServingInv' /\ StaleInv'
    BY <1>1 DEF NewAppliance, ServingInv, StaleInv, LiveIndex
  <1> QED BY <1>2, <1>3, <1>4, <1>5, <1>6, <1>7 DEF IInv

(* What an appliance leaves behind: the counter has passed every index it  *)
(* emitted.                                                                *)
LEMMA HandedPassed ==
  ASSUME FInv, NEW p \in handed, p[1] = epoch
  PROVE  IndexOfRelease(p[2]) <= LiveIndex
  <1>1. /\ LiveIndex \in Nat /\ wasted \in Nat /\ u \in Nat /\ u <= LiveIndex
        /\ IndexOfRelease(p[2]) \in Nat
    BY Arithmetic DEF FInv, HandedInv, IInv, CounterAccounted
  <1>2. CASE p[2] \in exported
    <2>1. \/ p[2] \in installed
          \/ IsCommitted /\ record.committed /\ p[2] = record.release
      BY <1>2 DEF FInv, IInv, ExportedInv
    <2> QED BY <1>1, <2>1 DEF FInv, IInv, InstalledInv, CommittedInv, RecordIndex
  <1>3. CASE IndexOfRelease(p[2]) <= wasted
    BY <1>1, <1>3 DEF FInv, StaleInv
  <1> QED BY <1>2, <1>3 DEF FInv, HandedInv

LEMMA NewKeepsHanded ==
  ASSUME h' \in 0..H0, FInv, NewAppliance, handed' = handed,
         \/ epoch' = epoch /\ h' = h
         \/ epoch' = epoch + 1
  PROVE  HandedInv' /\ EvidenceOncePerEnrollment'
  <1>1. EvidenceOncePerEnrollment'
    BY DEF FInv, EvidenceOncePerEnrollment
  <1>2. epoch \in Nat /\ \A p \in handed : p = <<p[1], p[2]>> /\ p[1] \in 0..epoch
    BY DEF FInv, HandedInv
  <1>3. CASE epoch' = epoch + 1
    <2>1. epoch' \in Nat
      BY <1>2, <1>3
    <2>2. ASSUME NEW p \in handed
          PROVE  p[1] \in 0..epoch' /\ p[1] # epoch'
      <3>1. p[1] \in 0..epoch
        BY <1>2
      <3> QED BY <1>2, <1>3, <3>1
    <2> QED BY <1>1, <1>2, <2>1, <2>2 DEF HandedInv
  <1>4. CASE epoch' = epoch /\ h' = h
    <2>1. wasted' = LiveIndex
      BY <1>4 DEF NewAppliance, LiveIndex
    <2>2. ASSUME NEW p \in handed, p[1] = epoch
          PROVE  IndexOfRelease(p[2]) \in Nat \ {0} /\ IndexOfRelease(p[2]) <= wasted'
      BY <2>1, <2>2, HandedPassed DEF FInv, HandedInv
    <2> QED BY <1>1, <1>2, <1>4, <2>2 DEF HandedInv
  <1> QED BY <1>1, <1>3, <1>4

-----------------------------------------------------------------------------
(* An appliance at work.                                                   *)

(* Whoever emits was made for a counter that had been set.                 *)
LEMMA StaleKept ==
  ASSUME FInv, Running, wasted > 0
  PROVE  /\ status' = "Ready" /\ record' = Empty /\ u' = 0
         /\ LiveIndex' = LiveIndex /\ pc' \in {"boot", "idle"}
         /\ exported' = {} /\ acked' = {}
  <1>1. /\ status = "Ready" /\ record = Empty /\ u = 0 /\ LiveIndex = wasted
        /\ pc \in {"boot", "idle"} /\ exported = {} /\ acked = {}
        /\ ~IsPrepared /\ ~IsCommitted /\ u # LiveIndex
    BY RecordFields, Arithmetic DEF FInv, StaleInv, IInv, IsPrepared, IsCommitted
  <1>2. /\ UNCHANGED <<h, u, status, record, exported>>
        /\ pc' \in {"boot", "idle"}
    <2>1. ASSUME NEW t PROVE PrepareCheck(t) # "Ok"
      BY <1>1 DEF PrepareCheck
    <2>2. CommitCheck # "Ok" /\ FinalizeCheck # "Ok"
      BY <1>1 DEF CommitCheck, FinalizeCheck
    <2>3. ASSUME NEW frame, handle(frame)
          PROVE  /\ UNCHANGED <<h, u, status, record, exported>>
                 /\ pc' \in {"boot", "idle"}
      <3>1. CASE DispatchPrepare(frame)
        <4>1. PICK t \in frame.transition :
                PrepareRefused(t) \/ PrepareReadFails(t)
          BY <2>1, <3>1 DEF DispatchPrepare, PrepareBegin, PrepareWitnessFails
        <4> QED BY <4>1 DEF PrepareRefused, PrepareReadFails, Refuse,
          ChipReadFails, Answer, chipVars, durable, history
      <3>2. CASE DispatchCommit(frame) \/ DispatchEmit(frame)
                   \/ DispatchFinalize(frame) \/ DispatchCancel(frame)
        <4>1. \/ CommitRefused \/ CommitReadFails \/ EmitRefused
              \/ FinalizeRefused \/ FinalizeReadFails \/ CancelRefused
          BY <1>1, <2>2, <3>2 DEF DispatchCommit, DispatchEmit,
            DispatchFinalize, DispatchCancel, CommitSign, Emit, Finalize,
            CancelErase
        <4> QED BY <4>1 DEF CommitRefused, CommitReadFails, EmitRefused,
          FinalizeRefused, FinalizeReadFails, CancelRefused, Refuse,
          ChipReadFails, Answer, chipVars, durable, history
      <3>3. CASE UNCHANGED vars
        BY <1>1, <3>3 DEF vars, chipVars, durable, volatile, history
      <3> QED BY <2>3, <3>1, <3>2, <3>3 DEF handle, Dispatch
    <2>4. ~Continuation
      BY <1>1 DEF Continuation, PrepareStore, CommitStatus, CommitStore,
        CommitCount, CommitCountFails, CommitFlag, CommitIndex, CancelStatus,
        CancelStore
    <2>5. CASE Boot
      <3>1. RecoverFaulty \/ RecoverAhead
        BY <1>1, <2>5 DEF Boot, RecoverStep, RecoverReemit,
          RecoverCountPending, RecoverCount, RecoverCountFails, RecoverFlag,
          RecoverIndex, RecoverStale, RecoverPrepared, RecoverReady,
          RecoverRead, FlagLost, CountPending, Reemittable, Candidate
      <3> QED BY <3>1 DEF RecoverFaulty, RecoverAhead, Recovered, Answer,
        chipVars, history
    <2> QED BY <2>3, <2>4, <2>5 DEF Running, SelfTest, Recover, ServeForever
  <1>3. ~IsCommitted' /\ LiveIndex' = LiveIndex
    BY <1>1, <1>2 DEF IsCommitted, LiveIndex
  <1>4. acked' = {}
    <2> SUFFICES ASSUME NEW r \in acked' PROVE FALSE
      OBVIOUS
    <2> QED BY <1>1, <1>3, RunningIsService, AckedIsMarked DEF FInv
  <1> QED BY <1>1, <1>2, <1>3, <1>4

(* An appliance at work does not see the counter moved by others.          *)
LEMMA WastedKept ==
  ASSUME Running
  PROVE  wasted' = wasted
  <1>1. ASSUME NEW frame, handle(frame) PROVE wasted' = wasted
    <2>1. CASE DispatchPrepare(frame)
      BY <2>1 DEF DispatchPrepare, PrepareBegin, PrepareRefused,
        PrepareReadFails, PrepareWitnessFails, Refuse, ChipReadFails, history
    <2>2. CASE DispatchCommit(frame)
      BY <2>2 DEF DispatchCommit, CommitSign, CommitRefused, CommitReadFails,
        Refuse, ChipReadFails, history
    <2>3. CASE DispatchEmit(frame)
      BY <2>3 DEF DispatchEmit, Emit, EmitRefused, Refuse, history
    <2>4. CASE DispatchFinalize(frame)
      BY <2>4 DEF DispatchFinalize, Finalize, FinalizeRefused,
        FinalizeReadFails, Refuse, ChipReadFails, history
    <2>5. CASE DispatchCancel(frame)
      BY <2>5 DEF DispatchCancel, CancelErase, CancelRefused, Refuse, history
    <2>6. CASE UNCHANGED vars
      BY <2>6 DEF vars, history
    <2> QED BY <1>1, <2>1, <2>2, <2>3, <2>4, <2>5, <2>6 DEF handle, Dispatch
  <1>2. CASE Continuation
    BY <1>2 DEF Continuation, PrepareStore, CommitStatus, CommitStore,
      CommitCount, CommitCountFails, CommitFlag, CommitIndex, CancelStatus,
      CancelStore, history
  <1>3. CASE Boot
    BY <1>3 DEF Boot, RecoverStep, RecoverFaulty, RecoverReemit,
      RecoverCountPending, RecoverCount, RecoverCountFails, RecoverFlag,
      RecoverIndex, RecoverStale, RecoverPrepared, RecoverReady, RecoverRead,
      RecoverAhead, Recovered, history
  <1> QED BY <1>1, <1>2, <1>3 DEF Running, SelfTest, Recover, ServeForever

LEMMA ExportedIndexed ==
  ReleasesVerify => \A r \in exported :
    r.transition \in Transitions => IndexOfRelease(r) \in Nat \ {0}
  <1> SUFFICES ASSUME ReleasesVerify, NEW r \in exported,
                      r.transition \in Transitions
               PROVE  IndexOfRelease(r) \in Nat \ {0}
    OBVIOUS
  <1>1. r.transition.next_anchor_counter = r.transition.anchor_counter + 1
    BY DEF ReleasesVerify, Verifiable
  <1>2. r.transition.anchor_counter \in Nat
    BY TransitionAssumption
  <1> QED BY <1>1, <1>2 DEF IndexOfRelease

(* A release emitted now is one of the appliance's, about an index after   *)
(* zero, and every other one of the same epoch is too.                     *)
LEMMA RunningKeeps ==
  ASSUME FInv, Running
  PROVE  FInv'
  <1>0. epoch' = epoch
    BY DEF Running, SelfTest, Recover, ServeForever
  <1>1. ServiceNext /\ [Next]_vars /\ wasted' = wasted
    <2> QED BY RunningIsService, WastedKept
  <1>2. IInv' /\ ReleasesVerify' /\ ServingInv'
    BY <1>1, StepKeepsIInv, VerifyKept, ServingInvKept DEF FInv
  <1>3. StaleInv'
    BY <1>1, StaleKept DEF FInv, StaleInv
  <1>4. ASSUME NEW p \in handed' \ handed
        PROVE  /\ p = <<p[1], p[2]>> /\ p[1] = epoch
               /\ p[2] \in exported' /\ wasted = 0
    <2>1. PICK r \in Released : p = <<epoch, r>>
      BY <1>4 DEF Running, SelfTest, Recover, ServeForever, HandOut
    <2>2. (\E frame : handle(frame)) \/ Continuation
      BY <1>4 DEF Running, SelfTest, Recover, ServeForever
    <2>3. r \in exported'
      BY <2>2, ReleasedIsExported DEF FInv
    <2>4. wasted \in Nat
      BY DEF FInv, IInv, TypeOK
    <2>5. ~(wasted > 0)
      BY <2>3, StaleKept
    <2> QED BY <2>1, <2>3, <2>4, <2>5
  <1>5. exported \subseteq exported'
    BY <1>1, ExportedGrows DEF FInv
  <1>6. HandedInv'
    <2>1. ASSUME NEW p \in handed, p[1] = epoch
          PROVE  IndexOfRelease(p[2]) \in Nat \ {0}
                 /\ (p[2] \in exported' \/ IndexOfRelease(p[2]) <= wasted')
      BY <1>1, <1>5, <2>1 DEF FInv, HandedInv
    <2>2. ASSUME NEW p \in handed' \ handed
          PROVE  IndexOfRelease(p[2]) \in Nat \ {0}
      <3>1. p[2] \in exported' /\ p[2].transition \in Transitions
        BY <1>2, <1>4, <2>2 DEF IInv, TypeOK
      <3>2. (ReleasesVerify => \A r \in exported :
               r.transition \in Transitions => IndexOfRelease(r) \in Nat \ {0})'
        BY ExportedIndexed, PTL
      <3> QED BY <1>2, <3>1, <3>2
    <2>3. epoch \in Nat /\ \A p \in handed : p = <<p[1], p[2]>> /\ p[1] \in 0..epoch
      BY DEF FInv, HandedInv
    <2> QED BY <1>0, <1>4, <2>1, <2>2, <2>3 DEF HandedInv
  <1>7. EvidenceOncePerEnrollment'
    <2> SUFFICES ASSUME NEW p \in handed', NEW q \in handed', p[1] = q[1],
                        IndexOfRelease(p[2]) = IndexOfRelease(q[2])
                 PROVE  p = q
      BY DEF EvidenceOncePerEnrollment
    <2>1. CASE p \in handed /\ q \in handed
      BY <2>1 DEF FInv, EvidenceOncePerEnrollment
    <2>2. CASE ~(p \in handed /\ q \in handed)
      <3>1. p[1] = epoch /\ q[1] = epoch /\ wasted = 0
        BY <1>4, <2>2
      <3>2. ASSUME NEW x \in handed', x[1] = epoch
            PROVE  x[2] \in exported'
        <4>1. IndexOfRelease(x[2]) \in Nat \ {0}
                /\ (x[2] \in exported' \/ IndexOfRelease(x[2]) <= wasted')
          BY <1>0, <1>6, <3>2 DEF HandedInv
        <4> QED BY <1>1, <3>1, <4>1
      <3>3. OneReleasePerIndex'
        <4>1. IInv' => OneReleasePerIndex'
          BY OneReleaseByIInv, PTL
        <4> QED BY <1>2, <4>1
      <3>4. p[2] = q[2]
        BY <3>1, <3>2, <3>3 DEF OneReleasePerIndex
      <3>5. p = <<p[1], p[2]>> /\ q = <<q[1], q[2]>>
        BY <1>6 DEF HandedInv
      <3> QED BY <3>1, <3>4, <3>5
    <2> QED BY <2>1, <2>2
  <1> QED BY <1>1, <1>2, <1>3, <1>6, <1>7 DEF FInv

-----------------------------------------------------------------------------
(* The firmware.                                                           *)

LEMMA EnrollmentSets ==
  ASSUME FInv, EnrollOk \/ EnrollFails
  PROVE  /\ h' \in 0..H0 /\ slot_state' \in 0..MaxWitness
         /\ \/ epoch' = epoch /\ h' = h
            \/ epoch' = epoch + 1
  <1>1. h \in 0..H0 /\ H0 \in 0..H0 /\ slot_state \in 0..MaxWitness
    BY H0Assumption DEF FInv, IInv, TypeOK, ChipTypeOK
  <1>2. MacAndDestroy \/ MacAndDestroyFails => slot_state' \in 0..MaxWitness
    BY <1>1, MaxWitnessAssumption DEF MacAndDestroy, MacAndDestroyFails
  <1> QED BY <1>1, <1>2 DEF EnrollOk, EnrollFails, chipVars

LEMMA FirmwareInitFInv == FirmwareInit => FInv
  <1> SUFFICES ASSUME FirmwareInit PROVE FInv
    OBVIOUS
  <1>1. wasted \in 0..MaxWaste /\ wasted = H0 - h
    BY Lost DEF FirmwareInit
  <1>2. TypeOK
    <2>1. 0 \in 0..H0 /\ 0 \in 0..MaxWitness
      BY H0Assumption, MaxWitnessAssumption
    <2> QED BY <1>1, <2>1, RecordFields, RootAssumption DEF FirmwareInit,
      TypeOK, ChipTypeOK, PcValues, Replies
  <1>3. PreparedInv /\ CommittedInv /\ StepInv
    BY RecordFields DEF FirmwareInit, PreparedInv, CommittedInv, StepInv,
      IsPrepared, IsCommitted
  <1>4. CounterAccounted
    <2>1. u = 0 /\ ~IsCommitted /\ wasted = H0 - h
      BY RecordFields DEF FirmwareInit, IsCommitted
    <2>2. 0 <= H0 - h /\ H0 - h <= 0 + (H0 - h)
      BY Lost DEF FirmwareInit
    <2> QED BY <2>1, <2>2 DEF CounterAccounted, Accounted, LiveIndex
  <1>5. InstalledInv /\ ExportedInv /\ ReleasesVerify
    BY RecordFields DEF FirmwareInit, InstalledInv, ExportedInv,
      ReleasesVerify, IsCommitted
  <1>6. ServingInv /\ StaleInv /\ HandedInv /\ EvidenceOncePerEnrollment
    BY <1>1 DEF FirmwareInit, ServingInv, StaleInv, HandedInv, LiveIndex,
      EvidenceOncePerEnrollment
  <1> QED BY <1>2, <1>3, <1>4, <1>5, <1>6 DEF FInv, IInv

LEMMA FirmwareKeepsFInv == FInv /\ [FirmwareNext]_deviceVars => FInv'
  <1> SUFFICES ASSUME FInv, [FirmwareNext]_deviceVars PROVE FInv'
    OBVIOUS
  <1>1. CASE Running
    BY <1>1, RunningKeeps
  <1>2. CASE EnrollForTest \/ EnrollForTestFails \/ EnrollAgain
    <2>1. /\ EnrollOk \/ EnrollFails
          /\ NewAppliance /\ handed' = handed /\ pc' \in {"boot", "idle"}
      BY <1>2 DEF EnrollForTest, EnrollForTestFails, EnrollAgain
    <2> QED BY <2>1, EnrollmentSets, NewKeeps, NewKeepsHanded DEF FInv
  <1>3. CASE PowerCycle
    <2>1. /\ h' = h /\ slot_state' = slot_state /\ epoch' = epoch
          /\ NewAppliance /\ handed' = handed /\ pc' = "boot"
      BY <1>3 DEF PowerCycle, chipVars
    <2>2. h' \in 0..H0 /\ slot_state' \in 0..MaxWitness
      BY <2>1 DEF FInv, IInv, TypeOK, ChipTypeOK
    <2> QED BY <2>1, <2>2, NewKeeps, NewKeepsHanded DEF FInv
  <1>4. CASE \/ UNCHANGED deviceVars \/ SessionStart \/ SessionFails
    <2>1. UNCHANGED servedVars /\ UNCHANGED <<epoch, handed>>
      BY <1>4 DEF deviceVars, firmwareVars, SessionStart, SessionFails
    <2>2. [Next]_vars /\ [ServiceNext]_servedVars
      BY <2>1 DEF servedVars
    <2>3. IInv' /\ ReleasesVerify' /\ ServingInv'
      BY <2>2, StepKeepsIInv, VerifyKept, ServingInvKept DEF FInv
    <2>4. HandedInv' /\ EvidenceOncePerEnrollment' /\ StaleInv'
      BY <2>1 DEF FInv, HandedInv, EvidenceOncePerEnrollment, StaleInv,
        servedVars, vars, chipVars, durable, volatile, history, serviceVars,
        LiveIndex
    <2> QED BY <2>3, <2>4 DEF FInv
  <1> QED BY <1>1, <1>2, <1>3, <1>4 DEF FirmwareNext, Firmware, Running

(* The strengthening holds throughout.                                     *)
THEOREM FirmwareInductive == FirmwareSpec => []FInv
  <1> QED BY FirmwareInitFInv, FirmwareKeepsFInv, PTL DEF FirmwareSpec

(* Every appliance the firmware makes, for whatever the counter holds,     *)
(* keeps the invariants of Appliance.                                      *)
THEOREM FirmwareKeepsAppliances == FirmwareSpec => []IInv
  <1>1. FInv => IInv
    BY DEF FInv
  <1> QED BY <1>1, FirmwareInductive, PTL

(* Between two settings of the counter no index is emitted twice, by       *)
(* whichever of the firmware's appliances, on however many boots.          *)
THEOREM NoIndexEmittedTwice == FirmwareSpec => []EvidenceOncePerEnrollment
  <1>1. FInv => EvidenceOncePerEnrollment
    BY DEF FInv
  <1> QED BY <1>1, FirmwareInductive, PTL

(* An appliance made for a counter that was not set commits nothing.       *)
THEOREM StaleCounterGivesNothing == FirmwareSpec => []NothingFromStaleCounter
  <1>1. FInv => NothingFromStaleCounter
    BY DEF FInv, StaleInv, NothingFromStaleCounter
  <1> QED BY <1>1, FirmwareInductive, PTL
-----------------------------------------------------------------------------
(* The self-test.                                                          *)

LEMMA TestScriptIs ==
  /\ Len(TestScript) = 5
  /\ TestScript[1] = ApplianceRequest("Prepare", {TestTransition}, TestChallenge)
  /\ TestScript[2] = TestRequest("Commit") /\ TestScript[3] = TestRequest("Emit")
  /\ TestScript[4] = TestRequest("Finalize") /\ TestScript[5] = TestRequest("Status")
  /\ TestScript[1].op = "Prepare" /\ TestScript[2].op = "Commit"
  /\ TestScript[3].op = "Emit" /\ TestScript[4].op = "Finalize"
  /\ TestScript[5].op = "Status"
  /\ \A i \in 1..5 : TestScript[i] \in Requests
  <1>1. /\ Len(TestScript) = 5
        /\ TestScript[1] = ApplianceRequest("Prepare", {TestTransition},
                                            TestChallenge)
        /\ TestScript[2] = TestRequest("Commit")
        /\ TestScript[3] = TestRequest("Emit")
        /\ TestScript[4] = TestRequest("Finalize")
        /\ TestScript[5] = TestRequest("Status")
    BY DEF TestScript
  <1>2. \A op, t, rc : ApplianceRequest(op, t, rc).op = op
    BY DEF ApplianceRequest
  <1>3. \A i \in 1..5 : TestScript[i] \in Requests
    BY <1>1, TestScriptAssumption
  <1> QED BY <1>1, <1>2, <1>3 DEF TestRequest

(* The request that comes after n answers.                                 *)
LEMMA NextOfScript ==
  ASSUME NEW n \in 0..4
  PROVE  /\ TestScript[n + 1] \in Requests
         /\ \/ n = 0 /\ TestScript[n + 1] = TestScript[1]
            \/ n = 1 /\ TestScript[n + 1] = TestScript[2]
            \/ n = 2 /\ TestScript[n + 1] = TestScript[3]
            \/ n = 3 /\ TestScript[n + 1] = TestScript[4]
            \/ n = 4 /\ TestScript[n + 1] = TestScript[5]
  BY TestScriptIs

(* A sequence is one of its own elements.                                  *)
LEMMA OfItsElements ==
  ASSUME NEW S, NEW s \in Seq(S)
  PROVE  s \in Seq({s[i] : i \in 1..Len(s)})
  <1> DEFINE R == {s[i] : i \in 1..Len(s)}
  <1>1. Len(s) \in Nat /\ s = [i \in 1..Len(s) |-> s[i]]
    OBVIOUS
  <1>2. [i \in 1..Len(s) |-> s[i]] \in [1..Len(s) -> R]
    OBVIOUS
  <1>3. s \in [1..Len(s) -> R]
    BY <1>1, <1>2
  <1> HIDE DEF R
  <1> QED BY <1>1, <1>3

(* What appending an answer does.                                          *)
LEMMA OneMoreAnswer ==
  ASSUME TestServed, NEW a, answers' = Append(answers, a)
  PROVE  /\ Len(answers) \in Nat /\ Len(answers') = Len(answers) + 1
         /\ answers'[Len(answers) + 1] = a
         /\ \A i \in 1..Len(answers) : answers'[i] = answers[i]
         /\ AnswersAreSeq'
  <1>1. PICK Old : answers \in Seq(Old)
    BY DEF TestServed, AnswersAreSeq
  <1>2. /\ Len(answers) \in Nat /\ Len(answers') = Len(answers) + 1
        /\ answers'[Len(answers) + 1] = a
        /\ \A i \in 1..Len(answers) : answers'[i] = answers[i]
        /\ answers' \in Seq(Old \cup {a})
    BY <1>1
  <1> QED BY <1>2, OfItsElements DEF AnswersAreSeq

(* A step of the self-test begins or continues the request of the script   *)
(* that is next, and appends its answer when there is one.                 *)
TestRequestSteps(req) ==
  (pc = "idle" /\ Dispatch(req)) \/ (serving = {req} /\ Continuation)

LEMMA SelfTestStep ==
  ASSUME TestServed, SelfTest, NEW n, n = Len(answers),
         NEW req, req = TestScript[n + 1]
  PROVE  /\ n \in 0..4 /\ req \in Requests /\ phase = "selftest" /\ phase' = phase
         /\ \/ /\ TestRequestSteps(req)
               /\ reply' # "none" /\ serving' = {}
               /\ answers' = Append(answers, AnswerOf(req.op, reply'))
            \/ /\ TestRequestSteps(req)
               /\ reply' = "none" /\ serving' = {req}
               /\ answers' = answers
            \/ /\ n = 4 /\ UNCHANGED vars /\ serving' = {}
               /\ answers' = Append(answers,
                    [ok("Status") EXCEPT !.active_root = {root},
                       !.active_index = u, !.status = status])
  <1>1. n \in 0..4 /\ phase = "selftest" /\ phase' = phase
    <2>1. PICK Old : answers \in Seq(Old)
      BY DEF TestServed, AnswersAreSeq
    <2>2. Len(answers) \in Nat
      BY <2>1
    <2>3. Len(answers) <= 5
      BY TestScriptIs DEF TestServed
    <2>4. phase = "selftest" /\ phase' = phase /\ Len(answers) # 5
      BY TestScriptIs DEF SelfTest, Tested
    <2> QED BY <2>2, <2>3, <2>4
  <1>2. req \in Requests
    BY <1>1, NextOfScript
  <1>3. ASSUME NEW a, exchange' = {[frame |-> req, response |-> a]}
        PROVE  answers' = Append(answers, a)
    <2> DEFINE chosen == CHOOSE e \in exchange' : TRUE
    <2>1. exchange' # {} /\ chosen \in exchange'
      BY <1>3
    <2>2. chosen = [frame |-> req, response |-> a]
      BY <1>3, <2>1
    <2>3. answers' = IF exchange' = {} THEN answers
                     ELSE Append(answers, chosen.response)
      BY DEF SelfTest
    <2> HIDE DEF chosen
    <2> QED BY <2>1, <2>2, <2>3
  <1>4. exchange' = {} => answers' = answers
    BY DEF SelfTest
  <1>5. ASSUME AfterStep(req)
        PROVE  \/ /\ reply' # "none" /\ serving' = {}
                  /\ answers' = Append(answers, AnswerOf(req.op, reply'))
               \/ reply' = "none" /\ serving' = {req} /\ answers' = answers
    BY <1>3, <1>4, <1>5 DEF AfterStep, Respond
  <1>6. CASE handle(req)
    <2>1. CASE Dispatch(req)
      BY <1>1, <1>2, <1>5, <1>6, <2>1 DEF Dispatch, TestRequestSteps, handle
    <2>2. CASE DirectAnswer(req) /\ UNCHANGED vars
      <3>1. req # Oversized /\ req # Undecodable
        BY <1>2, MalformedAssumption
      <3>2. req.op = "Prepare" => PrepareFields(req) = "Ok"
        <4>1. req.op = "Prepare" => req = TestScript[1]
          BY <1>1, NextOfScript, TestScriptIs
        <4>2. TestTransition # Malformed /\ TestChallenge # Malformed
          BY MalformedAssumption, SelfTestAssumption
        <4>3. {TestTransition} # {} /\ {TestTransition} # {Malformed}
          BY <4>2
        <4>4. /\ TestScript[1].transition = {TestTransition}
              /\ TestScript[1].receiver_challenge = TestChallenge
          BY TestScriptIs DEF ApplianceRequest
        <4> QED BY <4>1, <4>2, <4>3, <4>4 DEF PrepareFields
      <3>3. req.op \in {"Prepare", "Commit", "Emit", "Finalize", "Status"}
              /\ (req.op = "Status" => n = 4)
        BY <1>1, NextOfScript, TestScriptIs
      <3>4. /\ req.op = "Status"
            /\ Respond(req, [ok("Status") EXCEPT !.active_root = {root},
                               !.active_index = u, !.status = status])
        BY <2>2, <3>1, <3>2, <3>3 DEF DirectAnswer
      <3> QED BY <1>1, <1>2, <1>3, <2>2, <3>3, <3>4 DEF Respond
    <2> QED BY <1>6, <2>1, <2>2 DEF handle
  <1>7. CASE Continuation
    <2>1. serving = {req} /\ AfterStep(req)
      BY <1>1, <1>7 DEF Continuation, TestServed
    <2> QED BY <1>1, <1>2, <1>5, <1>7, <2>1 DEF TestRequestSteps
  <1> QED BY <1>6, <1>7 DEF SelfTest

LEMMA TestServedKept ==
  ASSUME TestServed, SelfTest
  PROVE  TestServed'
  <1> DEFINE n == Len(answers)
             req == TestScript[n + 1]
  <1>1. n \in 0..4 /\ phase = "selftest" /\ phase' = phase
    BY SelfTestStep
  <1>2. ASSUME NEW a, answers' = Append(answers, a), serving' = {},
               a.op = req.op, a.ok => a.error = "None"
        PROVE  TestServed'
    <2>1. /\ Len(answers') = n + 1 /\ answers'[n + 1] = a /\ AnswersAreSeq'
          /\ \A i \in 1..n : answers'[i] = answers[i]
      BY <1>2, OneMoreAnswer
    <2>2. ASSUME NEW i \in 1..n + 1
          PROVE  /\ answers'[i].op = TestScript[i].op
                 /\ answers'[i].ok => answers'[i].error = "None"
      <3>1. CASE i = n + 1
        BY <1>2, <2>1, <3>1
      <3>2. CASE i # n + 1
        <4>1. i \in 1..n
          BY <1>1, <3>2
        <4> QED BY <2>1, <4>1 DEF TestServed
      <3> QED BY <3>1, <3>2
    <2> HIDE DEF n, req
    <2> QED BY <1>1, <1>2, <2>1, <2>2, TestScriptIs DEF TestServed
  <1>3. CASE \/ reply' # "none" /\ answers' = Append(answers, AnswerOf(req.op, reply'))
             \/ n = 4 /\ answers' = Append(answers,
                  [ok("Status") EXCEPT !.active_root = {root},
                     !.active_index = u, !.status = status])
    <2>1. serving' = {}
      BY <1>3, SelfTestStep, OneMoreAnswer
    <2>2. \A op, result : AnswerOf(op, result).ok => AnswerOf(op, result).error = "None"
      BY DEF AnswerOf, ok, fail, base
    <2>3. CASE answers' = Append(answers, AnswerOf(req.op, reply'))
      BY <1>2, <2>1, <2>2, <2>3, AnswerFields
    <2>4. CASE n = 4 /\ answers' = Append(answers,
                  [ok("Status") EXCEPT !.active_root = {root},
                     !.active_index = u, !.status = status])
      <3> DEFINE a == [ok("Status") EXCEPT !.active_root = {root},
                         !.active_index = u, !.status = status]
      <3>1. a.op = "Status" /\ a.error = "None"
        BY DEF ok, base
      <3>2. req.op = "Status"
        BY <2>4, TestScriptIs
      <3> HIDE DEF a
      <3> QED BY <1>2, <2>1, <2>4, <3>1, <3>2 DEF a
    <2> QED BY <1>3, <2>3, <2>4
  <1>4. CASE reply' = "none" /\ serving' = {req} /\ answers' = answers
    <2>1. AnswersAreSeq'
      BY <1>4 DEF TestServed, AnswersAreSeq
    <2> QED BY <1>1, <1>4, <2>1, TestScriptIs DEF TestServed
  <1>5. \/ reply' # "none" /\ answers' = Append(answers, AnswerOf(req.op, reply'))
        \/ reply' = "none" /\ serving' = {req} /\ answers' = answers
        \/ n = 4 /\ answers' = Append(answers,
             [ok("Status") EXCEPT !.active_root = {root},
                !.active_index = u, !.status = status])
    BY SelfTestStep
  <1> QED BY <1>3, <1>4, <1>5

(* What each request of the script does to an appliance on course.         *)
LEMMA TestPrepares ==
  ASSUME FInv, TestPreparing, TestRequestSteps(TestScript[1])
  PROVE  /\ UNCHANGED <<installed, exported>>
         /\ \/ reply' = "none" /\ TestPreparing'
            \/ reply' = "Ok" /\ TestCommitting'
            \/ reply' = "Tropic"
  <1> DEFINE t == TestTransition
  <1>0. /\ TestScript[1].op = "Prepare" /\ TestScript[1].transition = {t}
        /\ TestScript[1].receiver_challenge = TestChallenge
    BY TestScriptIs DEF ApplianceRequest
  <1>1. CASE pc = "idle" /\ Dispatch(TestScript[1])
    <2>1. PrepareCheck(t) = "Ok"
      <3>1. LiveIndex = 0
        BY H0Assumption DEF TestPreparing, LiveIndex
      <3> QED BY <1>1, <3>1, SelfTestAssumption DEF TestPreparing, PrepareCheck
    <2>2. \/ PrepareBegin(t, TestChallenge)
          \/ PrepareReadFails(t) \/ PrepareWitnessFails(t)
      BY <1>0, <1>1, <2>1 DEF Dispatch, DispatchPrepare, DispatchCommit,
        DispatchEmit, DispatchFinalize, DispatchCancel, PrepareRefused, Refuse
    <2>3. CASE PrepareBegin(t, TestChallenge)
      <3>1. IsTestRecord(staged')
        BY <2>3 DEF PrepareBegin, Continue, IsTestRecord, Prepared, WitnessKey,
          keygen_sk, NoKey
      <3> QED BY <2>3, <3>1 DEF PrepareBegin, Continue, TestPreparing, history
    <2>4. CASE PrepareReadFails(t) \/ PrepareWitnessFails(t)
      BY <2>4 DEF PrepareReadFails, PrepareWitnessFails, ChipReadFails, Answer,
        history
    <2> QED BY <2>2, <2>3, <2>4
  <1>2. CASE serving = {TestScript[1]} /\ Continuation
    <2>1. pc = "prepare_store"
      BY <1>0, <1>2 DEF FInv, ServingInv
    <2>2. PrepareStore
      BY <1>2, <2>1 DEF Continuation, CommitStatus, CommitStore, CommitCount,
        CommitCountFails, CommitFlag, CommitIndex, CancelStatus, CancelStore
    <2> QED BY <2>1, <2>2 DEF PrepareStore, Answer, TestPreparing,
      TestCommitting, history, chipVars
  <1> QED BY <1>1, <1>2 DEF TestRequestSteps

LEMMA TestCommits ==
  ASSUME FInv, TestCommitting, TestRequestSteps(TestScript[2])
  PROVE  /\ UNCHANGED <<installed, exported>>
         /\ \/ reply' = "none" /\ TestCommitting'
            \/ reply' = "Ok" /\ TestCommitted'
            \/ reply' \in {"Tropic", "CounterExhausted"}
  <1>0. TestScript[2].op = "Commit"
    BY TestScriptIs
  <1>1. CASE pc = "idle" /\ Dispatch(TestScript[2])
    <2>1. IsTestRecord(record) /\ root = Genesis /\ u = 0 /\ h = H0
      BY <1>1 DEF TestCommitting
    <2>2. CommitCheck \in {"Ok", "CounterExhausted"}
      <3>1. LiveIndex = 0
        BY <2>1, H0Assumption DEF LiveIndex
      <3> QED BY <2>1, <3>1, SelfTestAssumption DEF CommitCheck, IsTestRecord,
        IsPrepared
    <2>3. CommitSign \/ CommitRefused \/ CommitReadFails
      BY <1>0, <1>1 DEF Dispatch, DispatchPrepare, DispatchCommit,
        DispatchEmit, DispatchFinalize, DispatchCancel
    <2>4. CASE CommitSign
      <3> DEFINE rel == SignedRelease(record.txn, record.receiver_challenge,
                                      record.sk_hw)
      <3>1. staged'.release = rel
        BY <2>4 DEF CommitSign, Continue, Committed
      <3>2. IsTestRelease(rel)
        BY <2>1 DEF SignedRelease, OfflineRelease, Certificate,
          CounterEvidence, IsTestRecord, IsTestRelease
      <3> HIDE DEF rel
      <3>3. IsTestRelease(staged'.release)
        BY <3>1, <3>2
      <3> QED BY <2>1, <2>4, <3>3 DEF CommitSign, Continue, TestCommitting,
        history, chipVars
    <2>5. CASE CommitRefused \/ CommitReadFails
      BY <2>2, <2>5 DEF CommitRefused, CommitReadFails, Refuse, ChipReadFails,
        Answer, history
    <2> QED BY <2>3, <2>4, <2>5
  <1>2. CASE serving = {TestScript[2]} /\ Continuation
    <2>1. pc \in {"commit_status", "commit_store", "commit_count",
                  "commit_flag", "commit_index"}
      BY <1>0, <1>2 DEF FInv, ServingInv
    <2>2. \/ CommitStatus \/ CommitStore \/ CommitCount \/ CommitCountFails
          \/ CommitFlag \/ CommitIndex
      BY <1>2, <2>1 DEF Continuation, PrepareStore, CancelStatus, CancelStore
    <2>3. CASE CommitStatus
      BY <2>3 DEF CommitStatus, Continue, TestCommitting, chipVars, history
    <2>4. CASE CommitStore
      BY <2>4 DEF CommitStore, Continue, TestCommitting, chipVars, history
    <2>5. CASE CommitCount
      BY <2>5 DEF CommitCount, CounterUpdate, Continue, TestCommitting,
        durable, history
    <2>6. CASE CommitCountFails
      BY <2>6 DEF CommitCountFails, Answer, history
    <2>7. CASE CommitFlag
      <3>1. record'.release = record.release
        BY <2>7 DEF CommitFlag, Committed
      <3> QED BY <2>7, <3>1 DEF CommitFlag, Continue, TestCommitting,
        IsTestRelease, chipVars, history
    <2>8. CASE CommitIndex
      <3>1. /\ pc = "commit_index" /\ reply' = "Ok" /\ u' = RecordIndex
            /\ UNCHANGED <<h, root, record, installed, exported>>
        BY <2>8 DEF CommitIndex, Answer, chipVars, history
      <3>2. IsCommitted /\ record.committed
        BY <3>1 DEF FInv, IInv, StepInv
      <3>3. IsTestRelease(record.release) /\ h = H0 - 1 /\ root = Genesis
        BY <3>1 DEF TestCommitting
      <3>4. RecordIndex = 1
        BY <3>3, SelfTestAssumption DEF IsTestRelease, RecordIndex, IndexOfRelease
      <3> QED BY <3>1, <3>2, <3>3, <3>4 DEF TestCommitted, IsCommitted,
        IsTestRelease
    <2> QED BY <2>2, <2>3, <2>4, <2>5, <2>6, <2>7, <2>8
  <1> QED BY <1>1, <1>2 DEF TestRequestSteps

LEMMA TestEmits ==
  ASSUME FInv, TestCommitted, TestRequestSteps(TestScript[3])
  PROVE  /\ reply' = "Ok" /\ TestCommitted'
         /\ UNCHANGED <<record, installed>> /\ record.release \in exported'
  <1>0. TestScript[3].op = "Emit"
    BY TestScriptIs
  <1>1. ~(serving = {TestScript[3]})
    BY <1>0 DEF FInv, ServingInv
  <1>2. Emit \/ EmitRefused
    BY <1>0, <1>1 DEF TestRequestSteps, Dispatch, DispatchPrepare,
      DispatchCommit, DispatchEmit, DispatchFinalize, DispatchCancel
  <1>3. Emit
    BY <1>2 DEF TestCommitted, EmitRefused, Refuse
  <1> QED BY <1>3 DEF Emit, Answer, TestCommitted, IsCommitted, IsTestRelease,
    chipVars, durable

LEMMA TestFinalizes ==
  ASSUME FInv, TestCommitted, TestRequestSteps(TestScript[4])
  PROVE  /\ exported' = exported
         /\ \/ /\ reply' = "Ok" /\ TestFinalized'
               /\ installed' = installed \cup {record.release}
            \/ reply' = "Tropic"
  <1>0. TestScript[4].op = "Finalize"
    BY TestScriptIs
  <1>1. ~(serving = {TestScript[4]})
    BY <1>0 DEF FInv, ServingInv
  <1>2. Finalize \/ FinalizeRefused \/ FinalizeReadFails
    BY <1>0, <1>1 DEF TestRequestSteps, Dispatch, DispatchPrepare,
      DispatchCommit, DispatchEmit, DispatchFinalize, DispatchCancel
  <1>3. FinalizeCheck = "Ok"
    <2>1. LiveIndex = 1
      BY H0Assumption DEF TestCommitted, LiveIndex
    <2> QED BY <2>1 DEF TestCommitted, FinalizeCheck
  <1>4. CASE Finalize
    BY <1>4 DEF Finalize, Answer, TestCommitted, TestFinalized, IsTestRelease,
      chipVars
  <1>5. CASE FinalizeReadFails
    BY <1>5 DEF FinalizeReadFails, ChipReadFails, Answer, history
  <1> QED BY <1>2, <1>3, <1>4, <1>5 DEF FinalizeRefused, Refuse

(* A step of a self-test on course keeps it there, or its answer tells of  *)
(* a chip failure.                                                         *)
LEMMA CourseKept ==
  ASSUME FInv, TestServed, OnCourse, SelfTest
  PROVE  ChipFailed' \/ OnCourse'
  <1> DEFINE n == Len(answers)
             req == TestScript[n + 1]
             report == [ok("Status") EXCEPT !.active_root = {root},
                          !.active_index = u, !.status = status]
  <1>0. n \in 0..4
    BY SelfTestStep
  <1>a. ASSUME NEW a, answers' = Append(answers, a)
        PROVE  /\ Len(answers') = n + 1 /\ answers'[n + 1] = a
               /\ \A i \in 1..n : answers'[i] = answers[i]
    BY <1>a, OneMoreAnswer
  <1>b. ASSUME NEW a, answers' = Append(answers, a),
               a.error \in {"Tropic", "CounterExhausted"}
        PROVE  ChipFailed'
    <2>1. Len(answers') = n + 1 /\ answers'[n + 1] = a /\ n + 1 \in 1..(n + 1)
      BY <1>0, <1>a, <1>b
    <2> QED BY <1>b, <2>1 DEF ChipFailed
  <1>c. ASSUME NEW a, answers' = Append(answers, a), a.ok
        PROVE  \A i \in 1..n + 1 : answers'[i].ok
    <2> SUFFICES ASSUME NEW i \in 1..n + 1 PROVE answers'[i].ok
      OBVIOUS
    <2>1. i = n + 1 \/ i \in 1..n
      BY <1>0
    <2> QED BY <1>a, <1>c, <2>1 DEF OnCourse
  <1>d. n # 4 =>
          /\ TestRequestSteps(req)
          /\ \/ answers' = Append(answers, AnswerOf(req.op, reply'))
                  /\ reply' # "none"
             \/ reply' = "none" /\ answers' = answers
    <2>1. \/ /\ TestRequestSteps(req)
             /\ reply' # "none" /\ serving' = {}
             /\ answers' = Append(answers, AnswerOf(req.op, reply'))
          \/ /\ TestRequestSteps(req)
             /\ reply' = "none" /\ serving' = {req}
             /\ answers' = answers
          \/ /\ n = 4 /\ UNCHANGED vars /\ serving' = {}
             /\ answers' = Append(answers,
                  [ok("Status") EXCEPT !.active_root = {root},
                     !.active_index = u, !.status = status])
      BY SelfTestStep
    <2> HIDE DEF n, req
    <2> QED BY <2>1
  <1>e. \A op : AnswerOf(op, "Tropic").error = "Tropic"
                  /\ AnswerOf(op, "CounterExhausted").error = "CounterExhausted"
                  /\ AnswerOf(op, "Ok").ok
    BY AnswerFields
  <1>1. CASE n = 0
    <2>1. req = TestScript[1] /\ TestPreparing /\ installed = {}
      BY <1>1 DEF OnCourse
    <2>2. /\ installed' = {}
          /\ \/ reply' = "none" /\ TestPreparing'
             \/ reply' = "Ok" /\ TestCommitting'
             \/ reply' = "Tropic"
      BY <1>1, <1>d, <2>1, TestPrepares
    <2>3. CASE answers' = answers
      <3>1. TestPreparing'
        BY <1>d, <1>1, <2>2, <2>3, <1>a
      <3> QED BY <1>1, <2>2, <2>3, <3>1 DEF OnCourse
    <2>4. CASE answers' = Append(answers, AnswerOf(req.op, reply')) /\ reply' = "Ok"
      <3>1. Len(answers') = 1 /\ answers'[1].ok
        BY <1>1, <1>a, <1>e, <2>4
      <3> QED BY <2>2, <2>4, <3>1 DEF OnCourse
    <2>5. CASE answers' = Append(answers, AnswerOf(req.op, reply')) /\ reply' = "Tropic"
      BY <1>b, <1>e, <2>5
    <2> QED BY <1>1, <1>d, <2>2, <2>3, <2>4, <2>5
  <1>2. CASE n = 1
    <2>1. req = TestScript[2] /\ TestCommitting /\ installed = {}
      BY <1>2 DEF OnCourse
    <2>2. /\ installed' = {}
          /\ \/ reply' = "none" /\ TestCommitting'
             \/ reply' = "Ok" /\ TestCommitted'
             \/ reply' \in {"Tropic", "CounterExhausted"}
      BY <1>2, <1>d, <2>1, TestCommits
    <2>3. CASE answers' = answers
      <3>1. TestCommitting'
        BY <1>d, <1>2, <2>2, <2>3, <1>a
      <3>2. Len(answers') = 1 /\ \A i \in 1..1 : answers'[i].ok
        BY <1>2, <2>3 DEF OnCourse
      <3> QED BY <2>2, <3>1, <3>2 DEF OnCourse
    <2>4. CASE answers' = Append(answers, AnswerOf(req.op, reply')) /\ reply' = "Ok"
      <3>1. Len(answers') = 2 /\ \A i \in 1..2 : answers'[i].ok
        BY <1>2, <1>a, <1>c, <1>e, <2>4
      <3> QED BY <2>2, <2>4, <3>1 DEF OnCourse
    <2>5. CASE answers' = Append(answers, AnswerOf(req.op, reply'))
               /\ reply' \in {"Tropic", "CounterExhausted"}
      BY <1>b, <1>e, <2>5
    <2> QED BY <1>2, <1>d, <2>2, <2>3, <2>4, <2>5
  <1>3. CASE n = 2
    <2>1. req = TestScript[3] /\ TestCommitted /\ installed = {}
      BY <1>3 DEF OnCourse
    <2>2. /\ reply' = "Ok" /\ TestCommitted' /\ record' = record
          /\ installed' = {} /\ record.release \in exported'
      BY <1>3, <1>d, <2>1, TestEmits
    <2> DEFINE a == AnswerOf("Emit", "Ok")
    <2>3. a.ok /\ a.release = {record.release}
      BY <1>e DEF AnswerOf, ok, base
    <2>4. answers' = Append(answers, a)
      BY <1>3, <1>d, <2>1, <2>2, TestScriptIs
    <2> HIDE DEF a
    <2>5. Len(answers') = 3 /\ answers'[3] = a /\ \A i \in 1..3 : answers'[i].ok
      BY <1>3, <1>a, <1>c, <2>3, <2>4
    <2>6. /\ answers'[3].release = {record'.release}
          /\ record'.release \in exported' /\ IsTestRelease(record'.release)
      BY <2>1, <2>2, <2>3, <2>5 DEF TestCommitted
    <2> QED BY <2>2, <2>5, <2>6 DEF OnCourse, IsTestRelease
  <1>4. CASE n = 3
    <2>1. /\ req = TestScript[4] /\ TestCommitted /\ installed = {}
          /\ answers[3].release = {record.release}
          /\ record.release \in exported /\ IsTestRelease(record.release)
      BY <1>4 DEF OnCourse
    <2>2. /\ exported' = exported
          /\ \/ /\ reply' = "Ok" /\ TestFinalized'
                /\ installed' = {record.release}
             \/ reply' = "Tropic"
      BY <1>4, <1>d, <2>1, TestFinalizes
    <2>3. CASE answers' = Append(answers, AnswerOf(req.op, reply')) /\ reply' = "Ok"
      <3> DEFINE a == AnswerOf("Finalize", "Ok")
      <3>1. a.ok /\ a.active_root = {TestTransition.next_root}
        BY <1>e, <2>1 DEF AnswerOf, ok, base, IsTestRelease
      <3>2. answers' = Append(answers, a)
        BY <2>1, <2>3, TestScriptIs
      <3> HIDE DEF a
      <3>3. Len(answers') = 4 /\ answers'[4] = a /\ answers'[3] = answers[3]
            /\ \A i \in 1..4 : answers'[i].ok
        BY <1>4, <1>a, <1>c, <3>1, <3>2
      <3>4. /\ answers'[3].release = {record.release}
            /\ record.release \in exported' /\ IsTestRelease(record.release)
        BY <2>1, <2>2, <3>3
      <3>5. TestFinalized' /\ installed' = {record.release}
        BY <2>2, <2>3
      <3>6. answers'[4].active_root = {TestTransition.next_root}
        BY <3>1, <3>3
      <3>7. \A r \in answers'[3].release : r \in exported' /\ IsTestRelease(r)
        BY <3>4
      <3> QED BY <3>3, <3>4, <3>5, <3>6, <3>7 DEF OnCourse, IsTestRelease
    <2>4. CASE answers' = Append(answers, AnswerOf(req.op, reply')) /\ reply' = "Tropic"
      BY <1>b, <1>e, <2>4
    <2> QED BY <1>4, <1>d, <2>2, <2>3, <2>4
  <1>5. CASE n = 4
    <2>1. req = TestScript[5] /\ TestFinalized
      BY <1>5 DEF OnCourse
    <2>2. ~TestRequestSteps(TestScript[5])
      BY TestScriptIs DEF TestRequestSteps, FInv, ServingInv, Dispatch,
        DispatchPrepare, DispatchCommit, DispatchEmit, DispatchFinalize,
        DispatchCancel
    <2>3. UNCHANGED vars /\ answers' = Append(answers, report)
      BY <1>5, <2>1, <2>2, SelfTestStep
    <2>4. report.ok /\ report.active_index = 1 /\ report.status = "Ready"
      BY <2>1 DEF ok, base, TestFinalized
    <2> HIDE DEF report
    <2>5. /\ Len(answers') = 5 /\ answers'[5] = report
          /\ answers'[4] = answers[4] /\ answers'[3] = answers[3]
          /\ \A i \in 1..5 : answers'[i].ok
      BY <1>5, <1>a, <1>c, <2>3, <2>4
    <2>6. TestFinalized' /\ installed' = installed /\ exported' = exported
      BY <2>1, <2>3 DEF TestFinalized, vars, chipVars, durable, history
    <2>7. /\ answers[3].release # {} /\ answers[3].release = installed
          /\ \A r \in answers[3].release : r \in exported /\ IsTestRelease(r)
          /\ answers[4].active_root = {TestTransition.next_root}
      BY <1>5 DEF OnCourse
    <2> QED BY <2>4, <2>5, <2>6, <2>7 DEF OnCourse, IsTestRelease
  <1> QED BY <1>0, <1>1, <1>2, <1>3, <1>4, <1>5

(* The receiver's predicate accepts the release of a self-test on course.  *)
LEMMA TestAccepted ==
  ASSUME FInv, NEW r \in exported, IsTestRelease(r), u = 1, TypeOK
  PROVE  accept_offline(r, TestContext, {r.counter.live_counter_claim}) = "Ok"
  <1> DEFINE t == TestTransition
             rc == TestChallenge
             d == transition_digest(t)
             x == witness_input(t, d, AnchorId, Slot, rc)
             p_hw == pk_hash(r.cert.pk_hw)
             m == cert_message(t, d, x, p_hw, AnchorId, Slot, rc)
  <1>1. /\ r.transition = t /\ r.cert.receiver_challenge = rc
        /\ r.counter.live_counter_claim = H0 - 1 /\ Verifiable(r)
    BY DEF IsTestRelease, FInv, ReleasesVerify
  <1>2. r.cert = Certificate(t, d, x, p_hw, r.cert.pk_hw, r.cert.sigma,
                             AnchorId, Slot, rc)
    BY <1>1 DEF Verifiable, Recomputed
  <1>3. /\ r.cert.prev_root = t.prev_root /\ r.cert.next_root = t.next_root
        /\ r.cert.anchor_counter = t.anchor_counter
        /\ r.cert.next_anchor_counter = t.next_anchor_counter
        /\ r.cert.transition_digest = d /\ r.cert.witness_input = x
        /\ r.cert.pk_hash = p_hw /\ r.cert.anchor_id = AnchorId
        /\ r.cert.slot = Slot /\ r.cert.receiver_challenge = rc
    <2> HIDE DEF t, rc, d, x, p_hw
    <2> QED BY <1>2 DEF Certificate
  <1>4. verify(r.cert.pk_hw, m, r.cert.sigma)
    <2>1. MessageOf(r) = m
      BY <1>1, <1>3 DEF MessageOf
    <2> QED BY <1>1, <2>1 DEF Verifiable
  <1>5. /\ TestContext.accepted_prev_root = Genesis
        /\ TestContext.pinned_anchor_id = AnchorId
        /\ TestContext.expected_receiver_challenge = rc
        /\ TestContext.expected_policy_hash = t.authority_policy_hash
        /\ TestContext.device_id = t.recipient_device_id
        /\ TestContext.enrolled_counter = H0
        /\ TestContext.exposure_cap_index = H0
        /\ TestContext.anchor_uncompromised
    BY DEF TestContext, VerifierContext
  <1>6. /\ t.prev_root = Genesis /\ t.anchor_counter = 0
        /\ t.next_anchor_counter = 1 /\ 0 + 1 = 1
    BY SelfTestAssumption
  <1>7. 1 <= H0 /\ H0 \in Nat
    BY H0Assumption DEF TypeOK
  <1>8. CounterProves({r.counter.live_counter_claim}, r.counter, t, TestContext)
    BY <1>1, <1>5, <1>6, <1>7 DEF CounterProves, Verifiable
  <1>9. /\ SameAdvance(r.cert, t) /\ AnswersChallenge(r.cert, TestContext)
        /\ root_commits_counter(t.prev_root, t.anchor_counter)
        /\ verify_transition(t) /\ delivers_to_receiver(t, TestContext)
    BY <1>3, <1>5, <1>6, TrivialDsmAssumption DEF SameAdvance,
      AnswersChallenge, root_commits_counter, verify_transition,
      delivers_to_receiver
  <1>10. ~(t.next_anchor_counter > TestContext.exposure_cap_index)
    BY <1>5, <1>6, <1>7
  <1>11. t.anchor_counter + 1 = t.next_anchor_counter
    BY <1>6
  <1> HIDE DEF d, x, p_hw, m
  <1> QED BY <1>1, <1>3, <1>4, <1>5, <1>6, <1>8, <1>9, <1>10, <1>11
        DEF accept_offline, d, x, p_hw, m

LEMMA CoursePasses ==
  ASSUME FInv, OnCourse, Tested
  PROVE  /\ Passes
         /\ root = TestTransition.next_root /\ u = 1 /\ LiveIndex = 1
         /\ answers[3].release = installed
  <1>1. Len(answers) = 5
    BY TestScriptIs DEF Tested
  <1>2. /\ TestFinalized /\ \A i \in 1..5 : answers[i].ok
        /\ answers[3].release # {} /\ answers[3].release = installed
        /\ \A r \in answers[3].release : r \in exported /\ IsTestRelease(r)
        /\ answers[4].active_root = {TestTransition.next_root}
        /\ answers[5].active_index = 1 /\ answers[5].status = "Ready"
    BY <1>1 DEF OnCourse
  <1>3. VerifyOk
    <2>1. PICK r \in answers[3].release : r \in exported /\ IsTestRelease(r)
      BY <1>2
    <2> QED BY <1>2, <2>1, TestAccepted DEF VerifyOk, FInv, IInv, TestFinalized
  <1>4. LiveIndex = 1
    BY <1>2, H0Assumption DEF TestFinalized, LiveIndex
  <1> QED BY <1>2, <1>3, <1>4, TestScriptIs DEF Passes, Tested, TestFinalized

LEMMA TestInvKept ==
  ASSUME FInv, TestInv, [FirmwareNext]_deviceVars
  PROVE  TestInv'
  <1>1. CASE SelfTest
    <2>1. TestServed'
      BY <1>1, TestServedKept DEF TestInv
    <2>2. CASE OnCourse
      BY <1>1, <2>1, <2>2, CourseKept DEF TestInv
    <2>3. CASE ChipFailed
      <3>1. PICK i \in 1..Len(answers) :
              answers[i].error \in {"Tropic", "CounterExhausted"}
        BY <2>3 DEF ChipFailed
      <3>2. i \in 1..Len(answers') /\ answers'[i] = answers[i]
        <4>1. ASSUME NEW a, answers' = Append(answers, a)
              PROVE  i \in 1..Len(answers') /\ answers'[i] = answers[i]
          BY <4>1, OneMoreAnswer DEF TestInv
        <4>2. CASE answers' = answers
          BY <4>2
        <4> QED BY <1>1, <4>1, <4>2 DEF SelfTest
      <3> QED BY <2>1, <3>1, <3>2 DEF TestInv, ChipFailed
    <2> QED BY <1>1, <2>2, <2>3 DEF TestInv, SelfTest
  <1>2. ASSUME answers' = <<>>, phase' # "selftest" PROVE TestInv'
    BY <1>2, TestScriptIs DEF TestInv, TestServed, AnswersAreSeq
  <1>3. CASE EnrollForTest
    <2>1. answers' = <<>> /\ serving' = {}
      BY <1>3 DEF EnrollForTest, NewAppliance, TestInv, TestServed
    <2>2. OnCourse'
      <3>1. TestPreparing'
        BY <1>3 DEF EnrollForTest, EnrollOk, NewAppliance, TestPreparing
      <3> QED BY <1>3, <2>1, <3>1 DEF OnCourse, EnrollForTest, NewAppliance
    <2> QED BY <2>1, <2>2, TestScriptIs DEF TestInv, TestServed, AnswersAreSeq
  <1>4. CASE EnrollForTestFails \/ SessionStart \/ SessionFails
    BY <1>2, <1>4 DEF EnrollForTestFails, SessionStart, SessionFails, TestInv,
      TestServed
  <1>5. CASE EnrollAgain \/ PowerCycle
    BY <1>2, <1>5 DEF EnrollAgain, PowerCycle
  <1>6. CASE Recover \/ ServeForever
    BY <1>2, <1>6 DEF Recover, ServeForever, TestInv, TestServed
  <1>7. CASE UNCHANGED deviceVars
    BY <1>7 DEF deviceVars, firmwareVars, servedVars, serviceVars, vars,
      chipVars, durable, volatile, history, TestInv, TestServed, AnswersAreSeq,
      ChipFailed, OnCourse, TestPreparing, TestCommitting, TestCommitted,
      TestFinalized, IsTestRecord, IsTestRelease, IsCommitted
  <1> QED BY <1>1, <1>3, <1>4, <1>5, <1>6, <1>7 DEF FirmwareNext, Firmware

LEMMA TestInvInit == FirmwareInit => TestInv
  BY TestScriptIs DEF FirmwareInit, TestInv, TestServed, AnswersAreSeq

(* The self-test is where its answers say, until one tells of a chip       *)
(* failure.                                                                *)
THEOREM SelfTestInductive == FirmwareSpec => []TestInv
  <1> QED BY FirmwareInductive, TestInvInit, TestInvKept, PTL DEF FirmwareSpec

(* A PASS is about the appliance: what was emitted is installed, the index *)
(* and the counter have moved by one.                                      *)
THEOREM PassIsTrue == FirmwareSpec => []PassMeansAdvanced
  <1>1. FInv /\ TestInv => PassMeansAdvanced
    <2> SUFFICES ASSUME FInv, TestInv, phase = "selftest", Passes
                 PROVE  /\ root = TestTransition.next_root /\ u = 1
                        /\ LiveIndex = 1 /\ answers[3].release = installed
      BY DEF PassMeansAdvanced
    <2>1. ~ChipFailed
      <3> SUFFICES ASSUME NEW i \in 1..Len(answers),
                          answers[i].error \in {"Tropic", "CounterExhausted"}
                   PROVE  FALSE
        BY DEF ChipFailed
      <3>1. answers[i].ok
        BY TestScriptIs DEF Passes, Tested
      <3> QED BY <3>1 DEF TestInv, TestServed
    <2> QED BY <2>1, CoursePasses DEF TestInv, Passes
  <1> QED BY <1>1, FirmwareInductive, SelfTestInductive, PTL

(* Without a chip failure the self-test passes: the five requests succeed  *)
(* and accept_offline accepts the release.                                 *)
THEOREM FailIsTheChip == FirmwareSpec => []FailMeansChipFailure
  <1>1. FInv /\ TestInv => FailMeansChipFailure
    <2> SUFFICES ASSUME FInv, TestInv, Tested, ~Passes
                 PROVE  \E i \in 1..Len(TestScript) :
                          answers[i].error \in {"Tropic", "CounterExhausted"}
      BY DEF FailMeansChipFailure
    <2>1. phase = "selftest"
      <3>1. phase # "selftest" => answers = <<>>
        BY DEF TestInv, TestServed
      <3>2. Len(answers) = 5
        BY TestScriptIs DEF Tested
      <3> QED BY <3>1, <3>2
    <2>2. ChipFailed
      BY <2>1, CoursePasses DEF TestInv
    <2> QED BY <2>2 DEF ChipFailed, Tested
  <1> QED BY <1>1, FirmwareInductive, SelfTestInductive, PTL

(* A step of the firmware keeps what its service keeps.                    *)
LEMMA FirmwareTypeKept ==
  ASSUME FInv, FInv', TestInv, TestInv', FirmwareTypeOK,
         [FirmwareNext]_deviceVars
  PROVE  FirmwareTypeOK'
  <1>1. ServiceTypeOK'
    <2>1. CASE Running \/ UNCHANGED servedVars
      <3>1. [ServiceNext]_servedVars
        BY <2>1, RunningIsService
      <3> QED BY <3>1, ServiceTypeKept DEF FInv, FirmwareTypeOK
    <2>2. CASE NewAppliance
      BY <2>2 DEF NewAppliance, FInv, IInv, ServiceTypeOK
    <2> QED BY <2>1, <2>2 DEF FirmwareNext, Firmware, Running, SessionStart,
      SessionFails, EnrollForTest, EnrollForTestFails, EnrollAgain,
      PowerCycle, deviceVars
  <1>2. /\ phase' \in {"session", "no_session", "enroll", "selftest",
                       "enroll_again", "recover", "serving"}
        /\ boots' \in 0..MaxBoots
    <2>1. /\ phase \in {"session", "no_session", "enroll", "selftest",
                        "enroll_again", "recover", "serving"}
          /\ boots \in 0..MaxBoots
      BY DEF FirmwareTypeOK
    <2>2. CASE PowerCycle
      BY <2>1, <2>2, MaxBootsAssumption DEF PowerCycle
    <2>3. CASE Firmware \/ ServeForever \/ UNCHANGED deviceVars
      BY <2>1, <2>3 DEF Firmware, SessionStart, SessionFails, EnrollForTest,
        EnrollForTestFails, SelfTest, EnrollAgain, Recover, ServeForever,
        deviceVars, firmwareVars
    <2> QED BY <2>2, <2>3 DEF FirmwareNext
  <1>3. /\ Len(answers') <= Len(TestScript)
        /\ \A i \in 1..Len(answers') : answers'[i].op = TestScript[i].op
    BY DEF TestInv, TestServed
  <1>4. epoch' \in Nat /\ \A p \in handed' : p[1] \in 0..epoch'
    BY DEF FInv, HandedInv
  <1>5. ASSUME NEW p \in handed' PROVE p[2].transition \in Transitions
    <2>1. CASE p \in handed
      BY <2>1 DEF FirmwareTypeOK
    <2>2. CASE p \notin handed
      <3>1. SelfTest \/ ServeForever
        BY <2>2 DEF FirmwareNext, Firmware, SessionStart, SessionFails,
          EnrollForTest, EnrollForTestFails, EnrollAgain, Recover, PowerCycle,
          deviceVars, firmwareVars
      <3>2. PICK r \in Released : p = <<epoch, r>>
        BY <2>2, <3>1 DEF SelfTest, ServeForever, HandOut
      <3>3. r \in exported'
        BY <3>1, ReleasedIsExported DEF SelfTest, ServeForever, FInv
      <3> QED BY <3>2, <3>3 DEF FInv, IInv, TypeOK
    <2> QED BY <2>1, <2>2
  <1> QED BY <1>1, <1>2, <1>3, <1>4, <1>5 DEF FirmwareTypeOK

(* Everything the firmware keeps has its type, over all boots.             *)
THEOREM FirmwareTypeCorrect == FirmwareSpec => []FirmwareTypeOK
  <1>1. FirmwareInit /\ FInv /\ TestInv => FirmwareTypeOK
    <2> SUFFICES ASSUME FirmwareInit, FInv, TestInv PROVE FirmwareTypeOK
      OBVIOUS
    <2>1. ServiceTypeOK
      BY DEF FirmwareInit, FInv, IInv, ServiceTypeOK
    <2>2. boots \in 0..MaxBoots /\ epoch \in Nat
      BY MaxBootsAssumption DEF FirmwareInit
    <2> QED BY <2>1, <2>2 DEF FirmwareInit, FirmwareTypeOK, TestInv, TestServed
  <1> QED BY <1>1, FirmwareInductive, SelfTestInductive, FirmwareTypeKept, PTL
        DEF FirmwareSpec
=============================================================================
