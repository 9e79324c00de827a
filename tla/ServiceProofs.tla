---------------------------- MODULE ServiceProofs ----------------------------
(***************************************************************************)
(* The service drives the appliance as the appliance may be driven: every  *)
(* invariant of Appliance holds behind the wire, whatever the host sends.  *)
(* And what it has answered ok to a commit is never lost.                  *)
(***************************************************************************)
EXTENDS Service, ApplianceProofs

(* The fields of a request that reach the appliance have their types.      *)
LEMMA FieldsTyped ==
  ASSUME NEW req \in Requests, PrepareFields(req) = "Ok"
  PROVE  /\ \A t \in req.transition : t \in Transitions
         /\ req.receiver_challenge \in Challenges
  <1>1. /\ \/ req.transition \in {{}, {Malformed}}
           \/ \E t \in Transitions : req.transition = {t}
        /\ req.receiver_challenge \in Challenges \cup {Malformed}
    BY RequestAssumption
  <1>2. /\ req.transition # {} /\ req.transition # {Malformed}
        /\ req.receiver_challenge # Malformed
    BY DEF PrepareFields
  <1> QED BY <1>1, <1>2

(* What the service runs for a request is an operation of the appliance.   *)
LEMMA DispatchIsNext ==
  ASSUME NEW req \in Requests, Dispatch(req)
  PROVE  Next
  <1>1. CASE DispatchPrepare(req)
    <2>1. PICK t \in req.transition :
            \/ PrepareBegin(t, req.receiver_challenge)
            \/ PrepareRefused(t) \/ PrepareReadFails(t) \/ PrepareWitnessFails(t)
      BY <1>1 DEF DispatchPrepare
    <2>2. t \in Transitions /\ req.receiver_challenge \in Challenges
      BY <1>1, FieldsTyped DEF DispatchPrepare
    <2>3. PrepareStep
      BY <2>1, <2>2 DEF PrepareStep
    <2> QED BY <2>3 DEF Next
  <1>2. CASE \/ DispatchCommit(req) \/ DispatchEmit(req)
             \/ DispatchFinalize(req) \/ DispatchCancel(req)
    BY <1>2 DEF DispatchCommit, DispatchEmit, DispatchFinalize,
      DispatchCancel, Next, CommitStep, FinalizeStep, CancelStep
  <1> QED BY <1>1, <1>2 DEF Dispatch

(* Every step of the service is one of the appliance, or leaves it alone.  *)
LEMMA ServiceStep == [ServiceNext]_servedVars => [Next]_vars
  <1> SUFFICES ASSUME [ServiceNext]_servedVars PROVE [Next]_vars
    OBVIOUS
  <1>1. ASSUME NEW frame \in Frames, handle(frame) PROVE [Next]_vars
    BY <1>1, DispatchIsNext DEF handle
  <1>2. CASE Continuation
    <2>1. PrepareStep \/ CommitStep \/ CancelStep
      BY <1>2 DEF Continuation, PrepareStep, CommitStep, CancelStep
    <2> QED BY <2>1 DEF Next
  <1>3. CASE Boot \/ Unplug \/ Outside
    BY <1>3 DEF Boot, Unplug, Outside, Next, EnvironmentStep
  <1>4. CASE UNCHANGED servedVars
    BY <1>4 DEF servedVars
  <1> QED BY <1>1, <1>2, <1>3, <1>4 DEF ServiceNext

(* Behind the wire the appliance behaves as Appliance allows.              *)
THEOREM ServiceImplementsAppliance == ServiceSpec => Spec
  <1>1. ServiceInit => Init
    BY DEF ServiceInit
  <1> QED BY <1>1, ServiceStep, PTL DEF ServiceSpec, Spec

-----------------------------------------------------------------------------
(* Which request is being served.                                          *)

LEMMA ServingInvInit == ServiceInit => ServingInv
  BY DEF ServiceInit, ServingInv

LEMMA HandleKeepsServingInv ==
  ASSUME NEW frame \in Frames, handle(frame)
  PROVE  ServingInv'
  <1>1. CASE serving' = {}
    BY <1>1 DEF ServingInv
  <1>2. CASE serving' = {frame} /\ Dispatch(frame) /\ reply' = "none"
    <2>1. CASE DispatchPrepare(frame)
      <3>1. PICK t \in frame.transition :
              \/ PrepareBegin(t, frame.receiver_challenge)
              \/ PrepareRefused(t) \/ PrepareReadFails(t)
              \/ PrepareWitnessFails(t)
        BY <2>1 DEF DispatchPrepare
      <3>2. PrepareBegin(t, frame.receiver_challenge)
        BY <1>2, <3>1 DEF PrepareRefused, PrepareReadFails,
          PrepareWitnessFails, Refuse, ChipReadFails, Answer, PrepareCheck
      <3> QED BY <1>2, <2>1, <3>2 DEF PrepareBegin, Continue, DispatchPrepare,
        ServingInv
    <2>2. CASE DispatchCommit(frame)
      <3>1. CommitSign
        BY <1>2, <2>2 DEF DispatchCommit, CommitRefused, CommitReadFails,
          Refuse, ChipReadFails, Answer, CommitCheck
      <3> QED BY <1>2, <2>2, <3>1 DEF CommitSign, Continue, DispatchCommit,
        ServingInv
    <2>3. CASE DispatchCancel(frame)
      <3>1. CancelErase
        BY <1>2, <2>3 DEF DispatchCancel, CancelRefused, Refuse, Answer
      <3> QED BY <1>2, <2>3, <3>1 DEF CancelErase, Continue, DispatchCancel,
        ServingInv
    <2>4. CASE DispatchEmit(frame) \/ DispatchFinalize(frame)
      BY <1>2, <2>4 DEF DispatchEmit, DispatchFinalize, Emit, EmitRefused,
        Finalize, FinalizeRefused, FinalizeReadFails, FinalizeCheck, Refuse,
        ChipReadFails, Answer
    <2> QED BY <1>2, <2>1, <2>2, <2>3, <2>4 DEF Dispatch
  <1> QED BY <1>1, <1>2 DEF handle, Dispatch, DirectAnswer, AfterStep, Respond

LEMMA ServingInvKept ==
  ASSUME ServingInv, [ServiceNext]_servedVars
  PROVE  ServingInv'
  <1>1. CASE Continuation
    <2>1. PICK req \in serving : AfterStep(req)
      BY <1>1 DEF Continuation
    <2>2. CASE serving' = {}
      BY <2>2 DEF ServingInv
    <2>3. CASE serving' = {req} /\ reply' = "none"
      <3>1. \/ CommitStatus \/ CommitStore \/ CommitCount \/ CommitFlag
            \/ CancelStatus
        BY <1>1, <2>3 DEF Continuation, PrepareStore, CommitCountFails,
          CommitIndex, CancelStore, Answer
      <3> QED BY <2>3, <3>1 DEF CommitStatus, CommitStore, CommitCount,
        CommitFlag, CancelStatus, Continue, ServingInv
    <2> QED BY <2>1, <2>2, <2>3 DEF AfterStep, Respond
  <1>2. CASE Boot
    <2>1. pc \in {"boot", "recover_read", "recover_count", "recover_flag",
                  "recover_index"}
      BY <1>2 DEF Boot, RecoverStep, RecoverFaulty, RecoverReemit,
        RecoverCountPending, RecoverCount, RecoverCountFails, RecoverFlag,
        RecoverIndex, RecoverStale, RecoverPrepared, RecoverReady, RecoverRead,
        RecoverAhead
    <2>2. serving = {} /\ serving' = {}
      BY <1>2, <2>1 DEF Boot, ServingInv
    <2> QED BY <2>2 DEF ServingInv
  <1>3. CASE Unplug
    BY <1>3 DEF Unplug, ServingInv
  <1>4. CASE Outside \/ UNCHANGED servedVars
    BY <1>4 DEF Outside, CounterWaste, OnlineAdvance, volatile, servedVars,
      serviceVars, vars, ServingInv
  <1> QED BY <1>1, <1>2, <1>3, <1>4, HandleKeepsServingInv DEF ServiceNext

-----------------------------------------------------------------------------
(* Acknowledged commits.                                                   *)

(* A commit is answered ok by the step that takes its index, when the      *)
(* record is marked.                                                       *)
LEMMA AckedIsMarked ==
  ASSUME IInv, ServingInv, [ServiceNext]_servedVars, NEW r \in acked',
         r \notin acked
  PROVE  IsCommitted' /\ record'.committed /\ record'.release = r
  <1>1. ASSUME NEW frame \in Frames, handle(frame)
        PROVE  FALSE
    <2>1. CASE frame \in Requests /\ Dispatch(frame)
      <3>1. AfterStep(frame)
        BY <2>1 DEF Dispatch
      <3>2. frame.op = "Commit" /\ reply' = "Ok"
        BY <3>1 DEF AfterStep, Respond, AnswerOf, ok, fail, base
      <3>3. CommitSign \/ CommitRefused \/ CommitReadFails
        BY <2>1, <3>2 DEF Dispatch, DispatchPrepare, DispatchCommit,
          DispatchEmit, DispatchFinalize, DispatchCancel
      <3> QED BY <3>2, <3>3 DEF CommitSign, Continue, CommitRefused, Refuse,
        CommitReadFails, ChipReadFails, Answer
    <2>2. CASE DirectAnswer(frame)
      BY <2>2 DEF DirectAnswer, Respond, ok, fail, base
    <2> QED BY <1>1, <2>1, <2>2 DEF handle
  <1>2. CASE Continuation
    <2>1. PICK req \in serving : AfterStep(req)
      BY <1>2 DEF Continuation
    <2>2. reply' = "Ok" /\ r = record.release /\ req.op = "Commit"
      BY <2>1 DEF AfterStep, Respond, AnswerOf, ok, fail, base
    <2>3. pc \notin {"prepare_store", "cancel_store"}
      BY <2>1, <2>2 DEF ServingInv
    <2>4. CommitIndex
      BY <1>2, <2>2, <2>3 DEF Continuation, PrepareStore, CommitStatus,
        CommitStore, CommitCount, CommitCountFails, CommitFlag, CancelStatus,
        CancelStore, Answer, Continue
    <2>5. IsCommitted /\ record.committed /\ record' = record
      BY <2>4 DEF CommitIndex, IInv, StepInv
    <2> QED BY <2>2, <2>5 DEF IsCommitted
  <1>3. CASE Boot \/ Unplug \/ Outside \/ UNCHANGED servedVars
    BY <1>3 DEF Boot, Unplug, Outside, servedVars, serviceVars
  <1> QED BY <1>1, <1>2, <1>3 DEF ServiceNext

(* A commit that was answered ok is never lost.                            *)
THEOREM AckedCommitIsKept == ServiceSpec => []AckedCommitKept
  <1>1. ServiceInit => AckedCommitKept
    BY DEF ServiceInit, AckedCommitKept
  <1>2. IInv /\ ServingInv /\ AckedCommitKept /\ [ServiceNext]_servedVars
          => AckedCommitKept'
    <2> SUFFICES ASSUME IInv, ServingInv, AckedCommitKept,
                        [ServiceNext]_servedVars, NEW r \in acked'
                 PROVE  \/ r \in installed'
                        \/ /\ IsCommitted' /\ record'.committed
                           /\ record'.release = r
      BY DEF AckedCommitKept
    <2>1. CASE r \notin acked
      BY <2>1, AckedIsMarked
    <2>2. CASE r \in installed
      BY <2>2, ServiceStep, InstalledGrows
    <2>3. CASE IsCommitted /\ record.committed /\ record.release = r
      BY <2>3, ServiceStep, CandidateStep
    <2> QED BY <2>1, <2>2, <2>3 DEF AckedCommitKept
  <1>3. ServiceSpec => []IInv
    BY ServiceImplementsAppliance, Inductive, PTL
  <1> QED BY <1>1, <1>2, <1>3, ServingInvInit, ServingInvKept, PTL
        DEF ServiceSpec

-----------------------------------------------------------------------------
(* Refusals.                                                               *)

(* What the answer to an operation says of its result.                     *)
LEMMA AnswerFields ==
  \A op, result : /\ AnswerOf(op, result).op = op
                  /\ AnswerOf(op, result).ok <=> result = "Ok"
                  /\ result # "Ok" => AnswerOf(op, result).error = result
  <1>1. \A op : base(op).op = op /\ ~base(op).ok
    BY DEF base
  <1>2. \A op : ok(op).op = op /\ ok(op).ok
    BY DEF base, ok
  <1>3. \A op, code : /\ fail(op, code).op = op /\ ~fail(op, code).ok
                      /\ fail(op, code).error = code
    BY DEF base, fail
  <1> QED BY <1>1, <1>2, <1>3 DEF AnswerOf, base, ok, fail

(* An answered step is the last one of its operation; an error answer      *)
(* other than CounterExhausted is given before anything durable is         *)
(* written.                                                                *)
LEMMA RefusalWritesNothing ==
  ASSUME NEW frame \in Frames, handle(frame),
         NEW e \in exchange', ~e.response.ok
  PROVE  durable' = durable
  <1>1. CASE frame \in Requests /\ Dispatch(frame)
    <2>1. reply' # "none" /\ reply' # "Ok"
      BY <1>1, AnswerFields DEF Dispatch, AfterStep, Respond
    <2>2. CASE DispatchPrepare(frame)
      <3>1. PICK t \in frame.transition :
              \/ PrepareBegin(t, frame.receiver_challenge)
              \/ PrepareRefused(t) \/ PrepareReadFails(t)
              \/ PrepareWitnessFails(t)
        BY <2>2 DEF DispatchPrepare
      <3> QED BY <2>1, <3>1 DEF PrepareBegin, Continue, PrepareRefused,
        PrepareReadFails, PrepareWitnessFails, Refuse, ChipReadFails
    <2>3. CASE DispatchCommit(frame) \/ DispatchCancel(frame)
      BY <2>1, <2>3 DEF DispatchCommit, DispatchCancel, CommitSign,
        CommitRefused, CommitReadFails, CancelErase, CancelRefused, Continue,
        Refuse, ChipReadFails
    <2>4. CASE DispatchEmit(frame) \/ DispatchFinalize(frame)
      BY <2>1, <2>4 DEF DispatchEmit, DispatchFinalize, Emit, EmitRefused,
        Finalize, FinalizeRefused, FinalizeReadFails, Answer, Refuse,
        ChipReadFails
    <2> QED BY <1>1, <2>2, <2>3, <2>4 DEF Dispatch
  <1>2. CASE UNCHANGED vars
    BY <1>2 DEF vars, durable
  <1> QED BY <1>1, <1>2 DEF handle

(* An error answer, CounterExhausted aside, leaves the active state as the *)
(* request found it.                                                       *)
THEOREM ErrorsChangeNothing == ServiceSpec => []ErrorChangesNothing
  <1>1. ServiceInit => ErrorChangesNothing
    BY DEF ServiceInit, ErrorChangesNothing
  <1>2. ErrorChangesNothing /\ [ServiceNext]_servedVars => ErrorChangesNothing'
    <2> SUFFICES ASSUME ErrorChangesNothing, [ServiceNext]_servedVars,
                        NEW e \in exchange', ~e.response.ok,
                        e.response.error # "CounterExhausted"
                 PROVE  durable' = before'
      BY DEF ErrorChangesNothing
    <2>1. ASSUME NEW frame \in Frames, handle(frame) PROVE durable' = before'
      BY <2>1, RefusalWritesNothing DEF handle
    <2>2. CASE Continuation
      <3>1. PICK req \in serving : AfterStep(req)
        BY <2>2 DEF Continuation
      <3>2. reply' \notin {"none", "Ok", "CounterExhausted"}
        BY <3>1, AnswerFields DEF AfterStep, Respond
      <3> QED BY <2>2, <3>2 DEF Continuation, PrepareStore, CommitStatus,
        CommitStore, CommitCount, CommitCountFails, CommitFlag, CommitIndex,
        CancelStatus, CancelStore, Continue, Answer
    <2>3. CASE Boot \/ Unplug \/ Outside
      BY <2>3 DEF Boot, Unplug, Outside
    <2>4. CASE UNCHANGED servedVars
      BY <2>4 DEF servedVars, serviceVars, vars, durable, ErrorChangesNothing
    <2> QED BY <2>1, <2>2, <2>3, <2>4 DEF ServiceNext
  <1> QED BY <1>1, <1>2, PTL DEF ServiceSpec

-----------------------------------------------------------------------------
(* Type correctness.                                                       *)

(* A step serves and answers frames of the host, and acknowledges          *)
(* committed records.                                                      *)
LEMMA ServiceTypeKept ==
  ASSUME IInv, IInv', ServingInv, ServiceTypeOK, [ServiceNext]_servedVars
  PROVE  ServiceTypeOK'
  <1>1. \A r \in acked' : r.transition \in Transitions
    <2> SUFFICES ASSUME NEW r \in acked' PROVE r.transition \in Transitions
      OBVIOUS
    <2>1. CASE r \in acked
      BY <2>1 DEF ServiceTypeOK
    <2>2. CASE r \notin acked
      <3>1. IsCommitted' /\ record'.release = r
        BY <2>2, AckedIsMarked
      <3>2. RecordTypeOK(record')
        BY DEF IInv, TypeOK
      <3> QED BY <3>1, <3>2, RecordCases DEF IsCommitted
    <2> QED BY <2>1, <2>2
  <1>2. serving' \subseteq Requests /\ \A e \in exchange' : e.frame \in Frames
    <2>1. ASSUME NEW frame \in Frames, handle(frame)
          PROVE  serving' \subseteq Requests
                   /\ \A e \in exchange' : e.frame \in Frames
      BY <2>1 DEF handle, Dispatch, DirectAnswer, AfterStep, Respond
    <2>2. CASE Continuation
      BY <2>2 DEF Continuation, AfterStep, Respond, ServiceTypeOK, Frames
    <2>3. CASE Boot \/ Unplug \/ Outside \/ UNCHANGED servedVars
      BY <2>3 DEF Boot, Unplug, Outside, servedVars, serviceVars, ServiceTypeOK
    <2> QED BY <2>1, <2>2, <2>3 DEF ServiceNext
  <1> QED BY <1>1, <1>2 DEF ServiceTypeOK, IInv, Frames

(* What the service keeps has its type, whatever the host sends.           *)
THEOREM ServiceTypeCorrect == ServiceSpec => []ServiceTypeOK
  <1>1. ServiceInit /\ IInv => ServiceTypeOK
    BY DEF ServiceInit, ServiceTypeOK, IInv
  <1>2. ServiceSpec => []IInv
    BY ServiceImplementsAppliance, Inductive, PTL
  <1> QED BY <1>1, <1>2, ServingInvInit, ServingInvKept, ServiceTypeKept, PTL
        DEF ServiceSpec

-----------------------------------------------------------------------------
(* Operations that are answered ok.                                        *)

(* What an operation that is running has from the request it serves and    *)
(* from the state it began in.                                             *)
RunningInv ==
  \A req \in serving :
    /\ pc = "prepare_store" =>
         /\ status = "Prepared" /\ staged.txn \in req.transition
         /\ staged.receiver_challenge = req.receiver_challenge
         /\ staged.sk_hw # NoKey /\ staged.txn.prev_root = root
    /\ pc \in {"commit_status", "commit_store"} =>
         staged.release.transition = before[4].txn
    /\ pc \in {"commit_count", "commit_flag", "commit_index"} =>
         record.release.transition = before[4].txn
    /\ pc \in {"cancel_status", "cancel_store"} => u = before[2]
    /\ pc = "cancel_store" => status = "Ready"

(* A frame that is not answered at once has begun an operation.            *)
LEMMA HandleBegins ==
  ASSUME NEW frame \in Frames, handle(frame), serving' # {}
  PROVE  /\ serving' = {frame} /\ before' = durable
         /\ \/ \E t \in frame.transition : PrepareBegin(t, frame.receiver_challenge)
            \/ CommitSign \/ CancelErase
  <1>1. Dispatch(frame) /\ before' = durable
    BY DEF handle, DirectAnswer, Respond
  <1>2. serving' = {frame} /\ reply' = "none"
    BY <1>1 DEF Dispatch, AfterStep, Respond
  <1>3. CASE DispatchPrepare(frame)
    BY <1>1, <1>2, <1>3 DEF DispatchPrepare, PrepareRefused, PrepareReadFails,
      PrepareWitnessFails, Refuse, ChipReadFails, Answer, PrepareCheck
  <1>4. CASE DispatchCommit(frame)
    BY <1>1, <1>2, <1>4 DEF DispatchCommit, CommitRefused, CommitReadFails,
      Refuse, ChipReadFails, Answer, CommitCheck
  <1>5. CASE \/ DispatchCancel(frame) \/ DispatchEmit(frame)
             \/ DispatchFinalize(frame)
    BY <1>1, <1>2, <1>5 DEF DispatchCancel, CancelRefused, DispatchEmit,
      DispatchFinalize, Emit, EmitRefused, Finalize, FinalizeRefused,
      FinalizeReadFails, FinalizeCheck, Refuse, ChipReadFails, Answer
  <1> QED BY <1>1, <1>2, <1>3, <1>4, <1>5 DEF Dispatch

(* prepare never stages an erased key.                                     *)
LEMMA PreparedFields ==
  \A t, rc : LET r == Prepared(t, rc, WitnessKey(t, rc))
            IN  /\ r.txn = t /\ r.receiver_challenge = rc
                /\ r.sk_hw # NoKey
  <1> SUFFICES ASSUME NEW t, NEW rc
               PROVE  /\ Prepared(t, rc, WitnessKey(t, rc)).txn = t
                      /\ Prepared(t, rc, WitnessKey(t, rc)).receiver_challenge = rc
                      /\ Prepared(t, rc, WitnessKey(t, rc)).sk_hw # NoKey
    OBVIOUS
  <1>1. WitnessKey(t, rc) # NoKey
    BY DEF WitnessKey, keygen_sk, NoKey
  <1> QED BY <1>1 DEF Prepared

LEMMA RunningInvKept ==
  ASSUME IInv, ServingInv, RunningInv, [ServiceNext]_servedVars
  PROVE  RunningInv'
  <1>1. ASSUME NEW frame \in Frames, handle(frame), serving' # {}
        PROVE  RunningInv'
    <2>1. serving' = {frame} /\ before' = <<root, u, status, record>>
      BY <1>1, HandleBegins DEF durable
    <2>2. ASSUME NEW t \in frame.transition,
                 PrepareBegin(t, frame.receiver_challenge)
          PROVE  RunningInv'
      <3> DEFINE rc == frame.receiver_challenge
      <3>1. /\ pc' = "prepare_store" /\ status' = "Prepared" /\ root' = root
            /\ staged' = Prepared(t, rc, WitnessKey(t, rc))
            /\ t.prev_root = root
        BY <2>2 DEF PrepareBegin, PrepareCheck, Continue
      <3>2. /\ staged'.txn = t /\ staged'.receiver_challenge = rc
            /\ staged'.sk_hw # NoKey
        BY <3>1, PreparedFields
      <3> QED BY <2>1, <3>1, <3>2 DEF RunningInv
    <2>3. CASE CommitSign
      <3> DEFINE rel == SignedRelease(record.txn, record.receiver_challenge,
                                      record.sk_hw)
      <3>1. pc' = "commit_status" /\ staged' = Committed(rel, FALSE)
        BY <2>3 DEF CommitSign, Continue
      <3>2. staged'.release = rel
        BY <3>1 DEF Committed
      <3>3. rel.transition = record.txn
        BY ReleaseTransition
      <3>4. staged'.release.transition = before'[4].txn
        BY <2>1, <3>2, <3>3
      <3> QED BY <3>1, <3>4 DEF RunningInv
    <2>4. CASE CancelErase
      BY <2>1, <2>4 DEF CancelErase, Continue, RunningInv
    <2> QED BY <1>1, <2>2, <2>3, <2>4, HandleBegins
  <1>2. CASE Continuation
    <2>1. serving' \subseteq serving /\ before' = before
      BY <1>2 DEF Continuation, AfterStep, Respond
    <2>2. CASE CommitStatus
      BY <2>1, <2>2 DEF CommitStatus, Continue, RunningInv
    <2>3. CASE CommitStore
      BY <2>1, <2>3 DEF CommitStore, Continue, RunningInv
    <2>4. CASE CommitCount
      BY <2>1, <2>4 DEF CommitCount, Continue, durable, RunningInv
    <2>5. CASE CommitFlag
      <3>1. pc' = "commit_index" /\ record'.release = record.release
        BY <2>5 DEF CommitFlag, Continue, Committed
      <3> QED BY <2>1, <2>5, <3>1 DEF CommitFlag, RunningInv
    <2>6. CASE CancelStatus
      BY <2>1, <2>6 DEF CancelStatus, Continue, RunningInv
    <2>7. CASE PrepareStore \/ CommitCountFails \/ CommitIndex \/ CancelStore
      <3>1. pc' = "idle"
        BY <2>7 DEF PrepareStore, CommitCountFails, CommitIndex, CancelStore,
          Answer
      <3> QED BY <3>1 DEF RunningInv
    <2> QED BY <1>2, <2>2, <2>3, <2>4, <2>5, <2>6, <2>7 DEF Continuation
  <1>3. CASE serving' = {}
    BY <1>3 DEF RunningInv
  <1>4. CASE Boot
    <2>1. pc' \in {"idle", "recover_read", "recover_count", "recover_flag",
                   "recover_index"}
      BY <1>4 DEF Boot, RecoverStep, RecoverFaulty, RecoverReemit,
        RecoverCountPending, RecoverCount, RecoverCountFails, RecoverFlag,
        RecoverIndex, RecoverStale, RecoverPrepared, RecoverReady, RecoverRead,
        RecoverAhead, Recovered, Answer, Continue
    <2> QED BY <2>1 DEF RunningInv
  <1>5. CASE Outside
    <2>1. CASE CounterWaste
      BY <1>5, <2>1 DEF Outside, CounterWaste, durable, volatile, RunningInv
    <2>2. ASSUME NEW r \in OnlineRoots, OnlineAdvance(r) PROVE RunningInv'
      <3>1. pc' \in {"idle", "boot"}
        BY <2>2 DEF OnlineAdvance, volatile
      <3> QED BY <3>1 DEF RunningInv
    <2> QED BY <1>5, <2>1, <2>2 DEF Outside
  <1>6. CASE UNCHANGED servedVars
    BY <1>6 DEF servedVars, serviceVars, vars, durable, volatile, RunningInv
  <1> QED BY <1>1, <1>2, <1>3, <1>4, <1>5, <1>6 DEF ServiceNext, Unplug

(* What OkMeansDone says of one exchange.                                  *)
Done(e) ==
  /\ e.response.op = "Prepare" =>
       /\ status = "Prepared" /\ IsPrepared
       /\ record.txn \in e.frame.transition
       /\ record.receiver_challenge = e.frame.receiver_challenge
       /\ wasted = 0 => CommitCheck \in {"Ok", "CounterExhausted"}
  /\ e.response.op = "Commit" =>
       /\ IsCommitted /\ record.committed
       /\ record.release.transition = before[4].txn
       /\ wasted = 0 => FinalizeCheck = "Ok"
  /\ e.response.op = "Emit" => e.response.release \subseteq exported
  /\ e.response.op = "Finalize" =>
       /\ e.response.active_root = {root}
       /\ status = "Ready" /\ record = Empty
       /\ before[4].release \in installed
  /\ e.response.op = "Cancel" =>
       status = "Ready" /\ record = Empty /\ u = before[2]

(* What the answers to emit and finalize carry.                            *)
LEMMA AnswerContents ==
  /\ AnswerOf("Emit", "Ok").release = {record.release}
  /\ AnswerOf("Finalize", "Ok").active_root
       = {record.release.transition.next_root}
  BY DEF AnswerOf, ok, base

(* A frame answered ok at once was about emit, finalize or the status.     *)
LEMMA HandledIsDone ==
  ASSUME NEW frame \in Frames, handle(frame), NEW e \in exchange',
         e.response.ok
  PROVE  Done(e)'
  <1>1. CASE frame \in Requests /\ Dispatch(frame)
    <2>1. /\ reply' = "Ok"
          /\ e.response = AnswerOf(frame.op, "Ok") /\ e.response.op = frame.op
      BY <1>1, AnswerFields DEF Dispatch, AfterStep, Respond
    <2>2. before' = <<root, u, status, record>>
      BY DEF handle, durable
    <2>3. CASE frame.op = "Emit" /\ Emit
      <3>1. record.release \in exported'
        BY <2>3 DEF Emit
      <3> QED BY <2>1, <2>3, <3>1, AnswerContents DEF Done
    <2>4. CASE frame.op = "Finalize" /\ Finalize
      <3>1. /\ root' = record.release.transition.next_root
            /\ status' = "Ready" /\ record' = Empty
            /\ before'[4].release \in installed'
        BY <2>2, <2>4 DEF Finalize
      <3> QED BY <2>1, <2>4, <3>1, AnswerContents DEF Done
    <2>5. CASE DispatchPrepare(frame)
      BY <2>1, <2>5 DEF DispatchPrepare, PrepareBegin, PrepareRefused,
        PrepareReadFails, PrepareWitnessFails, Refuse, ChipReadFails, Answer,
        Continue
    <2>6. CASE DispatchCommit(frame) \/ DispatchCancel(frame)
      BY <2>1, <2>6 DEF DispatchCommit, DispatchCancel, CommitSign,
        CommitRefused, CommitReadFails, CancelErase, CancelRefused, Refuse,
        ChipReadFails, Answer, Continue
    <2>7. CASE DispatchEmit(frame) \/ DispatchFinalize(frame)
      BY <2>1, <2>3, <2>4, <2>7 DEF DispatchEmit, DispatchFinalize,
        EmitRefused, FinalizeRefused, FinalizeReadFails, Refuse, ChipReadFails,
        Answer
    <2> QED BY <1>1, <2>5, <2>6, <2>7 DEF Dispatch
  <1>2. CASE DirectAnswer(frame)
    <2> DEFINE current == [ok("Status") EXCEPT !.active_root = {root},
                                               !.active_index = u,
                                               !.status = status]
    <2>1. \A op, code : ~fail(op, code).ok
      BY DEF fail, base
    <2>2. current.op = "Status"
      BY DEF ok, base
    <2>3. \/ Respond(frame, current)
          \/ \E op, code : Respond(frame, fail(op, code))
      BY <1>2 DEF DirectAnswer
    <2> HIDE DEF current
    <2>4. \A r : Respond(frame, r) => e.response = r
      BY DEF Respond
    <2>5. e.response.op = "Status"
      BY <2>1, <2>2, <2>3, <2>4
    <2> QED BY <2>5 DEF Done
  <1> QED BY <1>1, <1>2 DEF handle

(* An operation answered ok later has come to its last write.              *)
LEMMA ContinuedIsDone ==
  ASSUME IInv, ServingInv, RunningInv, Continuation, NEW e \in exchange',
         e.response.ok
  PROVE  Done(e)'
  <1>1. PICK req \in serving : AfterStep(req)
    BY DEF Continuation
  <1>2. /\ reply' = "Ok" /\ e.response.op = req.op /\ e.frame = req
        /\ before' = before
    BY <1>1, AnswerFields DEF AfterStep, Respond, Continuation
  <1>3. CASE PrepareStore
    <2>1. req.op = "Prepare"
      BY <1>3 DEF PrepareStore, ServingInv
    <2>2. /\ record' = staged /\ UNCHANGED <<root, u, status, h, wasted>>
          /\ staged.kind = "Prepared" /\ FollowsU(staged.txn) /\ ~IsCommitted
          /\ status = "Prepared" /\ staged.txn \in req.transition
          /\ staged.receiver_challenge = req.receiver_challenge
          /\ staged.sk_hw # NoKey /\ staged.txn.prev_root = root
      BY <1>3 DEF PrepareStore, RunningInv, IInv, StepInv, chipVars, history
    <2>3. wasted = 0 => u = LiveIndex
      BY <2>2, Arithmetic DEF IInv, CounterAccounted, Accounted
    <2>4. wasted' = 0 => CommitCheck' \in {"Ok", "CounterExhausted"}
      BY <2>2, <2>3 DEF CommitCheck, IsPrepared, FollowsU, LiveIndex
    <2>5. IsPrepared'
      BY <2>2 DEF IsPrepared
    <2> QED BY <1>2, <2>1, <2>2, <2>4, <2>5 DEF Done
  <1>4. CASE CommitIndex
    <2>1. req.op = "Commit"
      BY <1>4 DEF CommitIndex, ServingInv
    <2>2. /\ u' = RecordIndex /\ UNCHANGED <<record, h, wasted>>
          /\ IsCommitted /\ record.committed
          /\ record.release.transition = before[4].txn
      BY <1>4 DEF CommitIndex, RunningInv, IInv, StepInv, chipVars, history
    <2>3. wasted = 0 => RecordIndex = LiveIndex
      BY <2>2, Arithmetic DEF IInv, CommittedInv, CounterAccounted, Accounted
    <2>4. wasted' = 0 => FinalizeCheck' = "Ok"
      BY <2>2, <2>3 DEF FinalizeCheck, IsCommitted, LiveIndex
    <2>5. IsCommitted'
      BY <2>2 DEF IsCommitted
    <2> QED BY <1>2, <2>1, <2>2, <2>4, <2>5 DEF Done
  <1>5. CASE CancelStore
    <2>1. req.op = "Cancel"
      BY <1>5 DEF CancelStore, ServingInv
    <2>2. /\ u' = u /\ status' = status /\ record' = Empty
          /\ status = "Ready" /\ u = before[2]
      BY <1>5 DEF CancelStore, RunningInv
    <2> QED BY <1>2, <2>1, <2>2 DEF Done
  <1>6. CASE CommitStatus \/ CommitStore \/ CommitCount \/ CommitCountFails
               \/ CommitFlag \/ CancelStatus
    BY <1>2, <1>6 DEF CommitStatus, CommitStore, CommitCount,
      CommitCountFails, CommitFlag, CancelStatus, Continue, Answer
  <1> QED BY <1>3, <1>4, <1>5, <1>6 DEF Continuation

(* ok means that the operation is complete and, as long as nobody else     *)
(* moves the counter, that the next one of a transfer is not refused.      *)
THEOREM OkIsDone == ServiceSpec => []OkMeansDone
  <1>1. ServiceInit => RunningInv /\ OkMeansDone
    BY DEF ServiceInit, RunningInv, OkMeansDone
  <1>2. IInv /\ ServingInv /\ RunningInv /\ OkMeansDone
          /\ [ServiceNext]_servedVars => OkMeansDone'
    <2> SUFFICES ASSUME IInv, ServingInv, RunningInv, OkMeansDone,
                        [ServiceNext]_servedVars
                 PROVE  OkMeansDone'
      OBVIOUS
    <2>1. OkMeansDone <=> \A e \in exchange : e.response.ok => Done(e)
      BY DEF OkMeansDone, Done
    <2>2. OkMeansDone' <=> \A e \in exchange' : e.response.ok => Done(e)'
      BY DEF OkMeansDone, Done
    <2>3. CASE (\E frame \in Frames : handle(frame)) \/ Continuation
      BY <2>2, <2>3, HandledIsDone, ContinuedIsDone
    <2>4. CASE Boot \/ Unplug \/ Outside
      BY <2>2, <2>4 DEF Boot, Unplug, Outside
    <2>5. CASE UNCHANGED servedVars
      BY <2>5 DEF servedVars, serviceVars, vars, chipVars, durable, volatile,
        history, OkMeansDone, CommitCheck, FinalizeCheck, LiveIndex,
        IsPrepared, IsCommitted
    <2> QED BY <2>3, <2>4, <2>5 DEF ServiceNext
  <1>3. ServiceSpec => []IInv
    BY ServiceImplementsAppliance, Inductive, PTL
  <1> QED BY <1>1, <1>2, <1>3, ServingInvInit, ServingInvKept, RunningInvKept,
             PTL DEF ServiceSpec
=============================================================================
