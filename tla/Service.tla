------------------------------- MODULE Service -------------------------------
(***************************************************************************)
(* The secure core behind the wire, service.rs and the decoding half of    *)
(* proto.rs: handle takes one frame, dispatch runs the operation it asks   *)
(* for on the appliance, and one response goes back.  The host sends any   *)
(* frame at any time; power can fail while an operation runs, and then no  *)
(* response is sent.                                                       *)
(*                                                                         *)
(* A frame is a request, or one of two that are none: longer than          *)
(* MAX_FRAME_LEN, or not decodable.  A field whose length proto.rs refuses *)
(* is Malformed.  Error codes carry the names of the errors.               *)
(***************************************************************************)
EXTENDS Appliance

CONSTANTS
  Requests,       \* the requests hosts send
  Malformed,      \* a field of a wrong length, or a package with one
  Oversized,      \* a frame longer than MAX_FRAME_LEN
  Undecodable     \* a frame prost cannot decode

(* An absent transition is {}.                                             *)
ApplianceRequest(op, transition, receiver_challenge) ==
  [op |-> op, transition |-> transition,
   receiver_challenge |-> receiver_challenge]

ASSUME MalformedAssumption ==
  /\ Malformed \notin Transitions /\ Malformed \notin Challenges
  /\ Oversized \notin Requests /\ Undecodable \notin Requests
ASSUME RequestAssumption ==
  \A req \in Requests :
    /\ \/ req.transition \in {{}, {Malformed}}
       \/ \E t \in Transitions : req.transition = {t}
    /\ req.receiver_challenge \in Challenges \cup {Malformed}

VARIABLES
  serving,    \* the request being served, {} when there is none
  exchange,   \* the frame and response of the step just taken, {} if none
  before,     \* the active state when the last request began
  acked       \* the releases whose commit was answered ok

serviceVars == <<serving, exchange, before, acked>>
servedVars == <<vars, serviceVars>>

ServiceInit ==
  /\ Init
  /\ serving = {} /\ exchange = {} /\ before = durable /\ acked = {}

-----------------------------------------------------------------------------
(* Responses.                                                              *)

base(op) ==
  [op |-> op, ok |-> FALSE, error |-> "None", release |-> {},
   active_root |-> {}, active_index |-> 0, status |-> "Ready"]
ok(op) == [base(op) EXCEPT !.ok = TRUE]
fail(op, code) == [base(op) EXCEPT !.error = code]

(* Mutant: finalize answers with the root it replaces.                     *)
AnswerOldRoot(op, result) ==
  IF result # "Ok" THEN fail(op, result)
  ELSE IF op = "Emit" THEN [ok(op) EXCEPT !.release = {record.release}]
  ELSE IF op = "Finalize" THEN [ok(op) EXCEPT !.active_root = {root}]
  ELSE ok(op)

(* The response to an operation that returned result.                      *)
AnswerOf(op, result) ==
  IF result # "Ok" THEN fail(op, result)
  ELSE IF op = "Emit" THEN [ok(op) EXCEPT !.release = {record.release}]
  ELSE IF op = "Finalize"
    THEN [ok(op) EXCEPT
            !.active_root = {record.release.transition.next_root}]
  ELSE ok(op)

Respond(frame, response) ==
  /\ serving' = {}
  /\ exchange' = {[frame |-> frame, response |-> response]}
  /\ acked' = IF response.op = "Commit" /\ response.ok
                THEN acked \cup {record.release} ELSE acked

(* The appliance's step either ends the operation or leaves it running.    *)
AfterStep(req) ==
  \/ reply' # "none" /\ Respond(req, AnswerOf(req.op, reply'))
  \/ reply' = "none" /\ serving' = {req} /\ exchange' = {} /\ UNCHANGED acked

-----------------------------------------------------------------------------
(* dispatch and handle                                                     *)

(* The fields of an OP_PREPARE, in the order they are looked at.           *)
PrepareFields(req) ==
  IF req.transition = {} THEN "MissingField"
  ELSE IF req.transition = {Malformed} THEN "BadProto"
  ELSE IF req.receiver_challenge = Malformed THEN "BadProto"
  ELSE "Ok"

DispatchPrepare(req) ==
  /\ req.op = "Prepare" /\ PrepareFields(req) = "Ok"
  /\ \E t \in req.transition :
       \/ PrepareBegin(t, req.receiver_challenge)
       \/ PrepareRefused(t) \/ PrepareReadFails(t) \/ PrepareWitnessFails(t)

DispatchCommit(req) ==
  req.op = "Commit" /\ (CommitSign \/ CommitRefused \/ CommitReadFails)
DispatchEmit(req) == req.op = "Emit" /\ (Emit \/ EmitRefused)
DispatchFinalize(req) ==
  req.op = "Finalize" /\ (Finalize \/ FinalizeRefused \/ FinalizeReadFails)
DispatchCancel(req) == req.op = "Cancel" /\ (CancelErase \/ CancelRefused)

Dispatch(req) ==
  /\ \/ DispatchPrepare(req) \/ DispatchCommit(req) \/ DispatchEmit(req)
     \/ DispatchFinalize(req) \/ DispatchCancel(req)
  /\ AfterStep(req)

(* What is answered without the appliance: status, and what is malformed.  *)
DirectAnswer(frame) ==
  \/ frame = Oversized /\ Respond(frame, fail("Unspecified", "FrameTooLarge"))
  \/ frame = Undecodable /\ Respond(frame, fail("Unspecified", "BadProto"))
  \/ /\ frame \in Requests /\ frame.op = "Status"
     /\ Respond(frame, [ok("Status") EXCEPT !.active_root = {root},
                          !.active_index = u, !.status = status])
  \/ /\ frame \in Requests /\ frame.op = "Prepare"
     /\ PrepareFields(frame) # "Ok"
     /\ Respond(frame, fail("Prepare", PrepareFields(frame)))
  \/ /\ frame \in Requests
     /\ frame.op \notin {"Prepare", "Commit", "Emit", "Finalize", "Status",
                         "Cancel"}
     /\ Respond(frame, fail(frame.op, "BadOp"))

(* The frame arrives while nothing is being served (serve_forever).        *)
handle(frame) ==
  /\ pc = "idle" /\ serving = {}
  /\ before' = durable
  /\ \/ frame \in Requests /\ Dispatch(frame)
     \/ DirectAnswer(frame) /\ UNCHANGED vars

(* The operation goes on.                                                  *)
Continuation ==
  /\ \/ PrepareStore
     \/ CommitStatus \/ CommitStore \/ CommitCount \/ CommitCountFails
     \/ CommitFlag \/ CommitIndex
     \/ CancelStatus \/ CancelStore
  /\ \E req \in serving : AfterStep(req)
  /\ UNCHANGED before

-----------------------------------------------------------------------------
(* What happens without a request.                                         *)

Boot ==
  RecoverStep /\ exchange' = {} /\ UNCHANGED <<serving, before, acked>>
Unplug ==
  PowerLoss /\ serving' = {} /\ exchange' = {} /\ UNCHANGED <<before, acked>>
Outside ==
  /\ CounterWaste \/ \E r \in OnlineRoots : OnlineAdvance(r)
  /\ exchange' = {}
  /\ UNCHANGED <<serving, before, acked>>

Frames == Requests \cup {Oversized, Undecodable}
ServiceNext ==
  (\E frame \in Frames : handle(frame)) \/ Continuation
    \/ Boot \/ Unplug \/ Outside

ServiceSpec == ServiceInit /\ [][ServiceNext]_servedVars

-----------------------------------------------------------------------------
(* Properties.                                                             *)

ServiceTypeOK ==
  /\ TypeOK
  /\ serving \subseteq Requests
  /\ \A e \in exchange : e.frame \in Frames
  /\ \A r \in acked : r.transition \in Transitions

(* A commit that was answered ok is never lost: whatever crashes and       *)
(* recoveries follow, its release is installed, or is the candidate that   *)
(* emit hands out.                                                         *)
AckedCommitKept ==
  \A r \in acked :
    r \in installed \/ (IsCommitted /\ record.committed /\ record.release = r)

(* What ok tells the host: the operation it asked for is complete, and the *)
(* next one of a transfer will not be refused (a counter at its end and    *)
(* the moves of others aside).                                             *)
OkMeansDone ==
  \A e \in exchange :
    e.response.ok =>
      /\ e.response.op = "Prepare" =>
           /\ status = "Prepared" /\ IsPrepared
           /\ record.txn \in e.frame.transition
           /\ record.receiver_challenge = e.frame.receiver_challenge
           /\ wasted = 0 => CommitCheck \in {"Ok", "CounterExhausted"}
      /\ e.response.op = "Commit" =>
           /\ IsCommitted /\ record.committed
           /\ record.release.transition = before[4].txn
           /\ wasted = 0 => FinalizeCheck = "Ok"
      /\ e.response.op = "Emit" => e.response.release \subseteq exported
      /\ e.response.op = "Finalize" =>
           /\ e.response.active_root = {root}
           /\ status = "Ready" /\ record = Empty
           /\ before[4].release \in installed
      /\ e.response.op = "Cancel" =>
           status = "Ready" /\ record = Empty /\ u = before[2]

(* What an error tells the host: the active state is as the request found  *)
(* it, also when the chip failed in the middle; all but CounterExhausted,  *)
(* the answer to a counter move that failed with the candidate stored.     *)
ErrorChangesNothing ==
  \A e \in exchange :
    ~e.response.ok /\ e.response.error # "CounterExhausted"
      => durable = before

(* The request being served is the one whose operation is running.         *)
ServingInv ==
  \A req \in serving :
    \/ req.op = "Prepare" /\ pc = "prepare_store"
    \/ req.op = "Commit" /\ pc \in {"commit_status", "commit_store",
                                   "commit_count", "commit_flag", "commit_index"}
    \/ req.op = "Cancel" /\ pc \in {"cancel_status", "cancel_store"}
=============================================================================
