------------------------------- MODULE Firmware -------------------------------
(***************************************************************************)
(* The bring-up firmware, main of main.rs: after power-up it opens the     *)
(* chip session, enrolls the counter, drives one whole advance through the *)
(* service on an appliance of its own and checks the release with          *)
(* accept_offline, enrolls again, recovers and serves the host for ever.   *)
(*                                                                         *)
(* Active lives in RAM here, so a power cycle loses it, and every boot     *)
(* makes new appliances; the chip keeps its counter and its slot.  Any     *)
(* chip call can fail, enrollment's too.  The probe, the log and the       *)
(* waiting loops between the phases decide nothing and are left out.       *)
(***************************************************************************)
EXTENDS Service, Accept, Sequences

CONSTANTS
  TestTransition,   \* what prepare_request submits
  TestChallenge,    \* RCHAL
  MaxBoots          \* bound on power cycles

(* The constants of main.rs: one step from GENESIS.                        *)
ASSUME SelfTestAssumption ==
  /\ TestTransition \in Transitions /\ TestChallenge \in Challenges
  /\ TestTransition.prev_root = Genesis
  /\ TestTransition.anchor_counter = 0
  /\ TestTransition.next_anchor_counter = 1
(* TrivialDsm agrees to what it is asked.                                  *)
ASSUME TrivialDsmAssumption ==
  /\ IndexOf[Genesis] = 0
  /\ <<Genesis, TestTransition.next_root>> \in ProvenAdvances
(* Whatever the counter has lost when an appliance is made counts as       *)
(* moved by others.                                                        *)
ASSUME MaxBootsAssumption == MaxBoots \in Nat /\ MaxWaste >= H0

VARIABLES
  phase,      \* where main is
  answers,    \* the self-test's responses so far
  boots,      \* power cycles
  epoch,      \* how often the counter was really set to H0
  handed      \* every release emitted, with the epoch it was emitted in

firmwareVars == <<phase, answers, boots, epoch, handed>>
deviceVars == <<servedVars, firmwareVars>>

-----------------------------------------------------------------------------
(* enroll: mcounter_init, mcounter_get, arm the slot.                      *)

EnrollOk == h' = H0 /\ MacAndDestroy /\ epoch' = epoch + 1

(* The first call fails without effect, or the counter was set: its reply  *)
(* was lost, or one of the two calls after it fails.                       *)
EnrollFails ==
  \/ UNCHANGED <<chipVars, epoch>>
  \/ h' = H0 /\ MacAndDestroyFails /\ epoch' = epoch + 1

(* Mutant of new: the index is taken from the counter.                     *)
NewApplianceAtCounter ==
  /\ root' = Genesis /\ u' = H0 - h' /\ status' = "Ready" /\ record' = Empty
  /\ staged' = Empty /\ reply' = "none"
  /\ exported' = {} /\ installed' = {} /\ wasted' = H0 - h'
  /\ serving' = {} /\ exchange' = {} /\ acked' = {} /\ before' = <<root', u', status', record'>>

(* Appliance::new: an appliance that has seen nothing yet.                 *)
NewAppliance ==
  /\ root' = Genesis /\ u' = 0 /\ status' = "Ready" /\ record' = Empty
  /\ staged' = Empty /\ reply' = "none"
  /\ exported' = {} /\ installed' = {} /\ wasted' = H0 - h'
  /\ serving' = {} /\ exchange' = {} /\ acked' = {} /\ before' = <<root', u', status', record'>>

-----------------------------------------------------------------------------
(* The self-test.                                                          *)

TestRequest(op) == ApplianceRequest(op, {}, Malformed)
TestScript ==
  <<ApplianceRequest("Prepare", {TestTransition}, TestChallenge),
    TestRequest("Commit"), TestRequest("Emit"), TestRequest("Finalize"),
    TestRequest("Status")>>

ASSUME TestScriptAssumption ==
  \A i \in 1..Len(TestScript) : TestScript[i] \in Requests

(* TrivialDsm agrees to everything and SelfCounter attests the claim.      *)
TestContext ==
  VerifierContext(TestTransition.recipient_device_id, Genesis, AnchorId,
                  TestChallenge, TestTransition.authority_policy_hash, H0, H0,
                  TRUE)
VerifyOk ==
  \E rel \in answers[3].release :
    accept_offline(rel, TestContext, {rel.counter.live_counter_claim}) = "Ok"

Tested == Len(answers) = Len(TestScript)

(* Mutant: the index and the release say it all.                           *)
PassesByIndex == Tested /\ answers[5].active_index = 1 /\ VerifyOk

(* The [T5] report is PASS.                                                *)
Passes ==
  /\ Tested
  /\ \A i \in 1..Len(TestScript) : answers[i].ok
  /\ answers[5].active_index = 1 /\ answers[5].status = "Ready"
  /\ VerifyOk
  /\ answers[4].active_root = {TestTransition.next_root}

-----------------------------------------------------------------------------
(* main                                                                    *)

Released == UNION {e.response.release : e \in exchange'}
HandOut == handed' = handed \cup {<<epoch, r>> : r \in Released}

SessionStart ==
  /\ phase = "session" /\ phase' = "enroll"
  /\ UNCHANGED <<servedVars, answers, boots, epoch, handed>>

(* The loop that only logs.                                                *)
SessionFails ==
  /\ phase = "session" /\ phase' = "no_session"
  /\ UNCHANGED <<servedVars, answers, boots, epoch, handed>>

EnrollForTest ==
  /\ phase = "enroll"
  /\ EnrollOk /\ NewAppliance
  /\ pc' = "idle" /\ phase' = "selftest"
  /\ UNCHANGED <<answers, boots, handed>>

(* No self-test without a counter.                                         *)
EnrollForTestFails ==
  /\ phase = "enroll"
  /\ EnrollFails /\ NewAppliance
  /\ pc' = "boot" /\ phase' = "enroll_again"
  /\ UNCHANGED <<answers, boots, handed>>

(* All five requests, whatever the answers.                                *)
SelfTest ==
  /\ phase = "selftest" /\ ~Tested
  /\ handle(TestScript[Len(answers) + 1]) \/ Continuation
  /\ answers' = IF exchange' = {} THEN answers
                ELSE Append(answers, (CHOOSE e \in exchange' : TRUE).response)
  /\ HandOut
  /\ UNCHANGED <<phase, boots, epoch>>

(* Mutant: unwrap.                                                         *)
EnrollAgainUnwrapped ==
  /\ phase = "enroll_again" \/ (phase = "selftest" /\ Tested)
  /\ \/ EnrollOk /\ phase' = "recover"
     \/ EnrollFails /\ phase' = "panicked"
  /\ NewAppliance /\ pc' = "boot" /\ answers' = <<>>
  /\ UNCHANGED <<boots, handed>>

(* The appliance to serve with.  An enrollment that failed is taken to     *)
(* have set the counter to ENROLL_H0.                                      *)
EnrollAgain ==
  /\ phase = "enroll_again" \/ (phase = "selftest" /\ Tested)
  /\ EnrollOk \/ EnrollFails
  /\ NewAppliance /\ pc' = "boot" /\ answers' = <<>>
  /\ phase' = "recover"
  /\ UNCHANGED <<boots, handed>>

(* Its answer is only logged.                                              *)
Recover ==
  /\ phase = "recover"
  /\ Boot
  /\ phase' = IF pc' = "idle" THEN "serving" ELSE "recover"
  /\ UNCHANGED <<answers, boots, epoch, handed>>

ServeForever ==
  /\ phase = "serving"
  /\ (\E frame \in Frames : handle(frame)) \/ Continuation
  /\ HandOut
  /\ UNCHANGED <<phase, answers, boots, epoch>>

PowerCycle ==
  /\ boots < MaxBoots /\ boots' = boots + 1
  /\ UNCHANGED <<chipVars, epoch, handed>>
  /\ NewAppliance /\ pc' = "boot" /\ phase' = "session" /\ answers' = <<>>

-----------------------------------------------------------------------------
(* A chip that earlier boots may have used.                                *)
FirmwareInit ==
  /\ h \in 0..H0 /\ slot_state = 0
  /\ root = Genesis /\ u = 0 /\ status = "Ready" /\ record = Empty
  /\ pc = "boot" /\ staged = Empty /\ reply = "none"
  /\ exported = {} /\ installed = {} /\ wasted = H0 - h
  /\ serving = {} /\ exchange = {} /\ before = durable /\ acked = {}
  /\ phase = "session" /\ answers = <<>> /\ boots = 0 /\ epoch = 0
  /\ handed = {}

Firmware ==
  \/ SessionStart \/ SessionFails \/ EnrollForTest \/ EnrollForTestFails
  \/ SelfTest \/ EnrollAgain \/ Recover

FirmwareNext == Firmware \/ ServeForever \/ PowerCycle
FirmwareSpec == FirmwareInit /\ [][FirmwareNext]_deviceVars

(* Straight-line code goes on, and every chip call returns.                *)
LiveFirmware == FirmwareSpec /\ WF_deviceVars(Firmware)

-----------------------------------------------------------------------------
(* Properties.                                                             *)

FirmwareTypeOK ==
  /\ ServiceTypeOK
  /\ phase \in {"session", "no_session", "enroll", "selftest", "enroll_again",
                "recover", "serving"}
  /\ Len(answers) <= Len(TestScript)
  /\ \A i \in 1..Len(answers) : answers[i].op = TestScript[i].op
  /\ boots \in 0..MaxBoots /\ epoch \in Nat
  /\ \A p \in handed : p[1] \in 0..epoch /\ p[2].transition \in Transitions

(* README.md: after one counter commit the counter can never again present *)
(* the evidence for a second transfer from the same parent.  It can after  *)
(* an enrollment; in between it does not, however often power is cycled    *)
(* and enrollment fails, and the self-test's own release counts too.       *)
EvidenceOncePerEnrollment ==
  \A p, q \in handed :
    p[1] = q[1] /\ IndexOfRelease(p[2]) = IndexOfRelease(q[2]) => p = q

(* An appliance made for a counter that was not set again (the error of    *)
(* enroll replaced by ENROLL_H0) commits and emits nothing.                *)
NothingFromStaleCounter == wasted > 0 => exported = {} /\ acked = {}

(* PASS is about the appliance, not only about its answers: the emitted    *)
(* release is installed, its counter move has happened, and the index and  *)
(* the counter agree.                                                      *)
PassMeansAdvanced ==
  phase = "selftest" /\ Passes =>
    /\ root = TestTransition.next_root /\ u = 1 /\ LiveIndex = 1
    /\ answers[3].release = installed

(* FAIL tells of a chip failure: without one, the five requests succeed    *)
(* and the receiver's predicate accepts what emit returned.                *)
FailMeansChipFailure ==
  Tested /\ ~Passes =>
    \E i \in 1..Len(TestScript) :
      answers[i].error \in {"Tropic", "CounterExhausted"}

(* No chip call that fails during enrollment, self-test or recovery keeps  *)
(* the device from serving; only a session that cannot be had does.        *)
BootReachesService == phase = "enroll" ~> phase \in {"serving", "no_session"}

-----------------------------------------------------------------------------
(* What a comment says and the code does not do.                           *)

(* main.rs:547: with Active in RAM, recover at boot is a no-op Accept of a *)
(* Ready appliance, the counter having been set again.                     *)
BootFindsReady ==
  phase = "recover" => status = "Ready" /\ u = LiveIndex
-----------------------------------------------------------------------------
(* The inductive strengthening.                                            *)

(* A release handed out in this epoch is one of this appliance's, or the   *)
(* counter had already passed its index when the appliance was made.       *)
HandedInv ==
  /\ epoch \in Nat
  /\ \A p \in handed :
       /\ p = <<p[1], p[2]>> /\ p[1] \in 0..epoch
       /\ p[1] = epoch =>
            /\ IndexOfRelease(p[2]) \in Nat \ {0}
            /\ p[2] \in exported \/ IndexOfRelease(p[2]) <= wasted

(* An appliance made for a counter that had moved stays as it was made.    *)
StaleInv ==
  wasted > 0 =>
    /\ status = "Ready" /\ record = Empty /\ u = 0 /\ LiveIndex = wasted
    /\ pc \in {"boot", "idle"} /\ exported = {} /\ acked = {}

FInv == IInv /\ ReleasesVerify /\ ServingInv /\ HandedInv /\ StaleInv
          /\ EvidenceOncePerEnrollment
-----------------------------------------------------------------------------
(* How far the self-test has come.                                         *)

(* The answers are those of the script, and its next request is served.    *)
AnswersAreSeq == answers \in Seq({answers[i] : i \in 1..Len(answers)})
TestServed ==
  /\ AnswersAreSeq
  /\ Len(answers) <= Len(TestScript)
  /\ \A i \in 1..Len(answers) :
       /\ answers[i].op = TestScript[i].op
       /\ answers[i].ok => answers[i].error = "None"
  /\ phase # "selftest" => answers = <<>>
  /\ phase = "selftest" /\ serving # {} =>
       Len(answers) < Len(TestScript) /\ serving = {TestScript[Len(answers) + 1]}

(* An answer tells of a chip failure (or of a counter that starts at 0).   *)
ChipFailed ==
  \E i \in 1..Len(answers) : answers[i].error \in {"Tropic", "CounterExhausted"}

IsTestRecord(r) ==
  /\ r.kind = "Prepared" /\ r.sk_hw # NoKey
  /\ r.txn = TestTransition /\ r.receiver_challenge = TestChallenge
IsTestRelease(r) ==
  /\ r.transition = TestTransition /\ r.cert.receiver_challenge = TestChallenge
  /\ r.counter.live_counter_claim = H0 - 1

TestPreparing ==
  /\ root = Genesis /\ u = 0 /\ h = H0
  /\ pc = "idle" => status = "Ready" /\ record = Empty
  /\ pc = "prepare_store" => status = "Prepared" /\ IsTestRecord(staged)
TestCommitting ==
  /\ root = Genesis /\ u = 0
  /\ pc = "idle" => status = "Prepared" /\ IsTestRecord(record)
  /\ pc \in {"idle", "commit_status", "commit_store", "commit_count"} => h = H0
  /\ pc \in {"commit_status", "commit_store"} => IsTestRelease(staged.release)
  /\ pc \in {"commit_count", "commit_flag", "commit_index"} =>
       IsTestRelease(record.release)
  /\ pc \in {"commit_flag", "commit_index"} => h = H0 - 1
TestCommitted ==
  /\ root = Genesis /\ u = 1 /\ h = H0 - 1
  /\ IsCommitted /\ record.committed /\ IsTestRelease(record.release)
TestFinalized ==
  /\ root = TestTransition.next_root /\ u = 1 /\ h = H0 - 1
  /\ status = "Ready" /\ record = Empty

(* Every answer so far is ok, and the appliance is where it says.          *)
OnCourse ==
  /\ \A i \in 1..Len(answers) : answers[i].ok
  /\ Len(answers) = 0 => TestPreparing
  /\ Len(answers) = 1 => TestCommitting
  /\ Len(answers) \in {2, 3} => TestCommitted
  /\ Len(answers) \in {4, 5} => TestFinalized
  /\ Len(answers) < 4 => installed = {}
  /\ Len(answers) = 3 => answers[3].release = {record.release}
  /\ Len(answers) >= 3 =>
       /\ answers[3].release # {}
       /\ \A r \in answers[3].release : r \in exported /\ IsTestRelease(r)
  /\ Len(answers) >= 4 =>
       /\ answers[3].release = installed
       /\ answers[4].active_root = {TestTransition.next_root}
  /\ Len(answers) = 5 =>
       answers[5].active_index = 1 /\ answers[5].status = "Ready"

TestInv == TestServed /\ (phase = "selftest" => ChipFailed \/ OnCourse)
=============================================================================
