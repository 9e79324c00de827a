# The DSM offline anchor in TLA+

A verification development for the anchor appliance: the RP2350 firmware with a
TROPIC01 secure element that lets the owner of a DSM state hand it over offline,
once.  The code is Rust (`anchor-core/`, `firmware/`), with a Python host
driver (`tools/`).  Paths and line numbers below are relative to the repository
root; `PROJECT.json` gives the source lines of every definition.

## 1. The system

The appliance holds one *active state*: a root, an index `u`, a status and a
record.  To hand the state to a receiver the host drives
`prepare -> commit -> emit -> finalize`: `prepare` makes one MACANDD call and
derives a one-time witness key, `commit` signs the certificate message, stores
the release as the candidate, moves the chip's down-counter `H` and marks the
candidate, `emit` hands the release out, `finalize` installs the successor root.
The receiver recomputes everything the release carries and reads the counter
itself: `H = H0 - (u + 1)` is the evidence that the parent was spent on this
advance.

### Inventory

| Component | State | Operations | Interacts with |
|---|---|---|---|
| `Appliance` (`anchor-core/src/appliance.rs`) | `Active` = root, `u`, status, record; a power-loss flag | `prepare`, `commit`, `emit`, `finalize`, `cancel`, `recover`, `live_index` | calls the chip; is called by the service and, for `recover`, by the firmware at boot |
| Secure element (`tropic.rs`, `ChipTropic` in `firmware/src/main.rs:149-162`) | down-counter `H`, MACANDD slot | `counter_get`, `counter_update`, `mac_and_destroy` | survives the appliance's power loss; is read by receivers directly |
| Root-advance objects (`root_advance.rs`, `domain.rs`, `hash.rs`) | none | digests D, X, K, P_hw, M; certificate and release | recomputed on both sides |
| Receiver (`accept.rs`) | per session: accepted parent, challenge, counter read | `accept_offline` | its own chip session; release packages from an untrusted transport |
| Witness signature (`sig.rs`) | none | `keygen`, `sign`, `verify`, `digits` | `prepare`, `commit`, `accept_offline` |
| Service and wire (`service.rs`, `proto.rs`, `proto/dsm_anchor.proto`) | none | `handle`, `dispatch`, conversions with length caps | host frames in, appliance calls out |
| Firmware (`firmware/src/main.rs`) | the receive buffer, the chip session, how far the boot has come | boot: enroll, self-test, enroll, recover; then `serve_forever` | everything above |
| Host driver (`tools/anchor_host_test.py`) | the answers of this run | open the port, drain it, seven requests one at a time, each with a timeout; PASS or FAIL | frames over USB |

Build scripts, `util.rs` and `lib.rs` keep no state and take no decisions.

### What is hard here

* **Crashes.**  `commit` makes two signed-state writes, an irreversible counter
  move in another chip and two more writes (`appliance.rs:290-313`); `recover`
  repeats the tail of it and can itself be interrupted.
* **Lost replies.**  A chip call can have taken effect and still be an error to
  the appliance.
* **Rivals.**  `cancel` and a new `prepare` let the same parent be signed for
  several transitions; only the counter decides which of them counts.
* **Stale reads.**  The counter is read, then signed for, then moved
  (`appliance.rs:245-305`); the receiver's read of it is compared after the
  owner may have gone on.
* **An untrusted transport** between the owner and the receiver: it alters what
  it carries, writes the counter evidence and can sign under keys of its own.
* **Framing and timeouts** on the USB link, without request identifiers.
* **Re-enrollment.**  Every boot of the bring-up firmware sets the counter back,
  and an enrollment that fails is taken for one that succeeded (`main.rs:536`).

`PROJECT.json` lists each hazard at its line with the properties about it.

## 2. Modules

```
 RootAdvance   Tropic        RootAuthority (abstract)
      \         /                  |
       Appliance -------- ApplianceRefinement ---- MCAppliance
      /    |
 Accept    +---- Service ---- MCService
   | \     |        |
   |  OfflineTransfer  ---- MCOfflineTransfer
   |                |
   +----------- Firmware ---- MCFirmware
                    |
                  Host ---- MCHost

 Wots ---- MCWots        Link ---- MCLink

 proofs:  ApplianceProofs <- RefinementProofs, TransferProofs,
                             ServiceProofs <- FirmwareProofs <- HostProofs
          WotsProofs         LinkProofs
```

**RootAdvance** has the objects of `root_advance.rs`.  Hashing and signing are
ideal: a digest is the tagged tuple of exactly the fields the code hashes, in
the code's order, so a field the code left out would be a field an adversary
could change.  The fields of a transition that nothing but its digest reads are
one field, `payload`.

**Tropic** is the chip: the counter `h` and `slot_state`, the number of MACANDD
calls the slot has seen.  `CounterUpdateFails` and `MacAndDestroyFails` are the
calls an appliance sees fail; the chip may have executed them.

**Appliance** is `appliance.rs`.  `root`, `u`, `status`, `record` are the
durable `Active`; `pc` and `staged` are what the processor knows and loses.
Every assignment to the active state is an action of its own, because power can
fail between any two of them:

| Code | Actions |
|---|---|
| `prepare` 170-219 | `PrepareBegin` (checks, MACANDD, status), `PrepareStore` (record) |
| `commit` 229-315 | `CommitSign` (checks, signature, key erasure), `CommitStatus`, `CommitStore`, `CommitCount` or `CommitCountFails`, `CommitFlag`, `CommitIndex` |
| `emit` 319-324 | `Emit` |
| `finalize` 327-346 | `Finalize` (one assignment of the whole `Active`) |
| `cancel` 349-359 | `CancelErase`, `CancelStatus`, `CancelStore` |
| `recover` 365-454 | `RecoverFaulty`, `RecoverReemit`, `RecoverCountPending` + `RecoverCount`/`RecoverCountFails` + `RecoverFlag` + `RecoverIndex`, `RecoverStale`, `RecoverPrepared`, `RecoverReady` + `RecoverRead`, `RecoverAhead` |

The early returns are the values of `PrepareCheck`, `CommitCheck` and
`FinalizeCheck`, in the code's order; `...Refused` answers one of them,
`...ReadFails` is a failing `counter_get`.  The environment is `PowerLoss`
(anywhere), `CounterWaste` (somebody else with access to the chip moves the
counter, which `commit`'s own comment expects) and `OnlineAdvance` (the root is
advanced outside the appliance, as the recovery tests do).  `exported`,
`installed` and `wasted` are history variables; no guard of the code reads them.

*Persistence.*  `appliance.rs` and `recover` speak of a durable `Active`, and
the firmware header (`main.rs:27-32`) says that the bring-up build keeps it in
RAM and a production build writes it to the chip's memory.  The model takes
`Active` to be durable, and every single assignment to it to be a separate
durable write.  A persistence layer that writes `Active` as a whole, and always
before the chip call that depends on it, reaches only states that are also
reached here.  One that lags behind the chip, so that a counter move outlives the
candidate it was made for, is not covered: no code here would behave like that,
and no `recover` could repair it.

**RootAuthority** is the promise: a chain of roots, at most one certified and
not yet installed successor, the index that moves with certification, the pairs
of index and root handed out.  **ApplianceRefinement** maps the appliance to it:
a successor is certified when the *counter* moves for a durable candidate, not
when the flag or `u` records it.

**Accept** is `accept_offline`, all of its checks in order.  The receiver's DSM
verifier is a pair of constants, its counter read a parameter.  Of the evidence
in a package only the anchor is compared, and the witness key only with the hash
in the same certificate (`accept.rs:178-211`).

**OfflineTransfer** composes the appliance with receiver sessions and the
transport.  A session is named by the fresh challenge it drew; it opens with a
parent root it accepts, reads the counter (as often as it likes), and decides on
packages.  The transport, the host and the network in between, delivers any
submitted transition with

* a certificate that was emitted, with its successor root or its challenge altered,
  or one it made by the rules of `commit` under a witness key of its own
  (`HostSeeds`), for any challenge and any slot of its choice (`HostSlots`);
* any counter evidence, the emitted or its own (`HostClaims`): no digest covers it.

It does not sign under the appliance's keys.  `NothingElseIsAccepted` (section 5)
shows that this leaves nothing out: a certificate of any content that
`accept_offline` takes, with a signature that was emitted or under a key of the
transport, is one of these.  An RP2350 that derives further keys from the chip's
MACANDD slot is not modelled separately: to a receiver they are keys like any
other.

**Service** puts the appliance behind the wire: `handle` and `dispatch` of
`service.rs` and the decoding half of `proto.rs`.  A frame is a request or one of
two that are none, too long or not decodable; an absent transition is an empty
set and a field of a wrong length is `Malformed`.  `handle` takes a frame
only when nothing is being served (`serve_forever` is a loop over whole frames).
What is answered without the appliance is `DirectAnswer`; otherwise the request
starts an operation of `Appliance`, whose steps then go on (`AfterStep`,
`Continuation`) until it answers, and the response is built from the state *after*
the operation.  `exchange` is the frame and the response of the step just taken,
`before` the active state when the request began, `acked` the releases whose
commit was answered ok.  Power loss ends a request without a response.  On the
bring-up firmware an oversized frame does not reach `handle` (the receive buffer
drops it first); the module covers `handle` under any transport.

**Firmware** is `main` of `firmware/src/main.rs` around the service: `phase` is
where `main` is, `answers` the self-test's responses so far.

| Code | Actions |
|---|---|
| chip session 444-454, dead end 455-465 | `SessionStart`, `SessionFails` |
| `enroll` 211-219 | `EnrollOk`, `EnrollFails` (before or after the counter was set) |
| first enrollment and self-test 473-492, 203-305 | `EnrollForTest`, `EnrollForTestFails`, `SelfTest`, `Passes` |
| second enrollment 536-545 | `EnrollAgain`: `unwrap_or(ENROLL_H0)`, so also after a failure |
| `recover` 546-564, `serve_forever` | `Recover`, `ServeForever` |
| power off and on | `PowerCycle`: `Active` is in RAM here, only the chip remembers |

Each `AnchorAppliance::new` is `NewAppliance`: index 0 whatever the counter holds.
The chip's initial counter is anything up to `ENROLL_H0`, what earlier boots of
this firmware leave.  `epoch` counts how often the counter was really set, and
`handed` the releases emitted in each epoch: the only things that outlive an
appliance, and what says whether an index can be emitted twice.

**Host** is `anchor_host_test.py` on the other side of the port: `OpenPort`,
`Drain` and `Quiet` (`read_until_quiet`), `Ask` and `Answered` (`call`), `GivesUp`
(its uncaught `TimeoutError`), `Finish` with the verdict `HostPasses`.  The device
is `Firmware` (`Boots`, `ServesRequest`, `ServesOn`, `PowerCut`).  No clock: the
script may find the port quiet at any time, so it may begin while the device
boots, and then reads lines of the log as answers (`ReadsLog`).  Requests and
answers carry a ghost tag naming the run and the call they belong to; the code
sends none, and no guard reads it.

**Link** has the bytes between `call` and `serve_forever`: a length in front of
each frame, chunks that are not frames (`DeviceReads`), the cap that clears the
receive buffer (`Received`), the inner loop (`Incomplete`, `ServeFrame`, `Drain`,
`DropOversized`), `write_all` writing what there is room for (`Writes`,
`WriteFails`), a host that writes a part of a frame, gives up and calls again.
`tidy` and `patient` are history variables for the assumptions its properties
need.  The stream to the device loses nothing, which is what USB promises.
`Weight` is what a one in each byte of a length counts (1, 256, 65536, ... in the
code); it is a constant, with an assumption that says so, because the provers know
nothing of powers.

**Wots** is `sig.rs`: the checksum loop (`AddDigit`), `digits`, `sign`, `verify`,
and a holder of the signature going on along its chains (`Advance`).  Two digests
are followed side by side, the signed one and any other.  Hashing is ideal: a chain element
is its chain and its distance from the secret.  The other modules use an ideal
signature; `Wots` is what justifies it.

**ApplianceProofs**, **RefinementProofs**, **ServiceProofs**, **TransferProofs**,
**FirmwareProofs**, **HostProofs**, **LinkProofs** and **WotsProofs** hold the
theorems.  The inductive strengthening of a component stands at the end of its own
module, so that TLC can check it on the instance of the component's run.

## 3. Runs

| Run | Instance | Shows |
|---|---|---|
| `appliance_faults` | `H0 = 3`, 3 MACANDD calls, 1 foreign counter move, 2 challenges, online advance to one root, 8 transitions (rivals, skipped and stale indices included); 88 k states | the safety invariants and the inductive invariant under all faults at once |
| `appliance_chain` | `H0 = 3`, 4 MACANDD calls, no foreign moves, no online advance, with fairness; 6.8 k states | the chain of installed releases; the refinement of `RootAuthority`; every candidate is installed |
| `offline_transfer` | two sessions, 4 transitions (rivals of the genesis root, a second step, one to someone else), `H0 = 2`, one key, slot and foreign evidence of the transport's own; 307 k states with the two sessions interchangeable | what receivers accept |
| `service` | `H0 = 2`, 3 MACANDD calls, 1 foreign counter move, online advance to one root; every opcode, rival, successive and stale transitions, absent and malformed fields; 79 k states | what an answer tells the host |
| `wots` | base 2, digests of three bytes, every pair of them; 162 k states | one signature says one thing |
| `firmware` | `H0 = 2`, 6 MACANDD calls, two boots, a host that asks for anything; 102 k states, with fairness | the boot, its self-test and what re-enrollment does to the evidence |
| `link` | two-valued bytes, a two-byte length, frames of up to two bytes and one too long, chunks of three, three calls; 1.1 M states, with fairness | framing |
| `host` | two runs of the script, two boots, `H0 = 2`; about 2 M states | what PASS and FAIL say |
| `second_transfer` | the instance of `offline_transfer` | finding 1 of section 6 |
| `matching_parent`, `prepared_exhausted` | one chain | findings 2 and 3 |
| `boot_finds_ready` | the instance of `firmware` | finding 4 |

*Why the bounds suffice.*  `H0 = 3` lets the appliance commit at the genesis
root, in the middle and at the last step, and reach an exhausted counter.  Each
rival needs a MACANDD call of its own; three or four allow two rivals and a
successor, or a prepare lost to a crash and its repetition.  The counter is
compared only for equality and with its neighbour, so one foreign move produces
each of the stale situations; the theorems of section 5 have no such bounds.
Two sessions are enough for two receivers to hold rival claims, and one key of
the transport's for each of them to be offered a package the appliance never saw.  Six MACANDD
calls let two boots run their self-test to a PASS, and two settings of one chip are enough for an
index to come round.  In `link` a chunk is longer than a frame and its length, so
that it holds the end of one and the beginning of the next; the longest allowed
body, a longer one, the empty one, a body that reads like a length and an answer
that does not fit in the room are among the frames, and three calls put two
frames behind one that was torn.  In `host` the second run of the script meets
the late answers of the first, before and after a power cycle.  `WInv` is checked at the
largest digest whose checksum still fits three digits, where an off-by-one of the
bound would show.

Deadlock is checked in the appliance, transfer and service runs: the appliance
always answers, even when it only refuses.  It is not in `firmware`, `boot_finds_ready` and
`host`, where a device whose chip session failed only logs (`main.rs:455`) and a
script that ended is not run again; in `link`, where all calls have been made;
and in `wots`, which ends at the tops of the chains.

*Properties.*

* `CounterAccounted`: the counter moves once per committed record, however often
  the commit is interrupted, up to the moves of others.
* `ExportedAfterCount`, `OneReleasePerIndex`, `ExportedNotAbandoned`: nothing
  leaves before the counter moved for it; no index is spent by two releases;
  what left the appliance is never forgotten by it.
* `CandidateStable`: a committed record leaves only by being installed.
* `RecoveryHonoured`: what `recover` answers is what the next operation finds,
  as long as nobody else moves the counter; a `prepare` torn between its two
  writes is promised neither a commit nor a cancel.
* `ChainLinked` and `ImplementsAuthority`: the installed releases are one chain
  and the appliance is an authority.
* `CandidateInstalled`: an interrupted commit is finished in the end.
* `ChipSignedWasEmitted`, `ChipSignedOnce`, `ChipSignedIsSuccessor`: what a
  receiver accepts under a key of the appliance was emitted, unaltered, for its
  session; at most once per index; and it is where the owner's chain goes.  The
  hypothesis is needed, and a receiver cannot check it: finding 1.
* `AcceptedIsSpent`: what holds without it.  Whoever signed a package and whatever
  evidence came with it, an index that a receiver accepts is one on which the
  appliance has spent a release of its own, as long as nobody else moved the counter.
* `EmittedIsAcceptable`: what `commit` assembles is what `accept_offline`
  recomputes.

* `ReleasesVerify`: whatever was prepared, interrupted and signed is what the
  receiver recomputes, so the counter is never spent on a dead release.
* `AckedCommitKept`, `OkMeansDone`, `ErrorChangesNothing`: a commit answered ok
  survives every crash; ok means that the operation is complete and the next one
  of the transfer is not refused; an error, the failed counter move of `commit`
  aside, leaves the active state as the request found it.

* `EvidenceOncePerEnrollment`, `NothingFromStaleCounter`: between two settings of
  the counter no index is emitted twice, on however many boots; an appliance made
  for a counter that was not set again emits nothing.
* `PassMeansAdvanced`, `FailMeansChipFailure`, `BootReachesService`: the self-test's
  verdict is right both ways, and no chip call that fails during enrollment, self-test
  or recovery keeps the device from serving (a session that cannot be had does).
* `PassMeansOwnAnswers`, `PassMeansInstalled`, `FailMeansDisturbed`: the host
  script's PASS does not rest on another run's late answers before the seventh run
  since power-up, and on any run the advance it saw is installed; the first run after power-up prints FAIL only if the chip failed.
* `ServedAsSent`, `FrameAwaited`, `CallsPaired`, `CallReturns`: frames that went out
  whole and fitted reach the appliance in order and unchanged, however they were
  chunked; the device waits only for the rest of a frame that fits; a host
  that never gave up gets the answers to its own requests, all of them.
* `OnlySignedDigestVerifies`, `SignatureVerifies`: no other digest verifies,
  whichever chains of a signature are continued.

Each property has a mutant in `PROJECT.json`: a plausible bug of the code, stated
as a definition next to the one it replaces, which TLC finds by that property.

## 4. Fairness

`LiveSpec` assumes, and `CandidateInstalled` needs:

* weak fairness of `CodeStep`: straight-line code between two writes goes on, and
  `recover` runs after power returns (`main.rs:554`);
* weak fairness of `Replug`: no opcode runs `recover`
  (`service.rs:87-137`), so an appliance left with a candidate that `finalize`
  refuses is stuck until somebody unplugs it.  Somebody does;
* strong fairness of the steps of `recover` and of `Finalize`: power and chip do
  not fail at the same step for ever, and the host asks for `finalize` again.

`LiveFirmware` assumes weak fairness of `Firmware`, the straight-line code of
`main` from the chip session to the serve loop: every chip call returns, with an
error or without.  `LiveLink` assumes weak fairness of `Device`, the serve loop,
which polls for ever, and of `Reading`: a call that waits reads what has arrived.
A call that gives up is no longer owed an answer, and nobody has to call.

Nothing is assumed of `prepare`, `commit`, `cancel` or `emit`: the host need
never ask for them.

## 5. Proofs

The theorems are checked by TLAPS for every `H0`, every set of transitions,
challenges, roots and requests, every number of foreign moves, boots, runs of the
script and calls, from the assumptions on the constants in the modules: natural
numbers; the transitions' fields have their types; the genesis and online roots
are roots; `Malformed` is not a value and the two frames that are no requests are
none; the exposure cap is a number; the self-test's transition is one step from
the genesis root, and the verifier the firmware gives itself (`TrivialDsm`,
`main.rs:179-190`) agrees to that step; the weights of the bytes of a length.
TLC evaluates each assumption on a run.

**ApplianceProofs.**  `Inductive` proves `Spec => []IInv`.  None of the properties
is inductive alone: "no index is spent twice" needs that the candidate lies above
everything installed (`InstalledInv`), that only marked candidates were exported
(`ExportedInv`), that a candidate is about the index after `u` until `u` takes it
and is marked only once the counter moved (`CommittedInv`), that a prepared
record is about the index after `u` (`PreparedInv`), and what each operation
relies on between two of its writes (`StepInv`).  One lemma per group of actions
shows that it keeps `IInv`.  `TypeCorrect`, `CounterIsAccounted`,
`NothingExportedEarly`, `NoIndexSpentTwice`, `NothingExportedIsForgotten` and the
action property `CandidateNeverReplaced` follow; `EveryReleaseVerifies` adds that
the signature of `commit` is over the recomputed message for any key. `RecoverKeepsItsPromises`
needs one more invariant, `RecoveryInv`: the answers of `recover` as facts about
the record and the counter, and what its second read of the counter relies on;
the next operation answers something else, and only a foreign counter move breaks
a promise.  `InstalledWithoutGaps`: online advances included, the installed
indices are `1..Tip`, because no step but `Finalize` moves `Tip` (`TipKept`) and
the candidate lies just above it.

**RefinementProofs.**  `ApplianceImplementsAuthority`: with `MaxWaste = 0` the
appliance implements `RootAuthority`, online advances included (the abstract chain
is that of the installed releases, not the active root).  Storing the candidate
is a stutter (its index is the one after `u`, so the chain keeps its length), the
counter move in `commit` or `recover` is `Certify` even when its reply is lost,
and `Finalize` appends, because everything installed lies below the candidate.
With foreign moves the index of the authority moves without a successor: the
hypothesis is needed.

The same module has `InstalledIsOneChain`, for appliances whose root nobody advances
online (foreign counter moves allowed).  `FromRoot`: whatever is prepared,
staged or stored as candidate starts at the active root, because only `finalize`
moves it.  `Linked`: the installed indices are `1..Tip`, each release starts
where the one before ends, the last ends at the active root.  `TipKept` again
leaves only `Finalize` to look at, although `u` and the record change in six
other steps.

**ServiceProofs.**  `ServiceImplementsAppliance`: every step of the service is a
step of the appliance or a stutter, so all of the above holds whatever the host
sends.  `AckedCommitIsKept`, `ErrorsChangeNothing` and `ServiceTypeCorrect` rest on
`ServingInv`, which ties the request being served to where the operation is;
`OkIsDone` also on `RunningInv`, what a running operation has from its request and
from the state it began in.

**TransferProofs.**  `TransferImplementsAppliance`: receivers and transport only
watch.  `OnlyEmittedIsAccepted` holds because a certificate that is not the
transport's is an emitted one, altered, and D, X and M leave it no field to be
altered in and only its own transition and challenge to go with;
`NoIndexAcceptedTwice` and `AcceptedIsWhereTheChainGoes` follow with
`NoIndexSpentTwice` and `ExportedInv`.  `NothingAcceptedUnspent` does not look at
keys: the counter only falls, so the index a session read is one the counter has
passed (`ReadInv`), and without foreign moves every index it has passed is an
installed one or the candidate's (`PassedIsSpent`, from `InstalledWithoutGaps`).
`NothingElseIsAccepted` is about the model's transport: take any certificate at
all that the predicate accepts, with the signature of an emitted release or under
a key of the transport, and `Decide` offers it.  `IntactReleaseIsAccepted` is from
`Verifiable`.

**FirmwareProofs.**  `FInv` is inductive over any number of boots: the invariants
of `Appliance` for whatever the counter holds when an appliance is made
(`FirmwareKeepsAppliances`; the moves it has not seen are counted as foreign),
`HandedInv` (a release of this epoch is one of this appliance's, or the counter
had passed its index when the appliance was made) and `StaleInv` (an appliance
made for a counter that had moved stays as it was made).
`NoIndexEmittedTwice` and `StaleCounterGivesNothing` follow.
The self-test's verdict needs how far the test has come: `TestServed` (the answers
are those of the script, the request under way is the next), and, until an answer
tells of the chip, `OnCourse`: after each number of answers the appliance is
where that request left it (`TestPreparing`, `TestCommitting`, `TestCommitted`,
`TestFinalized`, each with what holds between two writes of the operation).  One
lemma per request (`TestPrepares`, `TestCommits`, `TestEmits`, `TestFinalizes`)
shows what it does; they are used again for the host script.  `PassIsTrue`,
`FailIsTheChip` (which runs `accept_offline` on the emitted release) and
`FirmwareTypeCorrect` follow.

**HostProofs.**  `HostImplementsFirmware`: the script and the port touch the device
only through requests, so all of this holds on the bench.  The script's verdicts
rest on what is under way:

* `BacklogInv` counts it: the log comes before every answer, each run leaves at
  most one request behind, and a call that waits has one under way.
* `OrderInv` orders it: read from the back, what is on its way to the device, being
  served, on its way back and already read is what this run asked, last call first.
* `OwnInv`: with `n < 6` requests left behind, the script's i-th answer is the one
  to its call `i - n`, and for every `n > 0` some answer is one that `HostPasses`
  cannot be satisfied with: a release from something that is not `emit`, an index
  from something that is not `status`.  `PassIsOnOwnAnswers` follows.  Its bound is
  real.  From the seventh run since power-up on it is false, and a longer instance
  shows it: five runs give up at their first call, a sixth reads those five
  answers and asks up to `finalize`, and the seventh then gets the sixth run's six
  answers and the one to its own first call, and prints PASS.
* `AdvanceInv`, `TrueInv`: the appliance a script meets has made no advance or the
  one that is asked for, and an answer that was true when it was sent stays true
  until power is cycled.  Whatever is read, therefore, the advance has happened:
  `PassIsInstalled` needs no bound on the runs.
* `FirstRunInv`: before the first run after power-up asks, nothing is under way
  and the appliance is new; while it asks, every answer is the expected one and
  the appliance has gone as far as it was asked, or some answer tells of the
  chip; and its seven answers are its own.  `FailIsADisturbance` follows.

**LinkProofs.**  For every base, prefix, cap, chunk and room.  `LinkInv` has the types
and what the loop knows of its buffer.  `ReadsTheLength`: `little_endian` read back
is the length, by division in each place (`LinkTypeCorrect`,
`FrameAwaitedAlways`).  `StreamInv`: buffer and wire together are the frames of the
calls not drained yet, `Framed` by where each of them ends, and fit in the
buffer; so the first complete frame is the next call's (`ServedAsSentAlways`).
`AnswerInv`: a patient host has one answer coming, and what it has read of it, what
is on the way and what is yet to be written make it up (`CallsPairedAlways`).

**WotsProofs.**  For the code's base, 16, and any number of bytes whose checksum has
three digits.  The checksum loop is the induction: `SumInv` says that a digest
whose digits are all at least as large has the smaller checksum, so its
three-digit checksum has a smaller digit, and no chain goes back
(`ChecksumsOrdered`, `NoOtherDigestVerifies`, `OnlyTheSignatureVerifies`).

Inductions over the digits of a number are done by the least counterexample, a
fact about the natural numbers that takes no operator as a parameter.

Every safety property of the passing runs is the statement of a theorem.  Only
model-checked are the liveness properties (`CandidateInstalled`,
`BootReachesService`, `CallReturns`), which rest on fairness and `ENABLED` and so are
out of the prover's reach; and the four findings, which are counterexamples.
The hash is ideal in the proofs as in the runs.

## 6. Findings

1. **The counter does not tie a package to the chip** (`second_transfer`).
   `README.md:60` says that the receiver verifies the signature "under the
   committed `pk_hw`", and `README.md:63-65` that after one counter commit there is
   no evidence for a second transfer from the same parent.  `accept_offline`
   compares `pk_hw` with the hash in the same certificate and with nothing else
   (`accept.rs:178-196`), and its DSM verifier sees only the transition.  So when the
   counter stands at `H0 - (u + 1)`, two receivers can accept two successors of one
   parent that both verify in DSM, one of them under a key that the appliance
   never had.  `ChipSignedOnce` and `AcceptedIsSpent` say what does hold.
2. **recover completes a commit whose parent no longer matches**
   (`matching_parent`).  `README.md:116-118` says it does so only when the parent
   matches; the branch for a moved counter and a lost flag
   (`appliance.rs:403-411`) does not compare it.
3. **AcceptPreparedCanComplete on an exhausted counter** (`prepared_exhausted`).
   The prepared branch of `recover` (`appliance.rs:431`) does not look at `H`;
   `commit` then refuses for ever.
4. **recover at boot is not always a no-op** (`boot_finds_ready`).  `main.rs:547-548`
   and 30-31 say that with `Active` in RAM the `recover` at boot is a no-op
   Accept.  When the second enrollment fails, line 536 goes on with `ENROLL_H0`:
   the new appliance has index 0 behind a counter that has moved, `recover` answers
   `DowngradeOnline`, and the device serves an appliance that refuses every
   `prepare` until it is power-cycled.

## 7. What is not modelled, and what could come next

* *Byte encodings* of digests and of protobuf messages, and the decoding of
  releases on a receiver's side (`to_release`): a digest is the tuple of its
  fields, a package that does not decode never reaches `accept_offline`.
* *The contents of leaf proofs* and the receiver's DSM verifier: constants.
* *The chip's session handshake and pairing keys*, SPI probing, the clock, heap
  and USB setup, the log (except that the host reads it), the waiting loops.
* *Time.*  `read_until_quiet` waits 2.5 s and the link probe is silent for 3 s;
  the model lets the script begin at any time, which covers every timing.
* *Buffering in usbd-serial*: a lossless stream to the device.  What a dead script
  left half-sent is in `Link`, not in `Host`, where frames arrive whole.
* *A fresh chip* whose counter was never initialised, and a chip with a counter
  above `ENROLL_H0`: the firmware sets it on its first boot.
* *Across enrollments* the counter of the bring-up build presents the same evidence
  again, as `main.rs:27-32` discloses; `EvidenceOncePerEnrollment` is what does hold
  of the appliance's side of `README.md:63-65` (finding 1 is about the receiver's).
* *A torn `prepare`* (status written, record not) has no way out in the code: it
  is safe, `recover` promises it nothing, and it waits for somebody to act.
* *What CounterExhausted means.*  `commit` answers it for every error of
  `counter_update` (`appliance.rs:307`), a failed chip session included;
  `tropic.rs:20` documents it for `H == 0`.  The model has it as the code does
  (`CommitCountFails`), and `OkMeansDone` and `ErrorChangesNothing` speak of the
  other errors only.
* *A stored record that was damaged.*  `SignedRelease` computes D, X and M from the
  transition at signing, `prepare` when it stores them: the same values, since no
  step changes a prepared record's fields.  Storage that does is outside the model.
* *Resynchronisation.*  After a frame that was torn, or one that overflowed the
  receive buffer, the stream has no way back to a frame boundary but the cap's
  clearing and luck.  `Link` has these streams; `ServedAsSent` excludes them (`tidy`),
  and `FrameAwaited` says only that the device is not sitting on a complete frame.
* *An owner who moves on* before the receiver has read the counter: the receiver
  can never accept, and the code has no answer to it.  What is shown is
  `EmittedIsAcceptable`, acceptance as long as the counter has not moved on.

Next would be a `Host` over `Link` instead of over whole frames: too large for TLC
with the appliance behind it, but `ServedAsSentAlways` and `CallsPairedAlways` are
what a refinement between the two would need.
