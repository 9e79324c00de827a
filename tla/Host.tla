--------------------------------- MODULE Host ---------------------------------
(***************************************************************************)
(* anchor_host_test.py driving the firmware: a script opens the port,      *)
(* drains it until it is quiet, and makes seven calls, each waiting for    *)
(* the answer to the one before; then it prints PASS or FAIL.  A call that *)
(* times out raises, and the script ends without a verdict.                *)
(*                                                                         *)
(* Nothing in an answer says which request it belongs to.  A script that   *)
(* gave up leaves its request with the device, and the next one cannot     *)
(* tell a late answer from its own; neither can it tell quiet from slow:   *)
(* it may begin while the device is still booting.  The boot log goes      *)
(* through the same port, each line of it unless the port is full; four    *)
(* bytes of it are a length no answer has, and the call times out.  Frames *)
(* arrive whole here; Link has the bytes.                                  *)
(***************************************************************************)
EXTENDS Firmware

CONSTANTS MaxScripts    \* bound on runs of the script

ASSUME MaxScriptsAssumption == MaxScripts \in Nat

VARIABLES
  script,     \* "closed", "quiet", "ask", "wait", or "cut": its port is gone
  scripts,    \* runs so far
  since,      \* runs since power-up
  got,        \* the answers of this run, each with the request it answers
  toDevice,   \* requests on their way, tagged with run and call
  toHost,     \* answers, tagged with the request, and lines of the log
  asker,      \* the tag of the request being served
  verdict     \* what the last run printed

portVars == <<toDevice, toHost, asker>>
scriptVars == <<script, scripts, since, got, verdict>>
hostVars == <<scriptVars, portVars>>
benchVars == <<deviceVars, hostVars>>

HostScript ==
  <<TestRequest("Status"), TestScript[1], TestRequest("Status"),
    TestRequest("Commit"), TestRequest("Emit"), TestRequest("Finalize"),
    TestRequest("Status")>>
Calls == Len(HostScript)
Log == [tag |-> <<0, 0>>, response |-> base("Log")]

HostInit ==
  /\ FirmwareInit
  /\ script = "closed" /\ scripts = 0 /\ since = 0 /\ got = <<>>
  /\ toDevice = <<>> /\ toHost = <<>> /\ asker = <<>> /\ verdict = "none"

-----------------------------------------------------------------------------
(* The script.                                                             *)

OpenPort ==
  /\ script = "closed" /\ scripts < MaxScripts
  /\ script' = "quiet" /\ scripts' = scripts + 1 /\ since' = since + 1
  /\ got' = <<>> /\ verdict' = "none"
  /\ UNCHANGED <<deviceVars, portVars>>

(* read_until_quiet reads what arrives ...                                 *)
Drain ==
  /\ script = "quiet" /\ toHost # <<>>
  /\ toHost' = Tail(toHost)
  /\ UNCHANGED <<deviceVars, scriptVars, toDevice, asker>>

(* ... and ends after two and a half seconds without anything.             *)
Quiet ==
  /\ script = "quiet" /\ toHost = <<>>
  /\ script' = "ask"
  /\ UNCHANGED <<deviceVars, scripts, since, got, verdict, portVars>>

Ask ==
  /\ script = "ask" /\ Len(got) < Calls
  /\ toDevice' = Append(toDevice, [tag |-> <<scripts, Len(got) + 1>>,
                                   request |-> HostScript[Len(got) + 1]])
  /\ script' = "wait"
  /\ UNCHANGED <<deviceVars, scripts, since, got, verdict, toHost, asker>>

Answered ==
  /\ script = "wait" /\ toHost # <<>> /\ Head(toHost) # Log
  /\ got' = Append(got, Head(toHost)) /\ toHost' = Tail(toHost)
  /\ script' = "ask"
  /\ UNCHANGED <<deviceVars, scripts, since, verdict, toDevice, asker>>

(* A line of the log is read as the length of an answer, and what follows  *)
(* in the time left as its beginning.                                      *)
ReadsLog ==
  /\ script = "wait" /\ toHost # <<>> /\ Head(toHost) = Log
  /\ \E n \in 1..Len(toHost) : toHost' = SubSeq(toHost, n + 1, Len(toHost))
  /\ script' = "closed" /\ got' = <<>>
  /\ UNCHANGED <<deviceVars, scripts, since, verdict, toDevice, asker>>

(* TimeoutError, or OSError once the port is gone.                         *)
GivesUp ==
  /\ script \in {"wait", "cut"} /\ Len(got) < Calls
  /\ script' = "closed" /\ got' = <<>>
  /\ UNCHANGED <<deviceVars, scripts, since, verdict, portVars>>

(* Mutant: ok is all that counts.                                          *)
HostPassesByOk == \A i \in 1..Calls : got[i].response.ok
(* Mutant: the last two answers are not looked at.                         *)
HostPassesAtEmit ==
  /\ \A i \in 1..5 : got[i].response.ok
  /\ got[1].response.active_index = 0 /\ got[1].response.status = "Ready"
  /\ got[3].response.status = "Prepared" /\ got[5].response.release # {}

HostPasses ==
  /\ \A i \in 1..Calls : got[i].response.ok
  /\ got[1].response.active_index = 0 /\ got[1].response.status = "Ready"
  /\ got[3].response.status = "Prepared"
  /\ got[5].response.release # {}
  /\ got[6].response.active_root = {TestTransition.next_root}
  /\ got[7].response.status = "Ready" /\ got[7].response.active_index = 1

Finish ==
  /\ script \in {"ask", "cut"} /\ Len(got) = Calls
  /\ verdict' = IF HostPasses THEN "PASS" ELSE "FAIL"
  /\ script' = "closed"
  /\ UNCHANGED <<deviceVars, scripts, since, got, portVars>>

-----------------------------------------------------------------------------
(* The device.                                                             *)

(* Before it serves; put drops a line for which there is no room.          *)
Boots ==
  /\ Firmware
  /\ \/ phase' # phase /\ toHost' = Append(toHost, Log)
     \/ UNCHANGED toHost
  /\ UNCHANGED <<scriptVars, toDevice, asker>>

Sends(tag) ==
  toHost' = toHost \o
    (IF exchange' = {} THEN <<>>
     ELSE <<[tag |-> tag,
             response |-> (CHOOSE e \in exchange' : TRUE).response]>>)

Serves ==
  /\ phase = "serving" /\ HandOut
  /\ UNCHANGED <<phase, answers, boots, epoch, scriptVars>>

(* The oldest request that has arrived.                                    *)
ServesRequest ==
  /\ toDevice # <<>>
  /\ handle(Head(toDevice).request)
  /\ toDevice' = Tail(toDevice) /\ asker' = Head(toDevice).tag
  /\ Serves /\ Sends(Head(toDevice).tag)

ServesOn ==
  /\ Continuation
  /\ Serves /\ Sends(asker) /\ UNCHANGED <<toDevice, asker>>

(* What was under way is lost, and the port goes.                          *)
PowerCut ==
  /\ PowerCycle
  /\ toDevice' = <<>> /\ toHost' = <<>> /\ asker' = <<>> /\ since' = 0
  /\ script' = IF script = "closed" THEN "closed" ELSE "cut"
  /\ UNCHANGED <<scripts, got, verdict>>

-----------------------------------------------------------------------------
Script == \/ OpenPort \/ Drain \/ Quiet \/ Ask \/ Answered \/ ReadsLog
          \/ GivesUp \/ Finish
HostNext == Script \/ Boots \/ ServesRequest \/ ServesOn \/ PowerCut
HostSpec == HostInit /\ [][HostNext]_benchVars

-----------------------------------------------------------------------------
(* Properties.                                                             *)

HostTypeOK ==
  /\ FirmwareTypeOK
  /\ script \in {"closed", "quiet", "ask", "wait", "cut"}
  /\ scripts \in 0..MaxScripts /\ since \in 0..scripts
  /\ Len(got) <= Calls
  /\ verdict \in {"none", "PASS", "FAIL"}
  /\ \A i \in 1..Len(toDevice) : toDevice[i].request \in Requests
  /\ serving # {} /\ phase = "serving" => asker # <<>>

(* PASS is not printed on the strength of another run's answers: late ones *)
(* do not make up an advance.  Each run leaves at most one behind, and it  *)
(* takes six of them (a seventh run may then be answered a whole run late).*)
PassMeansOwnAnswers ==
  verdict = "PASS" /\ (scripts <= 6 \/ since \in 1..6) =>
    \A i \in 1..Calls : got[i].tag = <<scripts, i>>

(* PASS means that the appliance has done it: the release the script got   *)
(* is installed and the index has moved (until power is cycled).           *)
PassMeansInstalled ==
  verdict = "PASS" /\ since > 0 =>
    /\ root = TestTransition.next_root /\ u >= 1
    /\ got[5].response.release # {} /\ got[5].response.release \subseteq installed

(* The first script after power-up fails only if the chip has: whenever it *)
(* begins, and whatever of the log it meets.                               *)
FailMeansDisturbed ==
  verdict = "FAIL" /\ since = 1 =>
    \/ wasted > 0
    \/ \E i \in 1..Calls :
         got[i].response.error \in {"Tropic", "CounterExhausted"}
-----------------------------------------------------------------------------
(* The inductive strengthening.                                            *)

IsSeq(s) == s \in Seq({s[i] : i \in 1..Len(s)})
Busy == IF phase = "serving" /\ serving # {} THEN 1 ELSE 0
Talking == script \in {"ask", "wait"}
Asked == IF script = "wait" THEN Len(got) + 1 ELSE Len(got)

(* What is under way is what a script sends, and answers to it.            *)
Tags == Nat \X (1..Calls)
IsAnswer(e) ==
  /\ e.tag \in Tags /\ e.response.op = HostScript[e.tag[2]].op
  /\ e.response.release # {} => e.response.op = "Emit"
  /\ e.response.active_index # 0 => e.response.op = "Status"
ScriptInv ==
  /\ scripts \in 0..MaxScripts /\ since \in 0..scripts
  /\ script \in {"closed", "quiet", "ask", "wait", "cut"}
  /\ script \in {"quiet", "ask", "wait"} => since > 0
  /\ script = "cut" => since = 0
  /\ script = "quiet" => got = <<>>
  /\ Len(got) <= Calls /\ (script = "wait" => Len(got) < Calls)
  /\ since > 0 /\ Len(got) > 0 => phase = "serving"
  /\ verdict \in {"none", "PASS", "FAIL"}
  /\ verdict # "none" =>
       /\ script = "closed" /\ Len(got) = Calls
       /\ verdict = "PASS" <=> HostPasses
PortInv ==
  /\ IsSeq(got) /\ IsSeq(toHost)
  /\ toDevice \in Seq([tag : Tags, request : Requests])
  /\ \A j \in 1..Len(toDevice) :
       toDevice[j].request = HostScript[toDevice[j].tag[2]]
  /\ Busy = 1 => asker \in Tags /\ serving = {HostScript[asker[2]]}
  /\ \A i \in 1..Len(got) : IsAnswer(got[i])

(* The log comes before the answers, each run leaves at most one request   *)
(* behind, and a call that waits has a request under way.                  *)
Pending(m) == (Len(toHost) - m) + Busy + Len(toDevice)
IsLogs(m) ==
  /\ \A j \in 1..m : toHost[j] = Log
  /\ \A j \in m + 1..Len(toHost) : IsAnswer(toHost[j])
  /\ phase # "serving" => m = Len(toHost)
  /\ Talking /\ Len(got) > 0 => m = 0
  /\ Pending(m) + (IF script \in {"quiet", "ask"} THEN 1 ELSE 0) <= since
  /\ script = "wait" => Pending(m) >= 1
BacklogInv == \E m \in 0..Len(toHost) : IsLogs(m)

(* The requests of a run are the last that are under way, in their order.  *)
Own(place) == <<scripts, Asked - place>>
OrderInv ==
  Talking =>
    /\ \A j \in 1..Len(toDevice) :
         LET place == Len(toDevice) - j
         IN  place < Asked => toDevice[j].tag = Own(place)
    /\ Busy = 1 /\ Len(toDevice) < Asked => asker = Own(Len(toDevice))
    /\ \A j \in 1..Len(toHost) :
         LET place == Len(toHost) - j + Busy + Len(toDevice)
         IN  place < Asked => toHost[j].tag = Own(place)
    /\ \A i \in 1..Len(got) :
         LET place == Len(got) - i + Len(toHost) + Busy + Len(toDevice)
         IN  place < Asked => got[i].tag = Own(place)

(* A run that has all its answers keeps them.                              *)
OwnInv ==
  Len(got) = Calls /\ HostPasses /\ (scripts <= 6 \/ since \in 1..6) =>
    \A i \in 1..Calls : got[i].tag = <<scripts, i>>
HostInv == ScriptInv /\ PortInv /\ BacklogInv /\ OrderInv /\ OwnInv

(* The appliance a script meets has made no advance, or the one the script *)
(* asks for, and what it answered is so.                                   *)
AsMade ==
  /\ root = Genesis /\ u = 0 /\ status = "Ready" /\ record = Empty
  /\ staged = Empty /\ exported = {} /\ installed = {}
  /\ h = H0 - wasted /\ serving = {}
Advanced ==
  root = TestTransition.next_root /\ u = 1 /\ status = "Ready" /\ record = Empty
OnlyTest ==
  /\ IsPrepared => record.txn = TestTransition
  /\ IsCommitted => record.release.transition = TestTransition
  /\ staged.kind = "Prepared" => staged.txn = TestTransition
  /\ staged.kind = "Committed" => staged.release.transition = TestTransition
  /\ u = 0 \/ IsCommitted \/ Advanced
AdvanceInv ==
  /\ phase = "recover" => AsMade /\ pc \in {"boot", "recover_read"}
  /\ phase = "serving" => OnlyTest
IsTrue(response) ==
  /\ response.release \subseteq exported
  /\ response.active_index = 1 /\ response.status = "Ready" => Advanced
TrueInv ==
  /\ \A j \in 1..Len(toHost) : IsTrue(toHost[j].response)
  /\ since > 0 => \A i \in 1..Len(got) : IsTrue(got[i].response)

(* The first run after power-up is what PASS expects, or the chip failed.  *)
IsExpected(i, response) ==
  /\ response.ok
  /\ i = 1 => response.active_index = 0 /\ response.status = "Ready"
  /\ i = 3 => response.status = "Prepared"
  /\ i = 5 => response.release # {}
  /\ i = 6 => response.active_root = {TestTransition.next_root}
  /\ i = 7 => response.active_index = 1 /\ response.status = "Ready"
TellsOfChip(response) == response.error \in {"Tropic", "CounterExhausted"}
StageAfter(n) ==
  /\ n \in {0, 1} => TestPreparing
  /\ n \in {2, 3} => TestCommitting
  /\ n \in {4, 5} => TestCommitted
  /\ n \in {6, 7} => TestFinalized
RunDisturbed ==
  \/ wasted > 0
  \/ \E i \in 1..Len(got) : TellsOfChip(got[i].response)
  \/ \E j \in 1..Len(toHost) : TellsOfChip(toHost[j].response)
RunExpected ==
  /\ \A i \in 1..Len(got) : IsExpected(got[i].tag[2], got[i].response)
  /\ \A j \in 1..Len(toHost) :
       toHost[j] # Log => IsExpected(toHost[j].tag[2], toHost[j].response)
  /\ StageAfter(Asked - Busy - Len(toDevice))
ReadyInv ==
  phase = "serving" /\ (since = 0 \/ (script = "quiet" /\ since = 1)) =>
    wasted > 0 \/ (TestPreparing /\ pc = "idle")
RunInv ==
  phase = "serving" /\ Talking /\ since = 1 => RunDisturbed \/ RunExpected
FailInv ==
  Len(got) = Calls /\ since = 1 /\ ~HostPasses =>
    wasted > 0 \/ \E i \in 1..Calls : TellsOfChip(got[i].response)
FirstRunInv == ReadyInv /\ RunInv /\ FailInv
=============================================================================
