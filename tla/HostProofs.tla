------------------------------ MODULE HostProofs ------------------------------
(***************************************************************************)
(* Whatever the host script does, when it begins, what it gives up and     *)
(* what it reads of the log, the device behind the port is the firmware of *)
(* Firmware, so what is proved of that holds on the bench.                 *)
(***************************************************************************)
EXTENDS Host, FirmwareProofs

(* Only requests are on their way to the device.                           *)
Sent == [tag : Nat \X Nat, request : Requests]
SentInv == scripts \in Nat /\ Len(got) \in Nat /\ toDevice \in Seq(Sent)

(* The script asks what the self-test asks.                                *)
LEMMA ScriptRequests == /\ HostScript \in Seq(Requests)
                        /\ Calls = 7
  <1>1. /\ Len(TestScript) = 5
        /\ TestScript[1] = ApplianceRequest("Prepare", {TestTransition},
                                            TestChallenge)
        /\ TestScript[2] = TestRequest("Commit")
        /\ TestScript[3] = TestRequest("Emit")
        /\ TestScript[4] = TestRequest("Finalize")
        /\ TestScript[5] = TestRequest("Status")
    BY DEF TestScript
  <1>2. /\ TestScript[1] \in Requests /\ TestRequest("Commit") \in Requests
        /\ TestRequest("Emit") \in Requests /\ TestRequest("Finalize") \in Requests
        /\ TestRequest("Status") \in Requests
    BY <1>1, TestScriptAssumption
  <1> QED BY <1>2 DEF HostScript, Calls

LEMMA SentInvKept ==
  ASSUME SentInv, [HostNext]_benchVars
  PROVE  SentInv'
  <1>1. CASE OpenPort
    BY <1>1 DEF OpenPort, portVars, SentInv
  <1>2. CASE Ask
    <2> DEFINE sent == [tag |-> <<scripts, Len(got) + 1>>,
                        request |-> HostScript[Len(got) + 1]]
    <2>1. toDevice' = Append(toDevice, sent) /\ UNCHANGED <<scripts, got>>
          /\ Len(got) < Calls
      BY <1>2 DEF Ask
    <2>2. HostScript[Len(got) + 1] \in Requests
      <3>1. Len(got) + 1 \in 1..Len(HostScript)
        BY <2>1, ScriptRequests DEF SentInv, Calls
      <3> QED BY <3>1, ScriptRequests
    <2>3. sent \in Sent
      BY <2>2 DEF SentInv, Sent
    <2> HIDE DEF sent
    <2> QED BY <2>1, <2>3 DEF SentInv
  <1>3. CASE ServesRequest
    <2>1. /\ toDevice # <<>> /\ toDevice' = Tail(toDevice)
          /\ UNCHANGED <<scripts, got>>
      BY <1>3 DEF ServesRequest, Serves, scriptVars
    <2> QED BY <2>1 DEF SentInv
  <1>4. CASE PowerCut
    BY <1>4 DEF PowerCut, SentInv
  <1>5. CASE Answered
    BY <1>5 DEF Answered, SentInv
  <1>6. CASE \/ Drain \/ Quiet \/ ReadsLog \/ GivesUp \/ Finish \/ Boots
             \/ ServesOn \/ UNCHANGED benchVars
    BY <1>6 DEF Drain, Quiet, ReadsLog, GivesUp, Finish, Boots, ServesOn,
      Serves, scriptVars, portVars, hostVars, benchVars, SentInv
  <1> QED BY <1>1, <1>2, <1>3, <1>4, <1>5, <1>6 DEF HostNext, Script

(* The script and the port never touch the device but through a request.   *)
LEMMA HostStep ==
  ASSUME SentInv, [HostNext]_benchVars
  PROVE  [FirmwareNext]_deviceVars
  <1>1. CASE Script \/ UNCHANGED benchVars
    BY <1>1 DEF Script, OpenPort, Drain, Quiet, Ask, Answered, ReadsLog,
      GivesUp, Finish, benchVars
  <1>2. CASE Boots
    BY <1>2 DEF Boots, FirmwareNext
  <1>3. CASE ServesRequest
    <2>1. Head(toDevice) \in Sent
      BY <1>3 DEF ServesRequest, SentInv
    <2>2. Head(toDevice).request \in Frames
      BY <2>1 DEF Sent, Frames
    <2> QED BY <1>3, <2>2 DEF ServesRequest, Serves, ServeForever, FirmwareNext
  <1>4. CASE ServesOn
    BY <1>4 DEF ServesOn, Serves, ServeForever, FirmwareNext
  <1>5. CASE PowerCut
    BY <1>5 DEF PowerCut, FirmwareNext
  <1> QED BY <1>1, <1>2, <1>3, <1>4, <1>5 DEF HostNext

(* On the bench the device is the firmware.                                *)
THEOREM HostImplementsFirmware == HostSpec => FirmwareSpec
  <1>1. HostInit => FirmwareInit /\ SentInv
    BY DEF HostInit, SentInv
  <1> QED BY <1>1, SentInvKept, HostStep, PTL DEF HostSpec, FirmwareSpec
-----------------------------------------------------------------------------
(* Sequences of answers, whatever is in them.                              *)

LEMMA Longer ==
  ASSUME NEW s, IsSeq(s), NEW e
  PROVE  /\ IsSeq(s \o <<e>>) /\ Append(s, e) = s \o <<e>>
         /\ Len(s) \in Nat /\ Len(s \o <<e>>) = Len(s) + 1
         /\ (s \o <<e>>)[Len(s) + 1] = e
         /\ \A j \in 1..Len(s) : (s \o <<e>>)[j] = s[j]
  <1>1. PICK S : s \in Seq(S)
    BY DEF IsSeq
  <1>2. /\ s \o <<e>> \in Seq(S \cup {e}) /\ Append(s, e) = s \o <<e>>
        /\ Len(s) \in Nat /\ Len(s \o <<e>>) = Len(s) + 1
        /\ (s \o <<e>>)[Len(s) + 1] = e
        /\ \A j \in 1..Len(s) : (s \o <<e>>)[j] = s[j]
    BY <1>1
  <1> QED BY <1>2, OfItsElements DEF IsSeq

LEMMA Shorter ==
  ASSUME NEW s, IsSeq(s), s # <<>>
  PROVE  /\ IsSeq(Tail(s)) /\ Len(s) \in Nat /\ Len(s) >= 1
         /\ Len(Tail(s)) = Len(s) - 1 /\ Head(s) = s[1]
         /\ \A j \in 1..Len(s) - 1 : Tail(s)[j] = s[j + 1]
  <1>1. PICK S : s \in Seq(S)
    BY DEF IsSeq
  <1>2. /\ Tail(s) \in Seq(S) /\ Len(s) \in Nat /\ Len(s) >= 1
        /\ Len(Tail(s)) = Len(s) - 1 /\ Head(s) = s[1]
        /\ \A j \in 1..Len(s) - 1 : Tail(s)[j] = s[j + 1]
    BY <1>1
  <1>3. \A t \in Seq(S) : IsSeq(t)
    BY OfItsElements DEF IsSeq
  <1> QED BY <1>2, <1>3

LEMMA Remaining ==
  ASSUME NEW s, IsSeq(s), NEW n \in 1..Len(s)
  PROVE  /\ IsSeq(SubSeq(s, n + 1, Len(s))) /\ Len(s) \in Nat
         /\ Len(SubSeq(s, n + 1, Len(s))) = Len(s) - n
         /\ \A j \in 1..Len(s) - n : SubSeq(s, n + 1, Len(s))[j] = s[j + n]
  <1>1. PICK S : s \in Seq(S)
    BY DEF IsSeq
  <1>2. /\ SubSeq(s, n + 1, Len(s)) \in Seq(S) /\ Len(s) \in Nat
        /\ Len(SubSeq(s, n + 1, Len(s))) = Len(s) - n
        /\ \A j \in 1..Len(s) - n : SubSeq(s, n + 1, Len(s))[j] = s[j + n]
    BY <1>1
  <1> QED BY <1>2, OfItsElements DEF IsSeq

LEMMA NothingIsSeq == IsSeq(<<>>) /\ Len(<<>>) = 0
  BY DEF IsSeq

LEMMA LenOfSeq == ASSUME NEW s, IsSeq(s) PROVE Len(s) \in Nat /\ (s = <<>> <=> Len(s) = 0)
  <1>1. PICK S : s \in Seq(S)
    BY DEF IsSeq
  <1> QED BY <1>1

-----------------------------------------------------------------------------
(* What the host asks is what the self-test asks.                          *)

LEMMA HostScriptIs ==
  /\ Calls = 7
  /\ HostScript[1] = TestScript[5] /\ HostScript[2] = TestScript[1]
  /\ HostScript[3] = TestScript[5] /\ HostScript[4] = TestScript[2]
  /\ HostScript[5] = TestScript[3] /\ HostScript[6] = TestScript[4]
  /\ HostScript[7] = TestScript[5]
  /\ \A k \in 1..7 : HostScript[k] \in Requests
  <1>1. /\ Calls = 7
        /\ HostScript[1] = TestScript[5] /\ HostScript[2] = TestScript[1]
        /\ HostScript[3] = TestScript[5] /\ HostScript[4] = TestScript[2]
        /\ HostScript[5] = TestScript[3] /\ HostScript[6] = TestScript[4]
        /\ HostScript[7] = TestScript[5]
    BY TestScriptIs DEF HostScript, Calls
  <1>2. \A i \in 1..5 : TestScript[i] \in Requests
    BY TestScriptIs
  <1>3. \A k \in 1..7 : k \in {1, 2, 3, 4, 5, 6, 7}
    OBVIOUS
  <1> QED BY <1>1, <1>2, <1>3

(* A prepare the host sends has its fields.                                *)
LEMMA HostRequests ==
  ASSUME NEW k \in 1..Calls, NEW req, req = HostScript[k]
  PROVE  /\ req \in Requests /\ req # Oversized /\ req # Undecodable
         /\ req.op \in {"Prepare", "Commit", "Emit", "Finalize", "Status"}
         /\ req.op = "Prepare" => k = 2 /\ PrepareFields(req) = "Ok"
         /\ req.op = "Prepare" => req.transition = {TestTransition}
         /\ req.op = "Emit" => k = 5
         /\ req.op = "Status" <=> k \in {1, 3, 7}
  <1>1. k \in {1, 2, 3, 4, 5, 6, 7} /\ req \in Requests
    BY HostScriptIs
  <1>2. req # Oversized /\ req # Undecodable
    BY <1>1, MalformedAssumption
  <1>3. /\ k \in {1, 3, 7} => req.op = "Status"
        /\ k = 2 => req = TestScript[1] /\ req.op = "Prepare"
        /\ k = 4 => req.op = "Commit"
        /\ k = 5 => req.op = "Emit"
        /\ k = 6 => req.op = "Finalize"
    BY <1>1, HostScriptIs, TestScriptIs
  <1>4. k = 2 => PrepareFields(req) = "Ok" /\ req.transition = {TestTransition}
    <2>1. TestTransition # Malformed /\ TestChallenge # Malformed
      BY MalformedAssumption, SelfTestAssumption
    <2>2. {TestTransition} # {} /\ {TestTransition} # {Malformed}
      BY <2>1
    <2>3. /\ TestScript[1].transition = {TestTransition}
          /\ TestScript[1].receiver_challenge = TestChallenge
      BY TestScriptIs DEF ApplianceRequest
    <2> QED BY <1>3, <2>1, <2>2, <2>3 DEF PrepareFields
  <1> QED BY <1>1, <1>2, <1>3, <1>4

-----------------------------------------------------------------------------
(* What a step of the device does to what is under way.                    *)

Message(tag, response) == [tag |-> tag, response |-> response]
Report == [ok("Status") EXCEPT !.active_root = {root}, !.active_index = u,
             !.status = status]

(* A request goes on, is answered by its operation, or asks for status.    *)
GoesOn(req) ==
  /\ TestRequestSteps(req) /\ reply' = "none"
  /\ serving' = {req} /\ toHost' = toHost
Answers(tag, req) ==
  /\ TestRequestSteps(req) /\ reply' # "none" /\ serving' = {}
  /\ toHost' = toHost \o <<Message(tag, AnswerOf(req.op, reply'))>>
Reports(tag, req) ==
  /\ req.op = "Status" /\ pc = "idle" /\ UNCHANGED vars /\ serving' = {}
  /\ toHost' = toHost \o <<Message(tag, Report)>>

(* The request is the first on its way, or the one being served.           *)
IsNext(tag) ==
  \/ /\ Busy = 0 /\ toDevice # <<>>
     /\ tag = toDevice[1].tag /\ toDevice' = Tail(toDevice)
  \/ Busy = 1 /\ tag = asker /\ toDevice' = toDevice

ServedStep(tag) ==
  /\ tag \in Tags /\ IsNext(tag) /\ asker' = tag
  /\ phase = "serving" /\ phase' = "serving" /\ UNCHANGED scriptVars
  /\ \/ GoesOn(HostScript[tag[2]]) \/ Answers(tag, HostScript[tag[2]])
     \/ Reports(tag, HostScript[tag[2]])

LEMMA Sending ==
  ASSUME PortInv, NEW tag, Sends(tag)
  PROVE  /\ exchange' = {} => toHost' = toHost
         /\ \A frame, a : exchange' = {[frame |-> frame, response |-> a]} =>
              toHost' = toHost \o <<Message(tag, a)>>
  <1>1. exchange' = {} => toHost' = toHost
    <2>1. PICK S : toHost \in Seq(S)
      BY DEF PortInv, IsSeq
    <2> QED BY <2>1 DEF Sends
  <1>2. ASSUME NEW frame, NEW a, exchange' = {[frame |-> frame, response |-> a]}
        PROVE  toHost' = toHost \o <<Message(tag, a)>>
    <2> DEFINE chosen == CHOOSE e \in exchange' : TRUE
    <2>1. exchange' # {} /\ chosen \in exchange'
      BY <1>2
    <2>2. chosen = [frame |-> frame, response |-> a]
      BY <1>2, <2>1
    <2>3. toHost' = toHost \o <<[tag |-> tag, response |-> chosen.response]>>
      BY <2>1 DEF Sends
    <2> HIDE DEF chosen
    <2> QED BY <2>2, <2>3 DEF Message
  <1> QED BY <1>1, <1>2

LEMMA FirstOnItsWay ==
  ASSUME PortInv, toDevice # <<>>
  PROVE  /\ IsSeq(toDevice) /\ Head(toDevice) = toDevice[1]
         /\ toDevice[1].tag \in Tags
         /\ toDevice[1].request = HostScript[toDevice[1].tag[2]]
  <1> DEFINE S == [tag : Tags, request : Requests]
  <1>1. toDevice \in Seq(S)
    BY DEF PortInv
  <1>2. \A r \in S : r.tag \in Tags
    OBVIOUS
  <1> HIDE DEF S
  <1>3. /\ Head(toDevice) = toDevice[1] /\ toDevice[1] \in S
        /\ 1 \in 1..Len(toDevice)
    BY <1>1
  <1>4. IsSeq(toDevice)
    BY <1>1, OfItsElements DEF IsSeq
  <1> QED BY <1>2, <1>3, <1>4 DEF PortInv

LEMMA ServeShape ==
  ASSUME FInv, PortInv, ServesRequest \/ ServesOn
  PROVE  \E tag : ServedStep(tag)
  <1>1. phase = "serving" /\ phase' = "serving" /\ UNCHANGED scriptVars
    BY DEF ServesRequest, ServesOn, Serves
  <1>2. ASSUME NEW tag, NEW req, AfterStep(req), Sends(tag)
        PROVE  \/ reply' = "none" /\ serving' = {req} /\ toHost' = toHost
               \/ /\ reply' # "none" /\ serving' = {}
                  /\ toHost' = toHost \o <<Message(tag, AnswerOf(req.op, reply'))>>
    BY <1>2, Sending DEF AfterStep, Respond
  <1>3. CASE ServesRequest
    <2> DEFINE tag == toDevice[1].tag
               req == HostScript[tag[2]]
    <2>1. /\ toDevice # <<>> /\ tag \in Tags /\ toDevice[1].request = req
          /\ Head(toDevice) = toDevice[1]
      BY <1>3, FirstOnItsWay DEF ServesRequest
    <2>2. /\ handle(req) /\ toDevice' = Tail(toDevice) /\ asker' = tag
          /\ Sends(tag)
      BY <1>3, <2>1 DEF ServesRequest
    <2>3. Busy = 0 /\ pc = "idle"
      BY <2>2 DEF handle, Busy
    <2>4. tag[2] \in 1..Calls
      BY <2>1 DEF Tags
    <2>5. CASE Dispatch(req)
      <3>1. AfterStep(req) /\ TestRequestSteps(req)
        BY <2>3, <2>5 DEF Dispatch, TestRequestSteps
      <3>2. GoesOn(req) \/ Answers(tag, req)
        BY <1>2, <2>2, <3>1 DEF GoesOn, Answers
      <3> QED BY <1>1, <2>1, <2>2, <2>3, <3>2 DEF ServedStep, IsNext
    <2>6. CASE DirectAnswer(req) /\ UNCHANGED vars
      <3>1. req.op = "Status" /\ Respond(req, Report)
        BY <2>4, <2>6, HostRequests DEF DirectAnswer, Report
      <3>2. Reports(tag, req)
        BY <2>2, <2>3, <2>6, <3>1, Sending DEF Respond, Reports
      <3> QED BY <1>1, <2>1, <2>2, <2>3, <3>2 DEF ServedStep, IsNext
    <2> QED BY <2>2, <2>5, <2>6 DEF handle
  <1>4. CASE ServesOn
    <2>1. PICK req \in serving : AfterStep(req)
      BY <1>4 DEF ServesOn, Continuation
    <2>2. Busy = 1
      BY <1>1, <2>1 DEF Busy
    <2>3. asker \in Tags /\ serving = {HostScript[asker[2]]} /\ req = HostScript[asker[2]]
      BY <2>1, <2>2 DEF PortInv
    <2>4. TestRequestSteps(req)
      BY <1>4, <2>3 DEF ServesOn, TestRequestSteps
    <2>5. Sends(asker) /\ toDevice' = toDevice /\ asker' = asker
      BY <1>4 DEF ServesOn
    <2>6. GoesOn(req) \/ Answers(asker, req)
      BY <1>2, <2>1, <2>4, <2>5 DEF GoesOn, Answers
    <2> QED BY <1>1, <2>2, <2>3, <2>5, <2>6 DEF ServedStep, IsNext
  <1> QED BY <1>3, <1>4

LEMMA ServedIsService ==
  ASSUME PortInv, ServesRequest \/ ServesOn
  PROVE  Running
  <1>1. CASE ServesRequest
    <2>1. toDevice[1].tag[2] \in 1..Calls /\ Head(toDevice).request \in Requests
      BY <1>1, FirstOnItsWay, HostScriptIs DEF ServesRequest, Tags
    <2> QED BY <1>1, <2>1 DEF ServesRequest, Serves, ServeForever, Running, Frames
  <1>2. CASE ServesOn
    BY <1>2 DEF ServesOn, Serves, ServeForever, Running
  <1> QED BY <1>1, <1>2

LEMMA BootShape ==
  ASSUME FInv, FInv', Boots
  PROVE  /\ phase # "serving" /\ Busy = 0 /\ Busy' = 0
         /\ UNCHANGED <<script, scripts, since, got, verdict, toDevice, asker>>
         /\ toHost' = toHost \/ toHost' = Append(toHost, Log)
  <1>1. /\ phase # "serving"
        /\ phase' = "serving" => pc' = "idle"
    BY DEF Boots, Firmware, SessionStart, SessionFails, EnrollForTest,
      EnrollForTestFails, SelfTest, EnrollAgain, Recover
  <1>2. Busy = 0
    BY <1>1 DEF Busy
  <1>3. Busy' = 0
    BY <1>1 DEF FInv, ServingInv, Busy
  <1> QED BY <1>1, <1>2, <1>3 DEF Boots, scriptVars

-----------------------------------------------------------------------------
(* What is under way keeps its order, and its number.                      *)

LEMMA LogIsNoAnswer == \A m : IsAnswer(m) => m # Log
  <1>1. Log.tag = <<0, 0>> /\ <<0, 0>>[2] = 0
    BY DEF Log
  <1>2. \A tag \in Tags : tag[2] # 0
    BY HostScriptIs DEF Tags
  <1> QED BY <1>1, <1>2 DEF IsAnswer

LEMMA SentIsAnswer ==
  ASSUME NEW tag, ServedStep(tag)
  PROVE  \/ /\ Busy' = 1 /\ serving' = {HostScript[tag[2]]}
            /\ toHost' = toHost
         \/ /\ Busy' = 0
            /\ \E m : m.tag = tag /\ IsAnswer(m) /\ toHost' = toHost \o <<m>>
  <1> DEFINE req == HostScript[tag[2]]
  <1>0. tag \in Tags /\ phase' = "serving" /\ tag[2] \in 1..Calls
    BY DEF ServedStep, Tags
  <1>1. CASE GoesOn(req)
    BY <1>0, <1>1 DEF GoesOn, Busy
  <1>2. \A a : Message(tag, a).tag = tag /\ Message(tag, a).response = a
    BY DEF Message
  <1>3. CASE Answers(tag, req)
    <2> DEFINE a == AnswerOf(req.op, reply')
    <2>1. a.op = req.op
      BY AnswerFields
    <2>2. a.release # {} => req.op = "Emit"
      BY DEF AnswerOf, ok, fail, base
    <2>3. a.active_index = 0
      BY DEF AnswerOf, ok, fail, base
    <2>4. toHost' = toHost \o <<Message(tag, a)>> /\ Busy' = 0
      BY <1>3 DEF Answers, Busy
    <2> HIDE DEF a
    <2>5. IsAnswer(Message(tag, a))
      BY <1>0, <1>2, <2>1, <2>2, <2>3 DEF IsAnswer
    <2> QED BY <1>2, <2>4, <2>5
  <1>4. CASE Reports(tag, req)
    <2>1. Report.op = "Status" /\ Report.release = {}
      BY DEF Report, ok, base
    <2>2. toHost' = toHost \o <<Message(tag, Report)>> /\ Busy' = 0
          /\ req.op = "Status"
      BY <1>4 DEF Reports, Busy
    <2>3. IsAnswer(Message(tag, Report))
      BY <1>0, <1>2, <2>1, <2>2 DEF IsAnswer
    <2> QED BY <1>2, <2>2, <2>3
  <1> QED BY <1>1, <1>3, <1>4 DEF ServedStep

LEMMA Lengths ==
  PortInv => /\ Len(toHost) \in Nat /\ Len(toDevice) \in Nat /\ Len(got) \in Nat
             /\ Busy \in {0, 1} /\ IsSeq(toDevice)
             /\ toDevice \in Seq([tag : Tags, request : Requests])
  <1> SUFFICES ASSUME PortInv
               PROVE  /\ Len(toHost) \in Nat /\ Len(toDevice) \in Nat
                      /\ Len(got) \in Nat /\ Busy \in {0, 1}
                      /\ IsSeq(toDevice)
                      /\ toDevice \in Seq([tag : Tags, request : Requests])
    OBVIOUS
  <1>1. toDevice \in Seq([tag : Tags, request : Requests])
    BY DEF PortInv
  <1>2. IsSeq(toDevice)
    BY <1>1, OfItsElements DEF IsSeq
  <1> QED BY <1>1, <1>2, LenOfSeq DEF PortInv, Busy

(* One request moves on: its place is taken by its answer.                 *)
LEMMA Moves ==
  ASSUME PortInv, NEW tag, ServedStep(tag)
  PROVE  /\ Len(toHost) \in Nat /\ Len(toDevice) \in Nat
         /\ Len(toHost') \in Nat /\ Len(toDevice') \in Nat
         /\ Busy \in {0, 1} /\ Busy' \in {0, 1} /\ IsSeq(toHost')
         /\ Busy' = 1 => /\ Len(toHost') = Len(toHost)
                         /\ serving' = {HostScript[tag[2]]}
         /\ Busy' = 0 => Len(toHost') = Len(toHost) + 1
         /\ \A j \in 1..Len(toHost) : toHost'[j] = toHost[j]
         /\ \A j \in Len(toHost) + 1..Len(toHost') :
              toHost'[j].tag = tag /\ IsAnswer(toHost'[j])
         /\ Busy = 0 => /\ Len(toDevice') = Len(toDevice) - 1 /\ Len(toDevice) >= 1
                        /\ tag = toDevice[1].tag
         /\ Busy = 1 => Len(toDevice') = Len(toDevice) /\ tag = asker
         /\ \A j \in 1..Len(toDevice') :
              toDevice'[j] = toDevice[j + (Len(toDevice) - Len(toDevice'))]
  <1>1. /\ Len(toHost) \in Nat /\ Len(toDevice) \in Nat /\ Busy \in {0, 1}
        /\ IsSeq(toDevice) /\ IsSeq(toHost)
    BY Lengths DEF PortInv
  <1>2. /\ Len(toHost') \in Nat /\ Busy' \in {0, 1} /\ IsSeq(toHost')
        /\ Busy' = 1 => Len(toHost') = Len(toHost) /\ serving' = {HostScript[tag[2]]}
        /\ Busy' = 0 => Len(toHost') = Len(toHost) + 1
        /\ \A j \in 1..Len(toHost) : toHost'[j] = toHost[j]
        /\ \A j \in Len(toHost) + 1..Len(toHost') :
             toHost'[j].tag = tag /\ IsAnswer(toHost'[j])
    <2>1. CASE /\ Busy' = 1 /\ serving' = {HostScript[tag[2]]}
               /\ toHost' = toHost
      BY <1>1, <2>1
    <2>2. ASSUME NEW m, Busy' = 0, m.tag = tag, IsAnswer(m), toHost' = toHost \o <<m>>
          PROVE  /\ Len(toHost') = Len(toHost) + 1 /\ IsSeq(toHost')
                 /\ \A j \in 1..Len(toHost) : toHost'[j] = toHost[j]
                 /\ \A j \in Len(toHost) + 1..Len(toHost') :
                      toHost'[j].tag = tag /\ IsAnswer(toHost'[j])
      <3>1. /\ Len(toHost') = Len(toHost) + 1 /\ IsSeq(toHost')
            /\ \A j \in 1..Len(toHost) : toHost'[j] = toHost[j]
            /\ toHost'[Len(toHost) + 1] = m
        BY <1>1, <2>2, Longer
      <3>2. \A j \in Len(toHost) + 1..Len(toHost') : j = Len(toHost) + 1
        BY <1>1, <3>1
      <3> QED BY <2>2, <3>1, <3>2
    <2>3. CASE Busy' = 0
      <3>0. ~(Busy' = 1)
        BY <2>3
      <3>1. PICK m : m.tag = tag /\ IsAnswer(m) /\ toHost' = toHost \o <<m>>
        BY <3>0, SentIsAnswer, Zenon
      <3>2. /\ Len(toHost') = Len(toHost) + 1 /\ IsSeq(toHost')
            /\ \A j \in 1..Len(toHost) : toHost'[j] = toHost[j]
            /\ \A j \in Len(toHost) + 1..Len(toHost') :
                 toHost'[j].tag = tag /\ IsAnswer(toHost'[j])
        BY <2>2, <2>3, <3>1
      <3> QED BY <1>1, <2>3, <3>2
    <2> QED BY <2>1, <2>3, SentIsAnswer
  <1>3. CASE Busy = 0
    <2>1. toDevice # <<>> /\ tag = toDevice[1].tag /\ toDevice' = Tail(toDevice)
      BY <1>3 DEF ServedStep, IsNext
    <2>2. /\ Len(toDevice') = Len(toDevice) - 1 /\ Len(toDevice) >= 1
          /\ \A j \in 1..Len(toDevice) - 1 : toDevice'[j] = toDevice[j + 1]
      BY <1>1, <2>1, Shorter
    <2>3. Len(toDevice) - Len(toDevice') = 1 /\ Len(toDevice') \in Nat
      BY <1>1, <2>2
    <2> QED BY <1>1, <1>2, <1>3, <2>1, <2>2, <2>3
  <1>4. CASE Busy = 1
    <2>1. toDevice' = toDevice /\ tag = asker
      BY <1>4 DEF ServedStep, IsNext
    <2>2. \A j \in 1..Len(toDevice) : j + (Len(toDevice) - Len(toDevice)) = j
      BY <1>1
    <2> QED BY <1>1, <1>2, <1>4, <2>1, <2>2
  <1> QED BY <1>1, <1>3, <1>4

LEMMA MovesCount ==
  ASSUME PortInv, NEW tag, ServedStep(tag)
  PROVE  Len(toHost') + Busy' + Len(toDevice') = Len(toHost) + Busy + Len(toDevice)
  <1>1. /\ Len(toHost) \in Nat /\ Len(toDevice) \in Nat
        /\ Len(toHost') \in Nat /\ Len(toDevice') \in Nat
        /\ Busy \in {0, 1} /\ Busy' \in {0, 1}
        /\ Busy' = 1 => Len(toHost') = Len(toHost)
        /\ Busy' = 0 => Len(toHost') = Len(toHost) + 1
        /\ Busy = 0 => Len(toDevice') = Len(toDevice) - 1
        /\ Busy = 1 => Len(toDevice') = Len(toDevice)
    BY Moves
  <1> QED BY <1>1

(* What is sent goes to the end of what is on its way.                     *)
LEMMA AskShape ==
  ASSUME ScriptInv, PortInv, Ask
  PROVE  /\ Len(toDevice') = Len(toDevice) + 1
         /\ \A j \in 1..Len(toDevice) : toDevice'[j] = toDevice[j]
         /\ toDevice'[Len(toDevice) + 1].tag = <<scripts, Len(got) + 1>>
         /\ toDevice' \in Seq([tag : Tags, request : Requests])
         /\ \A j \in 1..Len(toDevice') :
              toDevice'[j].request = HostScript[toDevice'[j].tag[2]]
  <1> DEFINE S == [tag : Tags, request : Requests]
             sent == [tag |-> <<scripts, Len(got) + 1>>,
                      request |-> HostScript[Len(got) + 1]]
  <1>1. toDevice \in Seq(S) /\ toDevice' = Append(toDevice, sent)
    BY DEF PortInv, Ask
  <1>2. Len(got) + 1 \in 1..7 /\ scripts \in Nat
    BY Lengths, HostScriptIs, MaxScriptsAssumption DEF Ask, ScriptInv
  <1>3. /\ sent \in S /\ sent.tag = <<scripts, Len(got) + 1>>
        /\ sent.request = HostScript[sent.tag[2]]
    BY <1>2, HostScriptIs DEF Tags
  <1> HIDE DEF S, sent
  <1>4. /\ Len(toDevice') = Len(toDevice) + 1 /\ Len(toDevice) \in Nat
        /\ \A j \in 1..Len(toDevice) : toDevice'[j] = toDevice[j]
        /\ toDevice'[Len(toDevice) + 1] = sent /\ toDevice' \in Seq(S)
    BY <1>1, <1>3
  <1>5. ASSUME NEW j \in 1..Len(toDevice')
        PROVE  toDevice'[j].request = HostScript[toDevice'[j].tag[2]]
    <2>1. CASE j = Len(toDevice) + 1
      BY <1>3, <1>4, <2>1
    <2>2. CASE j # Len(toDevice) + 1
      <3>1. j \in 1..Len(toDevice)
        BY <1>4, <2>2
      <3> QED BY <1>4, <3>1 DEF PortInv
    <2> QED BY <2>1, <2>2
  <1> QED BY <1>3, <1>4, <1>5 DEF S

LEMMA OneMoreGot ==
  ASSUME IsSeq(got), NEW e, got' = Append(got, e)
  PROVE  /\ IsSeq(got') /\ Len(got') = Len(got) + 1
         /\ got'[Len(got) + 1] = e
         /\ \A i \in 1..Len(got) : got'[i] = got[i]
  <1>1. PICK S : got \in Seq(S)
    BY DEF IsSeq
  <1>2. /\ Len(got') = Len(got) + 1 /\ got'[Len(got) + 1] = e
        /\ \A i \in 1..Len(got) : got'[i] = got[i]
        /\ got' \in Seq(S \cup {e})
    BY <1>1
  <1> QED BY <1>2, OfItsElements DEF IsSeq

LEMMA OneMoreLine ==
  ASSUME IsSeq(toHost), toHost' = Append(toHost, Log)
  PROVE  IsSeq(toHost')
  <1>1. PICK S : toHost \in Seq(S)
    BY DEF IsSeq
  <1>2. toHost' \in Seq(S \cup {Log})
    BY <1>1
  <1> QED BY <1>2, OfItsElements DEF IsSeq

(* An answer that is read comes after the log.                             *)
LEMMA AnsweredShape ==
  ASSUME PortInv, BacklogInv, Answered
  PROVE  /\ IsAnswer(toHost[1]) /\ Head(toHost) = toHost[1] /\ phase = "serving"
         /\ \A j \in 1..Len(toHost) : IsAnswer(toHost[j])
         /\ Len(toHost) >= 1 /\ Len(toHost') = Len(toHost) - 1 /\ IsSeq(toHost')
         /\ \A j \in 1..Len(toHost') : toHost'[j] = toHost[j + 1]
         /\ IsSeq(got') /\ Len(got') = Len(got) + 1
         /\ got'[Len(got) + 1] = toHost[1]
         /\ \A i \in 1..Len(got) : got'[i] = got[i]
  <1>1. /\ IsSeq(toHost') /\ Len(toHost) \in Nat /\ Len(toHost) >= 1
        /\ Len(toHost') = Len(toHost) - 1 /\ Head(toHost) = toHost[1]
        /\ \A j \in 1..Len(toHost') : toHost'[j] = toHost[j + 1]
    <2>1. IsSeq(toHost) /\ toHost # <<>> /\ toHost' = Tail(toHost)
      BY DEF PortInv, Answered
    <2> QED BY <2>1, Shorter
  <1>2. PICK m \in 0..Len(toHost) : IsLogs(m)
    BY DEF BacklogInv
  <1>3. m = 0
    <2>1. \A j \in 1..m : toHost[j] = Log
      BY <1>2 DEF IsLogs
    <2>2. toHost[1] # Log
      BY <1>1 DEF Answered
    <2>3. ~(1 \in 1..m)
      BY <2>1, <2>2
    <2> QED BY <1>1, <2>3
  <1>4. \A j \in 1..Len(toHost) : IsAnswer(toHost[j])
    BY <1>2, <1>3 DEF IsLogs
  <1>5. phase = "serving"
    BY <1>1, <1>2, <1>3 DEF IsLogs
  <1>6. IsAnswer(toHost[1])
    BY <1>1, <1>4
  <1>7. /\ IsSeq(got') /\ Len(got') = Len(got) + 1
        /\ got'[Len(got) + 1] = toHost[1]
        /\ \A i \in 1..Len(got) : got'[i] = got[i]
    <2>1. IsSeq(got) /\ got' = Append(got, Head(toHost))
      BY DEF PortInv, Answered
    <2>2. /\ IsSeq(got') /\ Len(got') = Len(got) + 1
          /\ got'[Len(got) + 1] = Head(toHost)
          /\ \A i \in 1..Len(got) : got'[i] = got[i]
      BY <2>1, OneMoreGot
    <2> QED BY <1>1, <2>2
  <1> QED BY <1>1, <1>4, <1>5, <1>6, <1>7

LEMMA DeviceSame ==
  ASSUME UNCHANGED deviceVars
  PROVE  /\ Busy' = Busy /\ UNCHANGED <<phase, serving, wasted, pc>>
         /\ UNCHANGED vars
  BY DEF deviceVars, firmwareVars, servedVars, serviceVars, vars, volatile,
    history, Busy

LEMMA BacklogKept ==
  ASSUME FInv, FInv', ScriptInv, PortInv, BacklogInv, [HostNext]_benchVars
  PROVE  BacklogInv'
  <1>0. /\ Len(toHost) \in Nat /\ Len(toDevice) \in Nat /\ Len(got) \in Nat
        /\ Busy \in {0, 1} /\ since \in Nat
    BY Lengths, MaxScriptsAssumption DEF ScriptInv
  <1>1. PICK m \in 0..Len(toHost) : IsLogs(m)
    BY DEF BacklogInv
  <1> SUFFICES \E k \in 0..Len(toHost') : IsLogs(k)'
    BY DEF BacklogInv
  <1>2. CASE OpenPort
    <2>1. /\ UNCHANGED <<toHost, toDevice, asker>> /\ since' = since + 1
          /\ got' = <<>> /\ script = "closed" /\ script' = "quiet"
          /\ Busy' = Busy /\ phase' = phase
      BY <1>2, DeviceSame DEF OpenPort, portVars
    <2>2. IsLogs(m)'
      BY <1>0, <1>1, <2>1, NothingIsSeq DEF IsLogs, Pending, Talking
    <2> QED BY <2>1, <2>2
  <1>3. CASE Drain
    <2>1. /\ UNCHANGED <<toDevice, asker, script, since, got>>
          /\ toHost' = Tail(toHost) /\ toHost # <<>>
          /\ Busy' = Busy /\ phase' = phase /\ script = "quiet"
      BY <1>3, DeviceSame DEF Drain, scriptVars
    <2>2. /\ Len(toHost) >= 1 /\ Len(toHost') = Len(toHost) - 1
          /\ \A j \in 1..Len(toHost) - 1 : toHost'[j] = toHost[j + 1]
      BY <2>1, Shorter DEF PortInv
    <2>3. CASE m = 0
      <3>1. IsLogs(0)'
        BY <1>0, <1>1, <2>1, <2>2, <2>3 DEF IsLogs, Pending, Talking
      <3> QED BY <1>0, <2>2, <3>1
    <2>4. CASE m > 0
      <3>1. PICK k : k = m - 1
        OBVIOUS
      <3>2. IsLogs(k)'
        <4>1. \A j \in 1..k : toHost'[j] = Log
          <5> SUFFICES ASSUME NEW j \in 1..k PROVE toHost'[j] = Log
            OBVIOUS
          <5>1. j \in 1..Len(toHost) - 1 /\ j + 1 \in 1..m
            BY <1>0, <1>1, <2>4, <3>1
          <5> QED BY <1>1, <2>2, <5>1 DEF IsLogs
        <4>2. \A j \in k + 1..Len(toHost') : IsAnswer(toHost'[j])
          <5> SUFFICES ASSUME NEW j \in k + 1..Len(toHost') PROVE IsAnswer(toHost'[j])
            OBVIOUS
          <5>1. j \in 1..Len(toHost) - 1 /\ j + 1 \in m + 1..Len(toHost)
            BY <1>0, <1>1, <2>2, <2>4, <3>1
          <5> QED BY <1>1, <2>2, <5>1 DEF IsLogs
        <4>3. Pending(k)' = Pending(m)
          BY <1>0, <1>1, <2>1, <2>2, <3>1 DEF Pending
        <4> QED BY <1>0, <1>1, <2>1, <2>2, <3>1, <4>1, <4>2, <4>3
              DEF IsLogs, Talking
      <3> QED BY <1>0, <1>1, <2>2, <2>4, <3>1, <3>2
    <2> QED BY <1>1, <2>3, <2>4
  <1>4. CASE Quiet
    <2>1. /\ UNCHANGED <<toDevice, toHost, asker, since, got>>
          /\ toHost = <<>> /\ script = "quiet" /\ script' = "ask"
          /\ Busy' = Busy /\ phase' = phase /\ got = <<>>
      BY <1>4, DeviceSame DEF Quiet, portVars, ScriptInv
    <2>2. IsLogs(m)'
      BY <1>0, <1>1, <2>1, NothingIsSeq DEF IsLogs, Pending, Talking
    <2> QED BY <2>1, <2>2
  <1>5. CASE Ask
    <2>1. /\ UNCHANGED <<toHost, asker, since, got>>
          /\ script = "ask" /\ script' = "wait" /\ Busy' = Busy /\ phase' = phase
      BY <1>5, DeviceSame DEF Ask
    <2>2. Len(toDevice') = Len(toDevice) + 1
      BY <1>5, AskShape
    <2>3. IsLogs(m)'
      BY <1>0, <1>1, <2>1, <2>2 DEF IsLogs, Pending, Talking
    <2> QED BY <2>1, <2>3
  <1>6. CASE Answered
    <2>1. /\ UNCHANGED <<toDevice, asker, since>>
          /\ script = "wait" /\ script' = "ask" /\ Busy' = Busy /\ phase' = phase
      BY <1>6, DeviceSame DEF Answered
    <2>2. /\ phase = "serving" /\ Len(toHost) >= 1
          /\ \A j \in 1..Len(toHost) : IsAnswer(toHost[j])
          /\ Len(toHost') = Len(toHost) - 1
          /\ \A j \in 1..Len(toHost') : toHost'[j] = toHost[j + 1]
      BY <1>6, AnsweredShape
    <2>3. m = 0
      BY <1>0, <1>1, <2>2, LogIsNoAnswer DEF IsLogs
    <2>4. IsLogs(0)'
      BY <1>0, <1>1, <2>1, <2>2, <2>3 DEF IsLogs, Pending, Talking
    <2> QED BY <1>0, <2>2, <2>4
  <1>7. CASE ReadsLog
    <2>1. /\ UNCHANGED <<toDevice, asker, since>>
          /\ script = "wait" /\ script' = "closed" /\ Busy' = Busy /\ phase' = phase
      BY <1>7, DeviceSame DEF ReadsLog
    <2>2. PICK n \in 1..Len(toHost) : toHost' = SubSeq(toHost, n + 1, Len(toHost))
      BY <1>7 DEF ReadsLog
    <2>3. /\ Len(toHost') = Len(toHost) - n
          /\ \A j \in 1..Len(toHost) - n : toHost'[j] = toHost[j + n]
      BY <2>2, Remaining DEF PortInv
    <2>4. PICK k : k = IF n <= m THEN m - n ELSE 0
      OBVIOUS
    <2>5. IsLogs(k)'
      <3>1. \A j \in 1..k : toHost'[j] = Log
        <4> SUFFICES ASSUME NEW j \in 1..k PROVE toHost'[j] = Log
          OBVIOUS
        <4>1. j \in 1..Len(toHost) - n /\ j + n \in 1..m
          BY <1>0, <1>1, <2>2, <2>4
        <4> QED BY <1>1, <2>3, <4>1 DEF IsLogs
      <3>2. \A j \in k + 1..Len(toHost') : IsAnswer(toHost'[j])
        <4> SUFFICES ASSUME NEW j \in k + 1..Len(toHost') PROVE IsAnswer(toHost'[j])
          OBVIOUS
        <4>1. j \in 1..Len(toHost) - n /\ j + n \in m + 1..Len(toHost)
          BY <1>0, <1>1, <2>2, <2>3, <2>4
        <4> QED BY <1>1, <2>3, <4>1 DEF IsLogs
      <3>3. Pending(k)' <= Pending(m) /\ Pending(m) <= since
        BY <1>0, <1>1, <2>1, <2>2, <2>3, <2>4 DEF Pending, IsLogs
      <3>4. Pending(k)' \in Nat /\ Pending(m) \in Nat
        <4>1. k \in 0..Len(toHost') /\ Len(toHost') \in Nat
          BY <1>0, <1>1, <2>2, <2>3, <2>4
        <4>2. Len(toDevice') \in Nat /\ Busy' \in Nat
          BY <1>0, <2>1
        <4> QED BY <1>0, <1>1, <4>1, <4>2 DEF Pending
      <3>5. phase' # "serving" => k = Len(toHost')
        BY <1>0, <1>1, <2>1, <2>2, <2>3, <2>4 DEF IsLogs
      <3> QED BY <1>0, <2>1, <3>1, <3>2, <3>3, <3>4, <3>5 DEF IsLogs, Talking
    <2> QED BY <1>0, <1>1, <2>3, <2>4, <2>5
  <1>8. CASE GivesUp \/ Finish
    <2>1. /\ UNCHANGED <<toDevice, toHost, asker, since>>
          /\ script' = "closed" /\ Busy' = Busy /\ phase' = phase
      BY <1>8, DeviceSame DEF GivesUp, Finish, portVars
    <2>2. IsLogs(m)'
      BY <1>0, <1>1, <2>1 DEF IsLogs, Pending, Talking
    <2> QED BY <2>1, <2>2
  <1>9. CASE Boots
    <2>1. /\ phase # "serving" /\ Busy = 0 /\ Busy' = 0
          /\ UNCHANGED <<script, since, got, toDevice>>
          /\ toHost' = toHost \/ toHost' = Append(toHost, Log)
      BY <1>9, BootShape
    <2>2. m = Len(toHost) /\ \A j \in 1..Len(toHost) : toHost[j] = Log
      BY <1>0, <1>1, <2>1 DEF IsLogs
    <2>3. /\ Len(toHost') \in Nat
          /\ \A j \in 1..Len(toHost') : toHost'[j] = Log
      <3>1. CASE toHost' = toHost
        BY <1>0, <2>2, <3>1
      <3>2. CASE toHost' = Append(toHost, Log)
        <4>1. /\ Len(toHost') = Len(toHost) + 1 /\ toHost'[Len(toHost) + 1] = Log
              /\ \A j \in 1..Len(toHost) : toHost'[j] = toHost[j]
          BY <3>2, Longer DEF PortInv
        <4> QED BY <1>0, <2>2, <4>1
      <3> QED BY <2>1, <3>1, <3>2
    <2>4. PICK k : k = Len(toHost')
      OBVIOUS
    <2>5. (Talking' /\ Len(got') > 0) => k = 0
      BY <1>0, <2>1 DEF ScriptInv, Talking
    <2>6. IsLogs(k)'
      BY <1>0, <1>1, <2>1, <2>2, <2>3, <2>4, <2>5 DEF IsLogs, Pending
    <2> QED BY <2>3, <2>4, <2>6
  <1>10. CASE ServesRequest \/ ServesOn
    <2>1. PICK tag : ServedStep(tag)
      BY <1>10, ServeShape
    <2>2. /\ UNCHANGED <<script, since, got>> /\ phase = "serving" /\ phase' = "serving"
      BY <2>1 DEF ServedStep, scriptVars
    <2>3. IsLogs(m)' /\ m \in 0..Len(toHost')
      <3>1. /\ \A j \in 1..m : toHost'[j] = Log
            /\ \A j \in m + 1..Len(toHost') : IsAnswer(toHost'[j])
            /\ m \in 0..Len(toHost')
        <4>1. /\ \A j \in 1..m : toHost[j] = Log
              /\ \A j \in m + 1..Len(toHost) : IsAnswer(toHost[j])
          BY <1>1 DEF IsLogs
        <4>2. /\ Len(toHost') \in Nat /\ Len(toHost') >= Len(toHost)
              /\ \A j \in 1..Len(toHost) : toHost'[j] = toHost[j]
              /\ \A j \in Len(toHost) + 1..Len(toHost') : IsAnswer(toHost'[j])
          BY <1>0, <2>1, Moves
        <4>3. ASSUME NEW j \in m + 1..Len(toHost') PROVE IsAnswer(toHost'[j])
          <5>1. j \in m + 1..Len(toHost) \/ j \in Len(toHost) + 1..Len(toHost')
            BY <1>0, <1>1, <4>2
          <5>2. j \in 1..Len(toHost) \/ j \in Len(toHost) + 1..Len(toHost')
            BY <1>0, <1>1, <5>1
          <5> QED BY <4>1, <4>2, <5>1, <5>2
        <4>4. ASSUME NEW j \in 1..m PROVE toHost'[j] = Log
          <5>1. j \in 1..Len(toHost)
            BY <1>0, <1>1
          <5> QED BY <4>1, <4>2, <5>1
        <4> QED BY <1>0, <1>1, <4>2, <4>3, <4>4
      <3>2. Pending(m)' = Pending(m)
        <4>1. Len(toHost') + Busy' + Len(toDevice') = Len(toHost) + Busy + Len(toDevice)
          BY <2>1, MovesCount
        <4>2. Len(toHost') \in Nat /\ Len(toDevice') \in Nat /\ Busy' \in {0, 1}
          BY <2>1, Moves
        <4> QED BY <1>0, <1>1, <4>1, <4>2 DEF Pending
      <3> QED BY <1>0, <1>1, <2>2, <3>1, <3>2 DEF IsLogs, Talking
    <2> QED BY <2>3
  <1>11. CASE PowerCut
    <2>1. toHost' = <<>> /\ toDevice' = <<>> /\ since' = 0 /\ script' \in {"closed", "cut"}
          /\ Busy' = 0 /\ Len(toHost') = 0 /\ Len(toDevice') = 0
      BY <1>11, NothingIsSeq DEF PowerCut, PowerCycle, Busy
    <2>2. IsLogs(0)'
      BY <2>1 DEF IsLogs, Pending, Talking
    <2> QED BY <2>1, <2>2
  <1>12. CASE UNCHANGED benchVars
    <2>1. UNCHANGED <<script, since, got, toHost, toDevice, phase>> /\ Busy' = Busy
      BY <1>12, DeviceSame DEF benchVars, hostVars, scriptVars, portVars
    <2>2. IsLogs(m)'
      BY <1>1, <2>1 DEF IsLogs, Pending, Talking
    <2> QED BY <2>1, <2>2
  <1> QED BY <1>2, <1>3, <1>4, <1>5, <1>6, <1>7, <1>8, <1>9, <1>10, <1>11,
        <1>12 DEF HostNext, Script

LEMMA PortKept ==
  ASSUME FInv, FInv', ScriptInv, PortInv, BacklogInv, [HostNext]_benchVars
  PROVE  PortInv'
  <1> DEFINE S == [tag : Tags, request : Requests]
             Own2 == \A j \in 1..Len(toDevice) :
                       toDevice[j].request = HostScript[toDevice[j].tag[2]]
             Doing == Busy = 1 => asker \in Tags /\ serving = {HostScript[asker[2]]}
             Good == \A i \in 1..Len(got) : IsAnswer(got[i])
  <1>0. /\ IsSeq(got) /\ IsSeq(toHost) /\ toDevice \in Seq(S)
        /\ Own2 /\ Doing /\ Good
    BY DEF PortInv
  <1> SUFFICES /\ IsSeq(got') /\ IsSeq(toHost') /\ toDevice' \in Seq(S)
               /\ Own2' /\ Doing' /\ Good'
    BY DEF PortInv
  <1>1. toDevice' = toDevice => Own2'
    BY <1>0
  <1>2. UNCHANGED <<asker, Busy, serving>> => Doing'
    BY <1>0
  <1>3. got' = got \/ got' = <<>> => IsSeq(got') /\ Good'
    <2>1. CASE got' = got
      BY <1>0, <2>1
    <2>2. CASE got' = <<>>
      BY <2>2, NothingIsSeq
    <2> QED BY <2>1, <2>2
  <1>4. CASE OpenPort \/ Quiet \/ GivesUp \/ Finish
    <2>1. /\ UNCHANGED <<toHost, toDevice, asker, Busy, serving>>
          /\ got' = got \/ got' = <<>>
      BY <1>4, DeviceSame DEF OpenPort, Quiet, GivesUp, Finish, portVars
    <2> HIDE DEF S, Own2, Doing, Good
    <2> QED BY <1>0, <1>1, <1>2, <1>3, <2>1
  <1>5. CASE Drain
    <2>1. /\ UNCHANGED <<toDevice, asker, Busy, serving, got>>
          /\ toHost # <<>> /\ toHost' = Tail(toHost)
      BY <1>5, DeviceSame DEF Drain, scriptVars
    <2>2. IsSeq(toHost')
      BY <1>0, <2>1, Shorter
    <2> HIDE DEF S, Own2, Doing, Good
    <2> QED BY <1>0, <1>1, <1>2, <1>3, <2>1, <2>2
  <1>6. CASE Ask
    <2>1. UNCHANGED <<toHost, asker, Busy, serving, got>>
      BY <1>6, DeviceSame DEF Ask
    <2>2. toDevice' \in Seq(S) /\ Own2'
      BY <1>6, AskShape
    <2> HIDE DEF S, Own2, Doing, Good
    <2> QED BY <1>0, <1>2, <1>3, <2>1, <2>2
  <1>7. CASE Answered
    <2>1. UNCHANGED <<toDevice, asker, Busy, serving>>
      BY <1>7, DeviceSame DEF Answered
    <2>2. /\ IsAnswer(toHost[1]) /\ IsSeq(toHost')
          /\ IsSeq(got') /\ Len(got') = Len(got) + 1
          /\ got'[Len(got) + 1] = toHost[1]
          /\ \A i \in 1..Len(got) : got'[i] = got[i]
      BY <1>7, AnsweredShape
    <2>3. Good'
      <3>1. Len(got) \in Nat
        BY Lengths
      <3> SUFFICES ASSUME NEW i \in 1..Len(got') PROVE IsAnswer(got'[i])
        OBVIOUS
      <3>2. i = Len(got) + 1 \/ i \in 1..Len(got)
        BY <2>2, <3>1
      <3> QED BY <1>0, <2>2, <3>2
    <2> HIDE DEF S, Own2, Doing, Good
    <2> QED BY <1>0, <1>1, <1>2, <2>1, <2>2, <2>3
  <1>8. CASE ReadsLog
    <2>1. UNCHANGED <<toDevice, asker, Busy, serving>> /\ got' = <<>>
      BY <1>8, DeviceSame DEF ReadsLog
    <2>2. PICK n \in 1..Len(toHost) : toHost' = SubSeq(toHost, n + 1, Len(toHost))
      BY <1>8 DEF ReadsLog
    <2>3. IsSeq(toHost')
      BY <1>0, <2>2, Remaining
    <2> HIDE DEF S, Own2, Doing, Good
    <2> QED BY <1>0, <1>1, <1>2, <1>3, <2>1, <2>3
  <1>9. CASE Boots
    <2>1. /\ Busy' = 0 /\ UNCHANGED <<got, toDevice>>
          /\ toHost' = toHost \/ toHost' = Append(toHost, Log)
      BY <1>9, BootShape
    <2>2. IsSeq(toHost')
      BY <1>0, <2>1, OneMoreLine
    <2> HIDE DEF S, Own2, Good
    <2> QED BY <1>0, <1>1, <1>3, <2>1, <2>2
  <1>10. CASE ServesRequest \/ ServesOn
    <2>1. PICK tag : ServedStep(tag)
      BY <1>10, ServeShape
    <2>2. got' = got /\ asker' = tag /\ tag \in Tags
          /\ (toDevice' = toDevice \/ (toDevice # <<>> /\ toDevice' = Tail(toDevice)))
      BY <2>1 DEF ServedStep, scriptVars, IsNext
    <2>3. Doing' /\ IsSeq(toHost')
      BY <2>1, <2>2, Moves
    <2>4. toDevice' \in Seq(S) /\ Own2'
      <3>1. CASE toDevice' = toDevice
        BY <1>0, <1>1, <3>1
      <3>2. CASE toDevice # <<>> /\ toDevice' = Tail(toDevice)
        <4>1. /\ Len(toDevice') = Len(toDevice) - 1 /\ Len(toDevice) \in Nat
              /\ \A j \in 1..Len(toDevice) - 1 : toDevice'[j] = toDevice[j + 1]
          BY <3>2, Shorter, Lengths
        <4>2. Own2'
          <5> SUFFICES ASSUME NEW j \in 1..Len(toDevice')
                       PROVE  toDevice'[j].request = HostScript[toDevice'[j].tag[2]]
            OBVIOUS
          <5>1. j \in 1..Len(toDevice) - 1 /\ j + 1 \in 1..Len(toDevice)
            BY <4>1
          <5> QED BY <1>0, <4>1, <5>1
        <4> HIDE DEF S, Own2
        <4>3. toDevice' \in Seq(S)
          BY <1>0, <3>2
        <4> QED BY <4>2, <4>3
      <3> QED BY <2>2, <3>1, <3>2
    <2> HIDE DEF S, Own2, Doing, Good
    <2> QED BY <1>3, <2>2, <2>3, <2>4
  <1>11. CASE PowerCut
    <2>1. toHost' = <<>> /\ toDevice' = <<>> /\ got' = got /\ Busy' = 0
      BY <1>11 DEF PowerCut, PowerCycle, Busy
    <2>2. toDevice' \in Seq(S) /\ Own2'
      BY <2>1, NothingIsSeq
    <2> HIDE DEF S, Own2, Good
    <2> QED BY <1>3, <2>1, <2>2, NothingIsSeq
  <1>12. CASE UNCHANGED benchVars
    <2>1. UNCHANGED <<toHost, toDevice, asker, Busy, serving, got>>
      BY <1>12, DeviceSame DEF benchVars, hostVars, scriptVars, portVars
    <2> HIDE DEF S, Own2, Doing, Good
    <2> QED BY <1>0, <1>1, <1>2, <1>3, <2>1
  <1> QED BY <1>4, <1>5, <1>6, <1>7, <1>8, <1>9, <1>10, <1>11, <1>12
        DEF HostNext, Script

-----------------------------------------------------------------------------
(* The script.                                                             *)

LEMMA PassesSame == got' = got => (HostPasses' <=> HostPasses)
  BY DEF HostPasses

LEMMA ScriptKept ==
  ASSUME FInv, FInv', ScriptInv, PortInv, BacklogInv, [HostNext]_benchVars
  PROVE  ScriptInv'
  <1>0. /\ Len(got) \in Nat /\ scripts \in Nat /\ since \in Nat /\ MaxScripts \in Nat
    BY Lengths, MaxScriptsAssumption DEF ScriptInv
  <1>1. CASE OpenPort
    BY <1>0, <1>1, NothingIsSeq, HostScriptIs DEF OpenPort, ScriptInv
  <1>2. CASE Drain \/ Quiet \/ Ask
    <2>1. /\ UNCHANGED <<scripts, since, got, verdict, phase>> /\ script # "closed"
          /\ \/ UNCHANGED script
             \/ script' = "ask"
             \/ script = "ask" /\ script' = "wait" /\ Len(got) < Calls
      BY <1>2, DeviceSame DEF Drain, Quiet, Ask, scriptVars
    <2>2. script \in {"quiet", "ask"}
      BY <1>2 DEF Drain, Quiet, Ask
    <2>3. script' \in {"quiet", "ask", "wait"} /\ verdict' = "none"
      BY <2>1, <2>2 DEF ScriptInv
    <2>4. /\ script' = "quiet" => got' = <<>>
          /\ script' = "wait" => Len(got') < Calls
      BY <2>1, <2>2 DEF ScriptInv
    <2> QED BY <1>0, <2>1, <2>2, <2>3, <2>4 DEF ScriptInv
  <1>3. CASE Answered
    <2>1. /\ phase = "serving" /\ phase' = phase /\ Len(got') = Len(got) + 1
          /\ UNCHANGED <<scripts, since, verdict>>
          /\ script = "wait" /\ script' = "ask"
      BY <1>3, AnsweredShape, DeviceSame DEF Answered
    <2> QED BY <1>0, <2>1, HostScriptIs DEF ScriptInv
  <1>4. CASE ReadsLog \/ GivesUp
    <2>1. /\ UNCHANGED <<scripts, since, verdict>> /\ got' = <<>>
          /\ script \in {"wait", "cut"} /\ script' = "closed"
      BY <1>4 DEF ReadsLog, GivesUp
    <2> QED BY <1>0, <2>1, NothingIsSeq, HostScriptIs DEF ScriptInv
  <1>5. CASE Finish
    <2>1. /\ UNCHANGED <<scripts, since, got, phase>> /\ script' = "closed"
          /\ Len(got) = Calls /\ verdict' = IF HostPasses THEN "PASS" ELSE "FAIL"
      BY <1>5, DeviceSame DEF Finish
    <2> QED BY <1>0, <2>1, PassesSame DEF ScriptInv
  <1>6. CASE Boots
    <2>1. phase # "serving" /\ UNCHANGED <<script, scripts, since, got, verdict>>
      BY <1>6, BootShape
    <2> QED BY <1>0, <2>1, PassesSame DEF ScriptInv
  <1>7. CASE ServesRequest \/ ServesOn
    <2>1. phase' = "serving" /\ UNCHANGED <<script, scripts, since, got, verdict>>
      BY <1>7 DEF ServesRequest, ServesOn, Serves, scriptVars
    <2> QED BY <1>0, <2>1, PassesSame DEF ScriptInv
  <1>8. CASE PowerCut
    <2>1. /\ UNCHANGED <<scripts, got, verdict>> /\ since' = 0
          /\ script' = IF script = "closed" THEN "closed" ELSE "cut"
      BY <1>8 DEF PowerCut
    <2> QED BY <1>0, <2>1, PassesSame DEF ScriptInv
  <1>9. CASE UNCHANGED benchVars
    <2>1. UNCHANGED <<script, scripts, since, got, verdict, phase>>
      BY <1>9, DeviceSame DEF benchVars, hostVars, scriptVars
    <2> QED BY <1>0, <2>1, PassesSame DEF ScriptInv
  <1> QED BY <1>1, <1>2, <1>3, <1>4, <1>5, <1>6, <1>7, <1>8, <1>9
        DEF HostNext, Script

-----------------------------------------------------------------------------
(* The order of what is under way.                                         *)

LEMMA OrderKept ==
  ASSUME FInv, FInv', ScriptInv, PortInv, BacklogInv, OrderInv,
         [HostNext]_benchVars
  PROVE  OrderInv'
  <1>0. /\ Len(toHost) \in Nat /\ Len(toDevice) \in Nat /\ Len(got) \in Nat
        /\ Busy \in {0, 1} /\ since \in Nat
    BY Lengths, MaxScriptsAssumption DEF ScriptInv
  <1>1. CASE Ask
    <2>1. /\ UNCHANGED <<toHost, asker, since, got, scripts, Busy>>
          /\ Talking /\ Asked = Len(got) /\ Asked' = Len(got) + 1
      BY <1>1, DeviceSame DEF Ask, Asked, Talking
    <2>2. /\ Len(toDevice') = Len(toDevice) + 1
          /\ \A j \in 1..Len(toDevice) : toDevice'[j] = toDevice[j]
          /\ toDevice'[Len(toDevice) + 1].tag = <<scripts, Len(got) + 1>>
      BY <1>1, AskShape
    <2>3. ASSUME NEW j \in 1..Len(toDevice'), Len(toDevice') - j < Asked'
          PROVE  toDevice'[j].tag = Own(Len(toDevice) - j)'
      <3>1. CASE j = Len(toDevice) + 1
        BY <1>0, <2>1, <2>2, <3>1 DEF Own
      <3>2. CASE j # Len(toDevice) + 1
        <4>1. j \in 1..Len(toDevice) /\ Len(toDevice) - j < Asked
          BY <1>0, <2>1, <2>2, <2>3, <3>2
        <4>2. toDevice[j].tag = <<scripts, Asked - (Len(toDevice) - j)>>
          BY <2>1, <4>1 DEF OrderInv, Own
        <4>3. Asked' - (Len(toDevice') - j) = Asked - (Len(toDevice) - j)
          BY <1>0, <2>1, <2>2, <4>1
        <4> QED BY <2>1, <2>2, <4>1, <4>2, <4>3 DEF Own
      <3> QED BY <3>1, <3>2
    <2>4. ASSUME Busy' = 1, Len(toDevice') < Asked'
          PROVE  asker' = Own(Len(toDevice))'
      <3>1. Len(toDevice) < Asked /\ asker = <<scripts, Asked - Len(toDevice)>>
        BY <1>0, <2>1, <2>2, <2>4 DEF OrderInv, Own
      <3>2. Asked' - Len(toDevice') = Asked - Len(toDevice)
        BY <1>0, <2>1, <2>2
      <3> QED BY <2>1, <3>1, <3>2 DEF Own
    <2>5. ASSUME NEW j \in 1..Len(toHost'),
                 Len(toHost') - j + Busy' + Len(toDevice') < Asked'
          PROVE  toHost'[j].tag = Own(Len(toHost) - j + Busy + Len(toDevice))'
      <3>1. j \in 1..Len(toHost) /\ Len(toHost) - j + Busy + Len(toDevice) < Asked
        BY <1>0, <2>1, <2>2, <2>5
      <3>2. toHost[j].tag = <<scripts, Asked - (Len(toHost) - j + Busy + Len(toDevice))>>
        BY <2>1, <3>1 DEF OrderInv, Own
      <3>3. Asked' - (Len(toHost') - j + Busy' + Len(toDevice'))
              = Asked - (Len(toHost) - j + Busy + Len(toDevice))
        BY <1>0, <2>1, <2>2, <3>1
      <3> QED BY <2>1, <3>2, <3>3 DEF Own
    <2>6. ASSUME NEW i \in 1..Len(got'),
                 Len(got') - i + Len(toHost') + Busy' + Len(toDevice') < Asked'
          PROVE  got'[i].tag
                   = Own(Len(got) - i + Len(toHost) + Busy + Len(toDevice))'
      <3>1. /\ i \in 1..Len(got)
            /\ Len(got) - i + Len(toHost) + Busy + Len(toDevice) < Asked
        BY <1>0, <2>1, <2>2, <2>6
      <3>2. got[i].tag
              = <<scripts, Asked - (Len(got) - i + Len(toHost) + Busy + Len(toDevice))>>
        BY <2>1, <3>1 DEF OrderInv, Own
      <3>3. Asked' - (Len(got') - i + Len(toHost') + Busy' + Len(toDevice'))
              = Asked - (Len(got) - i + Len(toHost) + Busy + Len(toDevice))
        BY <1>0, <2>1, <2>2, <3>1
      <3> QED BY <2>1, <3>2, <3>3 DEF Own
    <2> QED BY <2>3, <2>4, <2>5, <2>6 DEF OrderInv
  <1>2. CASE Answered
    <2>1. /\ UNCHANGED <<toDevice, asker, since, scripts, Busy>>
          /\ Talking /\ Asked = Len(got) + 1 /\ Asked' = Len(got')
      BY <1>2, DeviceSame DEF Answered, Asked, Talking
    <2>2. /\ Len(toHost) >= 1 /\ Len(toHost') = Len(toHost) - 1
          /\ \A j \in 1..Len(toHost') : toHost'[j] = toHost[j + 1]
          /\ Len(got') = Len(got) + 1
          /\ got'[Len(got) + 1] = toHost[1]
          /\ \A i \in 1..Len(got) : got'[i] = got[i]
      BY <1>2, AnsweredShape
    <2>3. /\ \A j \in 1..Len(toDevice') : Len(toDevice') - j < Asked' =>
                toDevice'[j].tag = Own(Len(toDevice) - j)'
          /\ Busy' = 1 /\ Len(toDevice') < Asked' => asker' = Own(Len(toDevice))'
      BY <1>0, <2>1, <2>2 DEF OrderInv, Own
    <2>4. ASSUME NEW j \in 1..Len(toHost'),
                 Len(toHost') - j + Busy' + Len(toDevice') < Asked'
          PROVE  toHost'[j].tag = Own(Len(toHost) - j + Busy + Len(toDevice))'
      <3>1. /\ j + 1 \in 1..Len(toHost)
            /\ Len(toHost) - (j + 1) + Busy + Len(toDevice) < Asked
        BY <1>0, <2>1, <2>2, <2>4
      <3>2. toHost[j + 1].tag
              = <<scripts, Asked - (Len(toHost) - (j + 1) + Busy + Len(toDevice))>>
        BY <2>1, <3>1 DEF OrderInv, Own
      <3>3. Asked' - (Len(toHost') - j + Busy' + Len(toDevice'))
              = Asked - (Len(toHost) - (j + 1) + Busy + Len(toDevice))
        BY <1>0, <2>1, <2>2, <3>1
      <3> QED BY <2>1, <2>2, <3>2, <3>3 DEF Own
    <2>5. ASSUME NEW i \in 1..Len(got'),
                 Len(got') - i + Len(toHost') + Busy' + Len(toDevice') < Asked'
          PROVE  got'[i].tag
                   = Own(Len(got) - i + Len(toHost) + Busy + Len(toDevice))'
      <3>1. CASE i = Len(got) + 1
        <4>1. 1 \in 1..Len(toHost) /\ Len(toHost) - 1 + Busy + Len(toDevice) < Asked
          BY <1>0, <2>1, <2>2, <2>5, <3>1
        <4>2. toHost[1].tag = <<scripts, Asked - (Len(toHost) - 1 + Busy + Len(toDevice))>>
          BY <2>1, <4>1 DEF OrderInv, Own
        <4>3. Asked' - (Len(got') - i + Len(toHost') + Busy' + Len(toDevice'))
                = Asked - (Len(toHost) - 1 + Busy + Len(toDevice))
          BY <1>0, <2>1, <2>2, <3>1
        <4> QED BY <2>1, <2>2, <3>1, <4>2, <4>3 DEF Own
      <3>2. CASE i # Len(got) + 1
        <4>1. /\ i \in 1..Len(got)
              /\ Len(got) - i + Len(toHost) + Busy + Len(toDevice) < Asked
          BY <1>0, <2>1, <2>2, <2>5, <3>2
        <4>2. got[i].tag
                = <<scripts, Asked - (Len(got) - i + Len(toHost) + Busy + Len(toDevice))>>
          BY <2>1, <4>1 DEF OrderInv, Own
        <4>3. Asked' - (Len(got') - i + Len(toHost') + Busy' + Len(toDevice'))
                = Asked - (Len(got) - i + Len(toHost) + Busy + Len(toDevice))
          BY <1>0, <2>1, <2>2, <4>1
        <4> QED BY <2>1, <2>2, <4>1, <4>2, <4>3 DEF Own
      <3> QED BY <3>1, <3>2
    <2> QED BY <2>3, <2>4, <2>5 DEF OrderInv
  <1>3. CASE Quiet
    <2>1. UNCHANGED <<toHost, toDevice>> /\ Asked' = 0 /\ got' = got /\ Busy' = Busy
      BY <1>3, DeviceSame, NothingIsSeq DEF Quiet, ScriptInv, portVars, Asked
    <2>2. Len(got) = 0 /\ Len(toHost) = 0
      BY <1>3, NothingIsSeq DEF Quiet, ScriptInv
    <2>3. /\ \A j \in 1..Len(toDevice) : ~(Len(toDevice) - j < 0)
          /\ ~(Len(toDevice) < 0)
      BY <1>0
    <2>4. (1..0) = {}
      OBVIOUS
    <2> QED BY <2>1, <2>2, <2>3, <2>4 DEF OrderInv
  <1>4. CASE \/ OpenPort \/ Drain \/ ReadsLog \/ GivesUp \/ Finish \/ PowerCut
    <2>1. ~Talking'
      BY <1>4 DEF OpenPort, Drain, ReadsLog, GivesUp, Finish, PowerCut,
        scriptVars, Talking
    <2> QED BY <2>1 DEF OrderInv
  <1>5. CASE Boots
    <2>1. /\ phase # "serving" /\ Busy = 0 /\ Busy' = 0
          /\ UNCHANGED <<script, scripts, since, got, toDevice>>
          /\ Len(toHost') \in Nat
      BY <1>5, BootShape, PortKept, Lengths, LenOfSeq DEF PortInv
    <2> SUFFICES ASSUME Talking PROVE OrderInv'
      BY <2>1 DEF OrderInv, Talking
    <2>2. Asked' = Asked
      BY <2>1 DEF Asked
    <2>3. Len(got) = 0
      BY <1>0, <2>1 DEF ScriptInv, Talking
    <2>4. Asked \in {0, 1} /\ (Asked = 1 => Len(toDevice) >= 1)
      <3>1. PICK m \in 0..Len(toHost) : IsLogs(m)
        BY DEF BacklogInv
      <3>2. script = "wait" => Len(toDevice) >= 1
        BY <1>0, <2>1, <3>1 DEF IsLogs, Pending
      <3> QED BY <2>3, <3>2 DEF Asked
    <2>5. \A j \in 1..Len(toDevice') : Len(toDevice') - j < Asked' =>
            toDevice'[j].tag = Own(Len(toDevice) - j)'
      BY <2>1, <2>2 DEF OrderInv, Own
    <2>6. \A j \in 1..Len(toHost') :
            ~(Len(toHost') - j + Busy' + Len(toDevice') < Asked')
      BY <1>0, <2>1, <2>2, <2>4
    <2>7. \A i \in 1..Len(got') : FALSE
      BY <2>1, <2>3
    <2> QED BY <2>1, <2>5, <2>6, <2>7 DEF OrderInv
  <1>6. CASE ServesRequest \/ ServesOn
    <2>1. PICK tag : ServedStep(tag)
      BY <1>6, ServeShape
    <2>2. /\ UNCHANGED <<script, scripts, got>> /\ asker' = tag
      BY <2>1 DEF ServedStep, scriptVars
    <2> SUFFICES ASSUME Talking PROVE OrderInv'
      BY <2>2 DEF OrderInv, Talking
    <2>3. Asked' = Asked /\ Asked \in Nat
      BY <1>0, <2>2 DEF Asked
    <2>4. /\ Len(toHost') \in Nat /\ Len(toDevice') \in Nat /\ Busy' \in {0, 1}
          /\ Len(toHost') + Busy' + Len(toDevice') = Len(toHost) + Busy + Len(toDevice)
          /\ Len(toDevice') <= Len(toDevice)
          /\ Len(toHost') > Len(toHost) =>
               Busy' = 0 /\ Len(toHost') = Len(toHost) + 1
      <3>1. /\ Len(toHost') \in Nat /\ Len(toDevice') \in Nat /\ Busy' \in {0, 1}
            /\ Busy' = 1 => Len(toHost') = Len(toHost)
            /\ Busy' = 0 => Len(toHost') = Len(toHost) + 1
            /\ Busy = 0 => Len(toDevice') = Len(toDevice) - 1
            /\ Busy = 1 => Len(toDevice') = Len(toDevice)
        BY <2>1, Moves
      <3> QED BY <1>0, <3>1
    <2>5. Len(toDevice') < Asked => tag = Own(Len(toDevice))'
      <3>1. CASE Busy = 0
        <4>1. /\ Len(toDevice') = Len(toDevice) - 1 /\ Len(toDevice) >= 1
              /\ tag = toDevice[1].tag
          BY <2>1, <3>1, Moves
        <4>2. Len(toDevice) - 1 < Asked => tag = <<scripts, Asked - (Len(toDevice) - 1)>>
          BY <1>0, <4>1 DEF OrderInv, Own
        <4> QED BY <2>2, <2>3, <4>1, <4>2 DEF Own
      <3>2. CASE Busy = 1
        <4>1. Len(toDevice') = Len(toDevice) /\ tag = asker
          BY <2>1, <3>2, Moves
        <4> QED BY <2>2, <2>3, <3>2, <4>1 DEF OrderInv, Own
      <3> QED BY <1>0, <3>1, <3>2
    <2>6. ASSUME NEW j \in 1..Len(toDevice'), Len(toDevice') - j < Asked'
          PROVE  toDevice'[j].tag = Own(Len(toDevice) - j)'
      <3> DEFINE k == j + (Len(toDevice) - Len(toDevice'))
      <3>1. toDevice'[j] = toDevice[k]
        BY <2>1, Moves
      <3>2. k \in 1..Len(toDevice) /\ Len(toDevice) - k = Len(toDevice') - j
        BY <1>0, <2>4
      <3> HIDE DEF k
      <3>3. toDevice[k].tag = <<scripts, Asked - (Len(toDevice) - k)>>
        BY <2>3, <2>6, <3>2 DEF OrderInv, Own
      <3> QED BY <2>2, <2>3, <3>1, <3>2, <3>3 DEF Own
    <2>7. ASSUME NEW j \in 1..Len(toHost'),
                 Len(toHost') - j + Busy' + Len(toDevice') < Asked'
          PROVE  toHost'[j].tag = Own(Len(toHost) - j + Busy + Len(toDevice))'
      <3>1. CASE j \in 1..Len(toHost)
        <4>1. toHost'[j] = toHost[j]
          BY <2>1, <3>1, Moves
        <4>2. Len(toHost') - j + Busy' + Len(toDevice')
                = Len(toHost) - j + Busy + Len(toDevice)
          BY <1>0, <2>4, <3>1, SMTT(30)
        <4>3. toHost[j].tag = <<scripts, Asked - (Len(toHost) - j + Busy + Len(toDevice))>>
          BY <2>3, <2>7, <3>1, <4>2 DEF OrderInv, Own
        <4> QED BY <2>2, <2>3, <4>1, <4>2, <4>3 DEF Own
      <3>2. CASE j \notin 1..Len(toHost)
        <4>1. j \in Len(toHost) + 1..Len(toHost') /\ j = Len(toHost') /\ Busy' = 0
          BY <1>0, <2>4, <3>2
        <4>2. toHost'[j].tag = tag
          BY <2>1, <4>1, Moves
        <4>3. Len(toHost') - j + Busy' + Len(toDevice') = Len(toDevice')
          BY <2>4, <4>1
        <4> QED BY <2>3, <2>5, <2>7, <4>2, <4>3
      <3> QED BY <3>1, <3>2
    <2>8. ASSUME NEW i \in 1..Len(got'),
                 Len(got') - i + Len(toHost') + Busy' + Len(toDevice') < Asked'
          PROVE  got'[i].tag
                   = Own(Len(got) - i + Len(toHost) + Busy + Len(toDevice))'
      <3>1. Len(got') - i + Len(toHost') + Busy' + Len(toDevice')
              = Len(got) - i + Len(toHost) + Busy + Len(toDevice)
        BY <1>0, <2>2, <2>4, SMTT(30)
      <3>2. got[i].tag
              = <<scripts, Asked - (Len(got) - i + Len(toHost) + Busy + Len(toDevice))>>
        BY <2>2, <2>3, <2>8, <3>1 DEF OrderInv, Own
      <3> QED BY <2>2, <2>3, <3>1, <3>2 DEF Own
    <2> QED BY <2>2, <2>3, <2>5, <2>6, <2>7, <2>8 DEF OrderInv
  <1>7. CASE UNCHANGED benchVars
    <2>1. UNCHANGED <<script, scripts, got, toHost, toDevice, asker>> /\ Busy' = Busy
      BY <1>7, DeviceSame DEF benchVars, hostVars, scriptVars, portVars
    <2>2. Asked' = Asked /\ Talking' = Talking
      BY <2>1 DEF Asked, Talking
    <2> QED BY <2>1, <2>2 DEF OrderInv, Own
  <1> QED BY <1>1, <1>2, <1>3, <1>4, <1>5, <1>6, <1>7 DEF HostNext, Script

(* With six requests left behind at most, an answer that is not of this    *)
(* run is where the script expects something that answer does not have.    *)
LEMMA OwnWhenComplete ==
  /\ ScriptInv /\ PortInv /\ BacklogInv /\ OrderInv /\ script = "ask"
  /\ Len(got) = Calls /\ HostPasses /\ since <= 6
  => \A i \in 1..Calls : got[i].tag = <<scripts, i>>
  <1> SUFFICES ASSUME ScriptInv, PortInv, BacklogInv, OrderInv, script = "ask",
                      Len(got) = Calls, HostPasses, since <= 6
               PROVE  \A i \in 1..Calls : got[i].tag = <<scripts, i>>
    OBVIOUS
  <1> DEFINE left == Len(toHost) + Busy + Len(toDevice)
  <1>0. /\ Len(toHost) \in Nat /\ Len(toDevice) \in Nat /\ Len(got) = 7
        /\ Busy \in {0, 1} /\ since \in Nat
    BY Lengths, MaxScriptsAssumption, HostScriptIs DEF ScriptInv
  <1>1. left \in 0..5
    <2>1. PICK m \in 0..Len(toHost) : IsLogs(m)
      BY DEF BacklogInv
    <2>2. m = 0 /\ Pending(0) + 1 <= since
      BY <1>0, <2>1 DEF IsLogs, Talking
    <2> QED BY <1>0, <2>2 DEF Pending
  <1>2. ASSUME NEW i \in 1..7, i > left
        PROVE  got[i].tag = <<scripts, i - left>>
    <2>1. 7 - i + Len(toHost) + Busy + Len(toDevice) = 7 - i + left
      BY <1>0
    <2>2. Asked = 7 /\ Talking
      BY <1>0 DEF Asked, Talking
    <2>3. 7 - i + left < 7 /\ 7 - (7 - i + left) = i - left
      BY <1>1, <1>2
    <2>4. i \in 1..Len(got)
      BY <1>0
    <2>5. Len(got) - i + Len(toHost) + Busy + Len(toDevice) < Asked =>
            got[i].tag
              = <<scripts, Asked - (Len(got) - i + Len(toHost) + Busy + Len(toDevice))>>
      BY <2>2, <2>4 DEF OrderInv, Own
    <2> HIDE DEF left
    <2> QED BY <1>0, <2>1, <2>2, <2>3, <2>5
  <1>3. \A i \in 1..7 : IsAnswer(got[i])
    BY <1>0 DEF PortInv
  <1> HIDE DEF left
  <1>4. CASE left = 0
    <2>1. \A i \in 1..7 : i > 0 /\ i - 0 = i
      OBVIOUS
    <2> QED BY <1>2, <1>4, <2>1, HostScriptIs
  <1>5. CASE left \in 1..4
    <2>1. PICK k \in 1..4 : k = 5 - left
      BY <1>5
    <2>2. got[5].tag = <<scripts, k>>
      BY <1>2, <1>5, <2>1
    <2>3. got[5].response.op = HostScript[k].op
      BY <1>3, <2>2 DEF IsAnswer
    <2>4. HostScript[k].op # "Emit"
      BY <2>1, HostRequests, HostScriptIs
    <2>5. got[5].response.release # {}
      BY DEF HostPasses
    <2> QED BY <1>3, <2>3, <2>4, <2>5 DEF IsAnswer
  <1>6. CASE left = 5
    <2>1. got[7].tag = <<scripts, 2>>
      BY <1>2, <1>6
    <2>2. got[7].response.op = HostScript[2].op
      BY <1>3, <2>1 DEF IsAnswer
    <2>3. HostScript[2].op # "Status"
      BY HostScriptIs, TestScriptIs
    <2>4. got[7].response.active_index = 1
      BY DEF HostPasses
    <2> QED BY <1>3, <2>2, <2>3, <2>4 DEF IsAnswer
  <1> QED BY <1>1, <1>4, <1>5, <1>6

LEMMA OwnKept ==
  ASSUME HostInv, ScriptInv', PortInv', BacklogInv', OrderInv',
         [HostNext]_benchVars
  PROVE  OwnInv'
  <1>1. CASE Answered
    <2>1. script' = "ask"
      BY <1>1 DEF Answered
    <2>2. scripts' \in Nat /\ since' \in Nat /\ since' <= scripts'
      BY MaxScriptsAssumption DEF ScriptInv
    <2>3. (scripts <= 6 \/ since \in 1..6)' => since' <= 6
      BY <2>2
    <2>4. (/\ ScriptInv /\ PortInv /\ BacklogInv /\ OrderInv /\ script = "ask"
           /\ Len(got) = Calls /\ HostPasses /\ since <= 6
           => \A i \in 1..Calls : got[i].tag = <<scripts, i>>)'
      BY OwnWhenComplete, PTL
    <2> QED BY <2>1, <2>3, <2>4 DEF OwnInv
  <1>2. ASSUME got' = <<>> PROVE OwnInv'
    BY <1>2, NothingIsSeq, HostScriptIs DEF OwnInv
  <1>3. CASE OpenPort \/ ReadsLog \/ GivesUp
    BY <1>2, <1>3 DEF OpenPort, ReadsLog, GivesUp
  <1>4. CASE \/ Drain \/ Quiet \/ Ask \/ Finish \/ Boots \/ ServesRequest
             \/ ServesOn \/ PowerCut \/ UNCHANGED benchVars
    <2>1. /\ got' = got /\ scripts' = scripts
          /\ since' = since \/ since' = 0
      BY <1>4 DEF Drain, Quiet, Ask, Finish, Boots, ServesRequest, ServesOn,
        Serves, PowerCut, scriptVars, hostVars, benchVars
    <2>2. (scripts <= 6 \/ since \in 1..6)' => scripts <= 6 \/ since \in 1..6
      BY <2>1
    <2> QED BY <2>1, <2>2, PassesSame DEF OwnInv, HostInv
  <1> QED BY <1>1, <1>3, <1>4 DEF HostNext, Script

LEMMA HostInvInit == HostInit => HostInv
  <1> SUFFICES ASSUME HostInit PROVE HostInv
    OBVIOUS
  <1>1. /\ script = "closed" /\ scripts = 0 /\ since = 0 /\ got = <<>>
        /\ toDevice = <<>> /\ toHost = <<>> /\ verdict = "none"
        /\ phase = "session" /\ Len(got) = 0 /\ Len(toHost) = 0
        /\ Len(toDevice) = 0 /\ ~Talking /\ Busy = 0
    BY NothingIsSeq DEF HostInit, FirmwareInit, Talking, Busy
  <1>2. ScriptInv
    BY <1>1, MaxScriptsAssumption, HostScriptIs DEF ScriptInv
  <1>3. PortInv
    <2>1. toDevice \in Seq([tag : Tags, request : Requests])
      BY <1>1
    <2> QED BY <1>1, <2>1, NothingIsSeq DEF PortInv
  <1>4. BacklogInv
    <2>1. IsLogs(0)
      BY <1>1 DEF IsLogs, Pending
    <2> QED BY <1>1, <2>1 DEF BacklogInv
  <1>5. OrderInv /\ OwnInv
    BY <1>1, HostScriptIs DEF OrderInv, OwnInv
  <1> QED BY <1>2, <1>3, <1>4, <1>5 DEF HostInv

LEMMA HostInvKept ==
  ASSUME FInv, FInv', HostInv, [HostNext]_benchVars
  PROVE  HostInv'
  <1>1. ScriptInv /\ PortInv /\ BacklogInv /\ OrderInv
    BY DEF HostInv
  <1>2. ScriptInv' /\ PortInv' /\ BacklogInv' /\ OrderInv'
    BY <1>1, ScriptKept, PortKept, BacklogKept, OrderKept
  <1>3. OwnInv'
    BY <1>2, OwnKept
  <1> QED BY <1>2, <1>3 DEF HostInv

(* What is under way between host and device, in which order, and how much *)
(* of it: the strengthening the next two theorems rest on.                 *)
THEOREM HostInductive == HostSpec => []HostInv
  <1>1. HostSpec => []FInv
    BY HostImplementsFirmware, FirmwareInductive, PTL
  <1> QED BY <1>1, HostInvInit, HostInvKept, PTL DEF HostSpec

(* Everything on the bench has its type, and whoever is being served is    *)
(* known.                                                                  *)
THEOREM HostTypeCorrect == HostSpec => []HostTypeOK
  <1>1. FirmwareTypeOK /\ HostInv => HostTypeOK
    <2> SUFFICES ASSUME FirmwareTypeOK, HostInv PROVE HostTypeOK
      OBVIOUS
    <2>1. ASSUME NEW i \in 1..Len(toDevice) PROVE toDevice[i].request \in Requests
      <3> DEFINE S == [tag : Tags, request : Requests]
      <3>1. toDevice \in Seq(S)
        BY DEF HostInv, PortInv
      <3>2. \A r \in S : r.request \in Requests
        OBVIOUS
      <3> HIDE DEF S
      <3> QED BY <3>1, <3>2
    <2>2. serving # {} /\ phase = "serving" => asker # <<>>
      <3> SUFFICES ASSUME serving # {}, phase = "serving" PROVE asker # <<>>
        OBVIOUS
      <3>1. asker \in Tags
        BY DEF HostInv, PortInv, Busy
      <3>2. PICK n \in Nat, k \in 1..Calls : asker = <<n, k>>
        BY <3>1 DEF Tags
      <3>3. Len(<<n, k>>) = 2 /\ Len(<<>>) = 0
        OBVIOUS
      <3> QED BY <3>2, <3>3
    <2> QED BY <2>1, <2>2 DEF HostInv, ScriptInv, HostTypeOK
  <1> QED BY <1>1, HostImplementsFirmware, FirmwareTypeCorrect, HostInductive, PTL

(* With six runs at most since power-up (or ever), PASS is printed on the  *)
(* answers to the run's own seven requests, whatever was left behind.      *)
THEOREM PassIsOnOwnAnswers == HostSpec => []PassMeansOwnAnswers
  <1>1. HostInv => PassMeansOwnAnswers
    BY DEF HostInv, ScriptInv, OwnInv, PassMeansOwnAnswers
  <1> QED BY <1>1, HostInductive, PTL

-----------------------------------------------------------------------------
(* The appliance a script meets.                                           *)

LEMMA RecoverAsMade ==
  ASSUME FInv, AsMade, pc \in {"boot", "recover_read"}, Recover
  PROVE  /\ UNCHANGED <<h, root, u, status, record, exported, installed, wasted,
                        serving>>
         /\ staged' = Empty /\ pc' \in {"idle", "recover_read"}
         /\ phase' = IF pc' = "idle" THEN "serving" ELSE "recover"
  <1>1. RecoverFaulty \/ RecoverReady \/ RecoverRead \/ RecoverAhead
    BY DEF Recover, Boot, RecoverStep, AsMade, RecoverReemit,
      RecoverCountPending, RecoverCount, RecoverCountFails, RecoverFlag,
      RecoverIndex, RecoverStale, RecoverPrepared, Reemittable, CountPending,
      FlagLost, Candidate
  <1> QED BY <1>1 DEF Recover, Boot, AsMade, RecoverFaulty, RecoverReady,
        RecoverRead, RecoverAhead, Recovered, Answer, Continue, chipVars,
        durable, history

(* What the script asks of the appliance is done with the test's           *)
(* transition, once.                                                       *)
LEMMA OnlyTestKept ==
  ASSUME FInv, OnlyTest, NEW k \in 1..Calls, TestRequestSteps(HostScript[k])
  PROVE  OnlyTest' /\ (Advanced => Advanced')
  <1> DEFINE req == HostScript[k]
             t == TestTransition
  <1>0. /\ req.op \in {"Prepare", "Commit", "Emit", "Finalize", "Status"}
        /\ req.op = "Prepare" => req.transition = {t}
        /\ t.anchor_counter = 0 /\ t.next_anchor_counter = 1 /\ t \in Transitions
    BY HostRequests, SelfTestAssumption
  <1>1. u \in 0..H0 /\ LiveIndex \in Nat /\ RecordTypeOK(record) /\ RecordTypeOK(staged)
    BY Arithmetic DEF FInv, IInv, TypeOK, CounterAccounted
  <1>2. /\ Advanced => u = 1 /\ ~IsPrepared /\ ~IsCommitted
        /\ IsCommitted => RecordIndex = 1
        /\ IsPrepared => u = 0
    BY <1>0, RecordFields DEF Advanced, IsPrepared, IsCommitted, OnlyTest,
      RecordIndex, IndexOfRelease, FInv, IInv, PreparedInv, FollowsU
  <1>3. ASSUME durable' = durable, staged' = Empty
        PROVE  OnlyTest' /\ (Advanced => Advanced')
    BY <1>3, RecordFields DEF durable, OnlyTest, Advanced, IsPrepared, IsCommitted
  <1>4. CASE DispatchPrepare(req) /\ pc = "idle"
    <2>1. PICK rc : PrepareBegin(t, rc) \/ PrepareRefused(t)
                    \/ PrepareReadFails(t) \/ PrepareWitnessFails(t)
      BY <1>0, <1>4 DEF DispatchPrepare
    <2>2. CASE PrepareBegin(t, rc)
      <3>1. u = 0 /\ u' = u /\ root' = root /\ record' = record
        BY <1>0, <2>2 DEF PrepareBegin, PrepareCheck
      <3>2. staged'.kind = "Prepared" /\ staged'.txn = t
        BY <2>2 DEF PrepareBegin, Continue, Prepared
      <3> QED BY <1>2, <3>1, <3>2 DEF OnlyTest, IsPrepared, IsCommitted
    <2>3. CASE PrepareRefused(t) \/ PrepareReadFails(t) \/ PrepareWitnessFails(t)
      BY <1>3, <2>3 DEF PrepareRefused, PrepareReadFails, PrepareWitnessFails,
        Refuse, ChipReadFails, Answer
    <2> QED BY <2>1, <2>2, <2>3
  <1>5. CASE CommitSign
    <2>1. IsPrepared /\ u = 0 /\ u' = u /\ record.txn = t
      BY <1>2, <1>5 DEF CommitSign, CommitCheck, OnlyTest
    <2>2. record'.kind = "Prepared" /\ record'.txn = t
      BY <1>5, <2>1 DEF CommitSign, Prepared
    <2>3. staged'.kind = "Committed" /\ staged'.release.transition = t
      BY <1>5, <2>1 DEF CommitSign, Continue, Committed, SignedRelease,
        OfflineRelease
    <2> QED BY <1>2, <2>1, <2>2, <2>3 DEF OnlyTest, IsPrepared, IsCommitted
  <1>6. CASE Finalize
    <2>1. IsCommitted /\ record.committed /\ u = LiveIndex
      BY <1>6 DEF Finalize, FinalizeCheck
    <2>2. u = 1
      BY <1>1, <1>2, <2>1 DEF FInv, IInv, CommittedInv
    <2>3. Advanced'
      BY <1>6, <2>1, <2>2 DEF Finalize, Advanced, OnlyTest
    <2>4. ~IsPrepared' /\ ~IsCommitted' /\ staged' = Empty
      BY <1>6, RecordFields DEF Finalize, Answer, IsPrepared, IsCommitted
    <2> QED BY <2>3, <2>4, RecordFields DEF OnlyTest
  <1>7. CASE \/ CommitRefused \/ CommitReadFails \/ Emit \/ EmitRefused
             \/ FinalizeRefused \/ FinalizeReadFails
    BY <1>3, <1>7 DEF CommitRefused, CommitReadFails, Emit, EmitRefused,
      FinalizeRefused, FinalizeReadFails, Refuse, ChipReadFails, Answer
  <1>8. CASE PrepareStore
    <2>1. /\ staged.kind = "Prepared" /\ staged.txn = t /\ u = 0 /\ u' = u
          /\ record' = staged /\ staged' = Empty
      BY <1>0, <1>8 DEF PrepareStore, Answer, FInv, IInv, StepInv, FollowsU,
        OnlyTest
    <2> QED BY <1>2, <2>1, RecordFields DEF OnlyTest, IsPrepared, IsCommitted
  <1>9. CASE CommitStatus
    <2>1. IsPrepared /\ UNCHANGED <<root, u, record, staged>>
      BY <1>9 DEF CommitStatus, Continue, FInv, IInv, StepInv
    <2> QED BY <1>2, <2>1 DEF OnlyTest, IsPrepared, IsCommitted
  <1>10. CASE CommitStore
    <2>1. /\ IsPrepared /\ staged.kind = "Committed"
          /\ staged.release.transition = t
          /\ record' = staged /\ staged' = Empty
      BY <1>10 DEF CommitStore, Continue, FInv, IInv, StepInv, OnlyTest
    <2> QED BY <1>2, <2>1, RecordFields DEF OnlyTest, IsPrepared, IsCommitted
  <1>11. CASE CommitCount \/ CommitCountFails
    BY <1>3, <1>11 DEF CommitCount, CommitCountFails, Continue, Answer
  <1>12. CASE CommitFlag
    <2>1. IsCommitted /\ record.release.transition = t
      BY <1>12 DEF CommitFlag, FInv, IInv, StepInv, OnlyTest
    <2>2. /\ record'.kind = "Committed" /\ record'.release = record.release
          /\ staged' = Empty
      BY <1>12 DEF CommitFlag, Committed, Continue
    <2> QED BY <1>2, <2>1, <2>2, RecordFields DEF OnlyTest, IsPrepared, IsCommitted
  <1>13. CASE CommitIndex
    <2>1. IsCommitted /\ record' = record /\ staged' = Empty
      BY <1>13 DEF CommitIndex, Answer, FInv, IInv, StepInv
    <2> QED BY <1>2, <2>1, RecordFields DEF OnlyTest, IsPrepared, IsCommitted
  <1>14. CASE pc = "idle" /\ Dispatch(req)
    BY <1>0, <1>4, <1>5, <1>6, <1>7, <1>14 DEF Dispatch, DispatchCommit,
      DispatchEmit, DispatchFinalize, DispatchCancel
  <1>15. CASE serving = {req} /\ Continuation
    <2>1. ~CancelStatus /\ ~CancelStore
      BY <1>0, <1>15 DEF FInv, ServingInv, CancelStatus, CancelStore
    <2> QED BY <1>8, <1>9, <1>10, <1>11, <1>12, <1>13, <1>15, <2>1 DEF Continuation
  <1> QED BY <1>14, <1>15 DEF TestRequestSteps

LEMMA ServedOnlyTest ==
  ASSUME FInv, OnlyTest, NEW tag, ServedStep(tag)
  PROVE  OnlyTest' /\ (Advanced => Advanced')
  <1>1. tag[2] \in 1..Calls
    BY DEF ServedStep, Tags
  <1>2. CASE TestRequestSteps(HostScript[tag[2]])
    BY <1>1, <1>2, OnlyTestKept
  <1>3. CASE UNCHANGED vars
    BY <1>3 DEF vars, durable, volatile, OnlyTest, Advanced, IsPrepared,
      IsCommitted
  <1> QED BY <1>2, <1>3 DEF ServedStep, GoesOn, Answers, Reports

LEMMA EnrolledAsMade ==
  ASSUME FInv, EnrollAgain
  PROVE  AsMade' /\ pc' = "boot"
  <1>1. h' \in 0..H0 /\ H0 \in Nat
    BY EnrollmentSets, H0Assumption DEF EnrollAgain
  <1>2. \A a \in 0..H0 : a = H0 - (H0 - a)
    BY <1>1
  <1> QED BY <1>1, <1>2 DEF EnrollAgain, NewAppliance, AsMade

LEMMA AdvanceKept ==
  ASSUME FInv, FInv', HostInv, AdvanceInv, [HostNext]_benchVars
  PROVE  AdvanceInv'
  <1>1. CASE Script \/ UNCHANGED benchVars
    <2>1. UNCHANGED deviceVars
      BY <1>1 DEF Script, OpenPort, Drain, Quiet, Ask, Answered, ReadsLog,
        GivesUp, Finish, benchVars
    <2> QED BY <2>1 DEF deviceVars, firmwareVars, servedVars, serviceVars, vars,
      chipVars, durable, volatile, history, AdvanceInv, AsMade, OnlyTest,
      Advanced, IsPrepared, IsCommitted
  <1>2. CASE PowerCut
    BY <1>2 DEF PowerCut, PowerCycle, AdvanceInv
  <1>3. CASE Boots
    <2>1. CASE EnrollAgain
      <3>1. phase' = "recover"
        BY <2>1 DEF EnrollAgain
      <3> QED BY <2>1, <3>1, EnrolledAsMade DEF AdvanceInv
    <2>2. CASE Recover
      <3>1. AsMade /\ pc \in {"boot", "recover_read"}
        BY <2>2 DEF AdvanceInv, Recover
      <3>2. /\ UNCHANGED <<h, root, u, status, record, exported, installed,
                           wasted, serving>>
            /\ staged' = Empty /\ pc' \in {"idle", "recover_read"}
            /\ phase' = IF pc' = "idle" THEN "serving" ELSE "recover"
        BY <2>2, <3>1, RecoverAsMade
      <3>3. AsMade' /\ OnlyTest'
        BY <3>1, <3>2, RecordFields DEF AsMade, OnlyTest, IsPrepared, IsCommitted
      <3> QED BY <3>2, <3>3 DEF AdvanceInv
    <2>3. CASE \/ SessionStart \/ SessionFails \/ EnrollForTest
               \/ EnrollForTestFails \/ SelfTest
      BY <2>3 DEF SessionStart, SessionFails, EnrollForTest,
        EnrollForTestFails, SelfTest, AdvanceInv
    <2> QED BY <1>3, <2>1, <2>2, <2>3 DEF Boots, Firmware
  <1>4. CASE ServesRequest \/ ServesOn
    <2>1. PICK tag : ServedStep(tag)
      BY <1>4, ServeShape DEF HostInv
    <2> QED BY <2>1, ServedOnlyTest DEF ServedStep, AdvanceInv
  <1> QED BY <1>1, <1>2, <1>3, <1>4 DEF HostNext

(* An answer tells of what has left, and of where the appliance is.        *)
LEMMA SentIsTrue ==
  ASSUME FInv, OnlyTest, PortInv, NEW tag, ServedStep(tag)
  PROVE  \A j \in Len(toHost) + 1..Len(toHost') : IsTrue(toHost[j].response)'
  <1> DEFINE req == HostScript[tag[2]]
  <1>0. /\ IsSeq(toHost) /\ Len(toHost) \in Nat /\ tag[2] \in 1..Calls
    BY Lengths DEF PortInv, ServedStep, Tags
  <1>1. ASSUME NEW a, toHost' = toHost \o <<Message(tag, a)>>,
               a.release \subseteq exported',
               a.active_index = 1 /\ a.status = "Ready" => Advanced'
        PROVE  \A j \in Len(toHost) + 1..Len(toHost') : IsTrue(toHost[j].response)'
    <2> DEFINE m == Message(tag, a)
    <2>1. m.response = a
      BY DEF Message
    <2> HIDE DEF m
    <2>2. toHost' = toHost \o <<m>>
      BY <1>1 DEF m
    <2>3. Len(toHost') = Len(toHost) + 1 /\ toHost'[Len(toHost) + 1] = m
      BY <1>0, <2>2, Longer
    <2>4. \A j \in Len(toHost) + 1..Len(toHost') : j = Len(toHost) + 1
      BY <1>0, <2>3
    <2> QED BY <1>1, <2>1, <2>3, <2>4 DEF IsTrue
  <1>2. CASE GoesOn(req)
    <2>1. toHost' = toHost
      BY <1>2 DEF GoesOn
    <2>2. Len(toHost) + 1..Len(toHost') = {}
      BY <1>0, <2>1
    <2> QED BY <2>2
  <1>3. CASE Answers(tag, req)
    <2> DEFINE a == AnswerOf(req.op, reply')
    <2>1. a.active_index = 0
      BY DEF AnswerOf, ok, fail, base
    <2>2. a.release \subseteq exported'
      <3>1. CASE req.op = "Emit" /\ reply' = "Ok"
        <4>1. ~(serving = {req})
          BY <3>1 DEF FInv, ServingInv
        <4>2. Emit \/ EmitRefused
          BY <1>3, <3>1, <4>1 DEF Answers, TestRequestSteps, Dispatch,
            DispatchPrepare, DispatchCommit, DispatchEmit, DispatchFinalize,
            DispatchCancel
        <4>3. Emit
          BY <3>1, <4>2 DEF EmitRefused, Refuse, Answer
        <4>4. a.release = {record.release}
          BY <3>1 DEF AnswerOf, ok, base
        <4> QED BY <4>3, <4>4 DEF Emit
      <3>2. CASE ~(req.op = "Emit" /\ reply' = "Ok")
        <4>1. a.release = {}
          BY <3>2 DEF AnswerOf, ok, fail, base
        <4> QED BY <4>1
      <3> QED BY <3>1, <3>2
    <2>3. toHost' = toHost \o <<Message(tag, a)>>
      BY <1>3 DEF Answers
    <2> HIDE DEF a
    <2> QED BY <1>1, <2>1, <2>2, <2>3
  <1>4. CASE Reports(tag, req)
    <2>1. /\ Report.release = {} /\ Report.active_index = u
          /\ Report.status = status
      BY DEF Report, ok, base
    <2>2. u = 1 /\ status = "Ready" => Advanced
      BY DEF OnlyTest, FInv, IInv, CommittedInv
    <2>3. Advanced => Advanced'
      BY ServedOnlyTest
    <2>4. toHost' = toHost \o <<Message(tag, Report)>>
      BY <1>4 DEF Reports
    <2> QED BY <1>1, <2>1, <2>2, <2>3, <2>4
  <1> QED BY <1>2, <1>3, <1>4 DEF ServedStep

LEMMA TrueKept ==
  ASSUME FInv, FInv', HostInv, AdvanceInv, TrueInv, [HostNext]_benchVars
  PROVE  TrueInv'
  <1>0. /\ Len(toHost) \in Nat /\ Len(got) \in Nat /\ IsSeq(toHost) /\ IsSeq(got)
        /\ since \in Nat
    BY Lengths, MaxScriptsAssumption DEF HostInv, PortInv, ScriptInv
  <1>1. ASSUME UNCHANGED deviceVars
        PROVE  exported' = exported /\ Advanced' = Advanced
    BY <1>1 DEF deviceVars, servedVars, vars, durable, history, Advanced
  <1>2. CASE OpenPort \/ Quiet \/ Ask \/ GivesUp \/ Finish
    <2>1. /\ UNCHANGED deviceVars /\ toHost' = toHost
          /\ got' = <<>> \/ (got' = got /\ since' = since)
      BY <1>2 DEF OpenPort, Quiet, Ask, GivesUp, Finish, portVars
    <2> QED BY <1>1, <2>1, NothingIsSeq DEF TrueInv, IsTrue
  <1>3. CASE Drain
    <2>1. /\ UNCHANGED deviceVars /\ UNCHANGED <<got, since>>
          /\ toHost' = Tail(toHost) /\ toHost # <<>>
      BY <1>3 DEF Drain, scriptVars
    <2>2. \A j \in 1..Len(toHost') : j + 1 \in 1..Len(toHost) /\ toHost'[j] = toHost[j + 1]
      BY <1>0, <2>1, Shorter
    <2> QED BY <1>1, <2>1, <2>2 DEF TrueInv, IsTrue
  <1>4. CASE Answered
    <2>1. UNCHANGED deviceVars /\ since' = since
      BY <1>4 DEF Answered
    <2>2. since > 0
      BY <1>4 DEF Answered, HostInv, ScriptInv
    <2>3. /\ Len(toHost) >= 1 /\ Len(toHost') = Len(toHost) - 1
          /\ \A j \in 1..Len(toHost') : toHost'[j] = toHost[j + 1]
          /\ Len(got') = Len(got) + 1 /\ got'[Len(got) + 1] = toHost[1]
          /\ \A i \in 1..Len(got) : got'[i] = got[i]
      BY <1>4, AnsweredShape DEF HostInv
    <2>4. ASSUME NEW j \in 1..Len(toHost') PROVE IsTrue(toHost[j].response)'
      <3>1. j + 1 \in 1..Len(toHost)
        BY <1>0, <2>3
      <3>2. toHost'[j] = toHost[j + 1]
        BY <2>3
      <3> QED BY <1>1, <2>1, <3>1, <3>2 DEF TrueInv, IsTrue
    <2>5. ASSUME NEW i \in 1..Len(got') PROVE IsTrue(got[i].response)'
      <3>1. CASE i = Len(got) + 1
        BY <1>0, <1>1, <2>1, <2>3, <3>1 DEF TrueInv, IsTrue
      <3>2. CASE i # Len(got) + 1
        <4>1. i \in 1..Len(got)
          BY <1>0, <2>3, <3>2
        <4> QED BY <1>1, <2>1, <2>2, <2>3, <4>1 DEF TrueInv, IsTrue
      <3> QED BY <3>1, <3>2
    <2> QED BY <2>4, <2>5 DEF TrueInv
  <1>5. CASE ReadsLog
    <2>1. UNCHANGED deviceVars /\ got' = <<>>
      BY <1>5 DEF ReadsLog
    <2>2. PICK n \in 1..Len(toHost) : toHost' = SubSeq(toHost, n + 1, Len(toHost))
      BY <1>5 DEF ReadsLog
    <2>3. /\ Len(toHost') = Len(toHost) - n
          /\ \A j \in 1..Len(toHost) - n : toHost'[j] = toHost[j + n]
      BY <1>0, <2>2, Remaining
    <2>4. ASSUME NEW j \in 1..Len(toHost') PROVE IsTrue(toHost[j].response)'
      <3>1. j + n \in 1..Len(toHost) /\ j \in 1..Len(toHost) - n
        BY <1>0, <2>2, <2>3
      <3> QED BY <1>1, <2>1, <2>3, <3>1 DEF TrueInv, IsTrue
    <2> QED BY <2>1, <2>4, NothingIsSeq DEF TrueInv
  <1>6. CASE Boots
    <2>1. phase # "serving" /\ UNCHANGED <<got, since>>
      BY <1>6, BootShape
    <2>2. since > 0 => Len(got) = 0
      BY <1>0, <2>1 DEF HostInv, ScriptInv
    <2>3. \A j \in 1..Len(toHost') : toHost'[j] = Log
      <3>1. \A j \in 1..Len(toHost) : toHost[j] = Log
        BY <2>1 DEF HostInv, BacklogInv, IsLogs
      <3>2. CASE toHost' = toHost
        BY <3>1, <3>2
      <3>3. CASE toHost' = Append(toHost, Log)
        <4>1. /\ Len(toHost') = Len(toHost) + 1 /\ toHost'[Len(toHost) + 1] = Log
              /\ \A j \in 1..Len(toHost) : toHost'[j] = toHost[j]
          BY <1>0, <3>3, Longer
        <4> QED BY <1>0, <3>1, <4>1
      <3> QED BY <1>6, <3>2, <3>3, BootShape
    <2>4. IsTrue(Log.response)'
      BY DEF IsTrue, Log, base
    <2> QED BY <2>1, <2>2, <2>3, <2>4 DEF TrueInv
  <1>7. CASE ServesRequest \/ ServesOn
    <2>1. PICK tag : ServedStep(tag)
      BY <1>7, ServeShape DEF HostInv
    <2>2. OnlyTest /\ UNCHANGED <<got, since>>
      BY <2>1 DEF ServedStep, scriptVars, AdvanceInv
    <2>3. exported \subseteq exported' /\ (Advanced => Advanced')
      <3>1. [Next]_vars
        BY <1>7, ServedIsService, RunningIsService DEF HostInv
      <3> QED BY <2>1, <2>2, <3>1, ExportedGrows, ServedOnlyTest
    <2>5. ASSUME NEW j \in 1..Len(toHost') PROVE IsTrue(toHost[j].response)'
      <3>1. CASE j \in 1..Len(toHost)
        <4>1. toHost'[j] = toHost[j]
          BY <2>1, <3>1, Moves DEF HostInv
        <4> QED BY <2>3, <3>1, <4>1 DEF TrueInv, IsTrue
      <3>2. CASE j \notin 1..Len(toHost)
        <4>1. j \in Len(toHost) + 1..Len(toHost')
          BY <1>0, <3>2
        <4> QED BY <2>1, <2>2, <4>1, SentIsTrue DEF HostInv
      <3> QED BY <3>1, <3>2
    <2> QED BY <2>2, <2>3, <2>5 DEF TrueInv, IsTrue
  <1>8. CASE PowerCut
    BY <1>8, NothingIsSeq DEF PowerCut, TrueInv
  <1>9. CASE UNCHANGED benchVars
    <2>1. UNCHANGED deviceVars /\ UNCHANGED <<got, since, toHost>>
      BY <1>9 DEF benchVars, hostVars, scriptVars, portVars
    <2> QED BY <1>1, <2>1 DEF TrueInv, IsTrue
  <1> QED BY <1>2, <1>3, <1>4, <1>5, <1>6, <1>7, <1>8, <1>9 DEF HostNext, Script

(* Whatever a script has read since power-up, and whatever is on its way   *)
(* to it, is so: the release answered has been exported, and Ready at      *)
(* index 1 is answered only once the test's successor is current.          *)
THEOREM AnswersAreTrue == HostSpec => [](AdvanceInv /\ TrueInv)
  <1>1. HostInit => AdvanceInv /\ TrueInv
    BY NothingIsSeq DEF HostInit, FirmwareInit, AdvanceInv, TrueInv
  <1>2. HostSpec => []FInv
    BY HostImplementsFirmware, FirmwareInductive, PTL
  <1> QED BY <1>1, <1>2, HostInductive, AdvanceKept, TrueKept, PTL DEF HostSpec

(* PASS means that the appliance has advanced to the test's successor and  *)
(* that the release the script got is installed.                           *)
THEOREM PassIsInstalled == HostSpec => []PassMeansInstalled
  <1>1. FInv /\ HostInv /\ TrueInv => PassMeansInstalled
    <2> SUFFICES ASSUME FInv, HostInv, TrueInv, verdict = "PASS", since > 0
                 PROVE  /\ root = TestTransition.next_root /\ u >= 1
                        /\ got[5].response.release # {}
                        /\ got[5].response.release \subseteq installed
      BY DEF PassMeansInstalled
    <2>1. HostPasses /\ Len(got) = 7
      BY HostScriptIs DEF HostInv, ScriptInv
    <2>2. IsTrue(got[5].response) /\ IsTrue(got[7].response)
      BY <2>1 DEF TrueInv
    <2>3. Advanced
      BY <2>1, <2>2 DEF HostPasses, IsTrue
    <2>4. exported \subseteq installed
      BY <2>3, RecordFields DEF Advanced, FInv, IInv, ExportedInv, IsCommitted
    <2> QED BY <2>1, <2>2, <2>3, <2>4 DEF HostPasses, IsTrue, Advanced
  <1>2. HostSpec => []FInv
    BY HostImplementsFirmware, FirmwareInductive, PTL
  <1> QED BY <1>1, <1>2, HostInductive, AnswersAreTrue, PTL
-----------------------------------------------------------------------------
(* The first run after power-up.                                           *)

LEMMA StatusReports == ASSUME FInv PROVE ~TestRequestSteps(TestScript[5])
  BY TestScriptIs DEF TestRequestSteps, FInv, ServingInv, Dispatch,
    DispatchPrepare, DispatchCommit, DispatchEmit, DispatchFinalize,
    DispatchCancel

(* Nothing is under way before the script has asked, and one request when  *)
(* it waits: that one is its own.                                          *)
LEMMA FirstBacklog ==
  ASSUME ScriptInv, PortInv, BacklogInv, OrderInv
  PROVE  /\ since = 0 => Busy + Len(toDevice) = 0
         /\ since = 1 /\ script \in {"quiet", "ask"} => Busy + Len(toDevice) = 0
         /\ since = 1 /\ script = "wait" => Busy + Len(toDevice) <= 1
         /\ since = 1 /\ Talking /\ phase # "serving" =>
              Len(got) = 0 /\ Busy + Len(toDevice) = Asked
         /\ since = 1 /\ script = "ask" /\ Len(got) > 0 => Len(toHost) = 0
         /\ since = 1 /\ Talking /\ Busy = 1 => asker = <<scripts, Asked>>
         /\ since = 1 /\ Talking /\ Len(toDevice) = 1 =>
              toDevice[1].tag = <<scripts, Asked>>
  <1>0. /\ Len(toHost) \in Nat /\ Len(toDevice) \in Nat /\ Len(got) \in Nat
        /\ Busy \in {0, 1}
    BY Lengths
  <1>1. PICK m \in 0..Len(toHost) : IsLogs(m)
    BY DEF BacklogInv
  <1>2. /\ Pending(m) + (IF script \in {"quiet", "ask"} THEN 1 ELSE 0) <= since
        /\ script = "wait" => Pending(m) >= 1
        /\ phase # "serving" => m = Len(toHost)
        /\ Talking /\ Len(got) > 0 => m = 0
    BY <1>1 DEF IsLogs
  <1>3. Pending(m) = (Len(toHost) - m) + Busy + Len(toDevice) /\ Len(toHost) - m \in Nat
    BY <1>0, <1>1 DEF Pending
  <1>4. /\ since = 0 => Busy + Len(toDevice) = 0
        /\ since = 1 /\ script \in {"quiet", "ask"} => Busy + Len(toDevice) = 0
        /\ since = 1 /\ script = "wait" => Busy + Len(toDevice) <= 1
    BY <1>0, <1>2, <1>3
  <1>5. ASSUME since = 1, Talking, phase # "serving"
        PROVE  Len(got) = 0 /\ Busy + Len(toDevice) = Asked
    <2>1. Len(got) = 0
      BY <1>0, <1>5 DEF ScriptInv
    <2>2. Len(toHost) - m = 0
      BY <1>0, <1>2, <1>5
    <2> QED BY <1>0, <1>2, <1>3, <1>5, <2>1, <2>2 DEF Talking, Asked
  <1>6. since = 1 /\ script = "ask" /\ Len(got) > 0 => Len(toHost) = 0
    BY <1>0, <1>2, <1>3 DEF Talking
  <1>7. ASSUME since = 1, Talking, Busy = 1
        PROVE  asker = <<scripts, Asked>>
    <2>1. script = "wait" /\ Len(toDevice) = 0
      BY <1>0, <1>4, <1>7 DEF Talking
    <2>2. Asked \in Nat /\ Asked > 0
      BY <1>0, <2>1 DEF Asked
    <2> QED BY <1>7, <2>1, <2>2 DEF OrderInv, Own
  <1>8. ASSUME since = 1, Talking, Len(toDevice) = 1
        PROVE  toDevice[1].tag = <<scripts, Asked>>
    <2>1. script = "wait"
      BY <1>0, <1>4, <1>8 DEF Talking
    <2>2. Asked \in Nat /\ Asked > 0
      BY <1>0, <2>1 DEF Asked
    <2>3. 1 \in 1..Len(toDevice) /\ Len(toDevice) - 1 = 0
      BY <1>8
    <2>4. toDevice[1].tag = Own(0)
      BY <1>8, <2>2, <2>3 DEF OrderInv
    <2> QED BY <2>2, <2>4 DEF Own
  <1> QED BY <1>4, <1>5, <1>6, <1>7, <1>8

(* What a step of the device does for the request the script waits for.    *)
LEMMA StageServed ==
  ASSUME FInv, NEW n \in 0..6, NEW tag, ServedStep(tag), tag[2] = n + 1,
         StageAfter(n)
  PROVE  \/ GoesOn(HostScript[n + 1]) /\ StageAfter(n)'
         \/ \E a : /\ toHost' = toHost \o <<Message(tag, a)>> /\ serving' = {}
                   /\ \/ TellsOfChip(a)
                      \/ IsExpected(n + 1, a) /\ StageAfter(n + 1)'
  <1> DEFINE req == HostScript[n + 1]
  <1>0. GoesOn(req) \/ Answers(tag, req) \/ Reports(tag, req)
    BY DEF ServedStep
  <1>1. \A op : /\ TellsOfChip(AnswerOf(op, "Tropic"))
                /\ TellsOfChip(AnswerOf(op, "CounterExhausted"))
                /\ AnswerOf(op, "Ok").ok
    BY AnswerFields DEF TellsOfChip
  <1>2. ASSUME n \in {0, 2, 6}
        PROVE  /\ Reports(tag, req) /\ UNCHANGED vars /\ pc = "idle"
               /\ serving' = {} /\ toHost' = toHost \o <<Message(tag, Report)>>
               /\ Report.ok /\ Report.active_index = u /\ Report.status = status
    <2>1. req = TestScript[5]
      BY <1>2, HostScriptIs
    <2>2. Reports(tag, req)
      BY <1>0, <2>1, StatusReports DEF GoesOn, Answers
    <2>3. Report.ok /\ Report.active_index = u /\ Report.status = status
      BY DEF Report, ok, base
    <2> QED BY <2>2, <2>3 DEF Reports
  <1>3. ASSUME n \in {1, 3, 4, 5}
        PROVE  /\ TestRequestSteps(req)
               /\ \/ GoesOn(req) /\ reply' = "none"
                  \/ /\ reply' # "none" /\ serving' = {}
                     /\ toHost' = toHost \o <<Message(tag, AnswerOf(req.op, reply'))>>
    <2>1. req.op # "Status"
      BY <1>3, HostScriptIs, TestScriptIs
    <2> QED BY <1>0, <2>1 DEF Reports, GoesOn, Answers
  <1>4. ASSUME n \in {1, 3, 4, 5}, reply' \in {"Tropic", "CounterExhausted"}
        PROVE  \E a : /\ toHost' = toHost \o <<Message(tag, a)>> /\ serving' = {}
                      /\ TellsOfChip(a)
    <2>1. /\ serving' = {}
          /\ toHost' = toHost \o <<Message(tag, AnswerOf(req.op, reply'))>>
      BY <1>3, <1>4
    <2>2. TellsOfChip(AnswerOf(req.op, reply'))
      BY <1>1, <1>4
    <2> QED BY <2>1, <2>2
  <1>5. ASSUME n \in {1, 3, 4, 5}, reply' = "Ok",
               IsExpected(n + 1, AnswerOf(req.op, "Ok")), StageAfter(n + 1)'
        PROVE  \E a : /\ toHost' = toHost \o <<Message(tag, a)>> /\ serving' = {}
                      /\ IsExpected(n + 1, a) /\ StageAfter(n + 1)'
    <2>1. /\ serving' = {}
          /\ toHost' = toHost \o <<Message(tag, AnswerOf(req.op, "Ok"))>>
      BY <1>3, <1>5
    <2> QED BY <1>5, <2>1
  <1>6. CASE n = 0
    <2>1. TestPreparing /\ TestPreparing'
      BY <1>2, <1>6 DEF StageAfter, TestPreparing, vars, durable, volatile,
        chipVars
    <2>2. IsExpected(1, Report)
      BY <1>2, <1>6, <2>1 DEF IsExpected, TestPreparing
    <2> QED BY <1>2, <1>6, <2>1, <2>2 DEF StageAfter
  <1>7. CASE n = 1
    <2>1. TestPreparing /\ req = TestScript[1] /\ req.op = "Prepare"
      BY <1>7, HostScriptIs, TestScriptIs DEF StageAfter
    <2>2. \/ reply' = "none" /\ TestPreparing'
          \/ reply' = "Ok" /\ TestCommitting'
          \/ reply' = "Tropic"
      BY <1>3, <1>7, <2>1, TestPrepares
    <2>3. IsExpected(2, AnswerOf(req.op, "Ok"))
      BY <1>1 DEF IsExpected
    <2>4. /\ reply' = "none" => StageAfter(1)'
          /\ reply' = "Ok" => StageAfter(2)'
      BY <2>2 DEF StageAfter
    <2> QED BY <1>3, <1>4, <1>5, <1>7, <2>2, <2>3, <2>4
  <1>8. CASE n = 2
    <2>1. TestCommitting /\ TestCommitting'
      BY <1>2, <1>8 DEF StageAfter, TestCommitting, vars, durable, volatile,
        chipVars, IsTestRecord, IsTestRelease
    <2>2. IsExpected(3, Report)
      BY <1>2, <1>8, <2>1 DEF IsExpected, TestCommitting
    <2> QED BY <1>2, <1>8, <2>1, <2>2 DEF StageAfter
  <1>9. CASE n = 3
    <2>1. TestCommitting /\ req = TestScript[2] /\ req.op = "Commit"
      BY <1>9, HostScriptIs, TestScriptIs DEF StageAfter
    <2>2. \/ reply' = "none" /\ TestCommitting'
          \/ reply' = "Ok" /\ TestCommitted'
          \/ reply' \in {"Tropic", "CounterExhausted"}
      BY <1>3, <1>9, <2>1, TestCommits
    <2>3. IsExpected(4, AnswerOf(req.op, "Ok"))
      BY <1>1 DEF IsExpected
    <2>4. /\ reply' = "none" => StageAfter(3)'
          /\ reply' = "Ok" => StageAfter(4)'
      BY <2>2 DEF StageAfter
    <2> QED BY <1>3, <1>4, <1>5, <1>9, <2>2, <2>3, <2>4
  <1>10. CASE n = 4
    <2>1. TestCommitted /\ req = TestScript[3] /\ req.op = "Emit"
      BY <1>10, HostScriptIs, TestScriptIs DEF StageAfter
    <2>2. reply' = "Ok" /\ TestCommitted'
      BY <1>3, <1>10, <2>1, TestEmits
    <2>3. IsExpected(5, AnswerOf(req.op, "Ok"))
      <3>1. AnswerOf(req.op, "Ok").release # {}
        BY <2>1 DEF AnswerOf, ok, base
      <3> QED BY <1>1, <3>1 DEF IsExpected
    <2>4. StageAfter(5)'
      BY <2>2 DEF StageAfter
    <2> QED BY <1>5, <1>10, <2>2, <2>3, <2>4
  <1>11. CASE n = 5
    <2>1. TestCommitted /\ req = TestScript[4] /\ req.op = "Finalize"
      BY <1>11, HostScriptIs, TestScriptIs DEF StageAfter
    <2>2. (reply' = "Ok" /\ TestFinalized') \/ reply' = "Tropic"
      BY <1>3, <1>11, <2>1, TestFinalizes
    <2>3. IsExpected(6, AnswerOf(req.op, "Ok"))
      <3>1. AnswerOf(req.op, "Ok").active_root = {TestTransition.next_root}
        BY <2>1 DEF AnswerOf, ok, base, TestCommitted, IsTestRelease
      <3> QED BY <1>1, <3>1 DEF IsExpected
    <2>4. reply' = "Ok" => StageAfter(6)'
      BY <2>2 DEF StageAfter
    <2> QED BY <1>4, <1>5, <1>11, <2>2, <2>3, <2>4
  <1>12. CASE n = 6
    <2>1. TestFinalized /\ TestFinalized'
      BY <1>2, <1>12 DEF StageAfter, TestFinalized, vars, durable, volatile,
        chipVars
    <2>2. IsExpected(7, Report)
      BY <1>2, <1>12, <2>1 DEF IsExpected, TestFinalized
    <2> QED BY <1>2, <1>12, <2>1, <2>2 DEF StageAfter
  <1>13. n \in {0, 1, 2, 3, 4, 5, 6}
    OBVIOUS
  <1> QED BY <1>6, <1>7, <1>8, <1>9, <1>10, <1>11, <1>12, <1>13

LEMMA ReadyKept ==
  ASSUME FInv, FInv', HostInv, AdvanceInv, ReadyInv, [HostNext]_benchVars
  PROVE  ReadyInv'
  <1>0. /\ since \in Nat /\ Len(toDevice) \in Nat /\ Busy \in {0, 1}
    BY Lengths, MaxScriptsAssumption DEF HostInv, ScriptInv
  <1>1. ASSUME UNCHANGED deviceVars,
               since' = 0 \/ (script' = "quiet" /\ since' = 1) =>
                 since = 0 \/ (script = "quiet" /\ since = 1)
        PROVE  ReadyInv'
    <2>1. UNCHANGED <<phase, wasted, pc>> /\ TestPreparing' = TestPreparing
      BY <1>1 DEF deviceVars, firmwareVars, servedVars, vars, durable, volatile,
        chipVars, history, TestPreparing, IsTestRecord
    <2> QED BY <1>1, <2>1 DEF ReadyInv
  <1>2. CASE OpenPort
    BY <1>0, <1>1, <1>2 DEF OpenPort
  <1>3. CASE \/ Drain \/ Quiet \/ Ask \/ Answered \/ ReadsLog \/ GivesUp
             \/ Finish \/ UNCHANGED benchVars
    BY <1>1, <1>3 DEF Drain, Quiet, Ask, Answered, ReadsLog, GivesUp, Finish,
      scriptVars, hostVars, benchVars
  <1>4. CASE Boots
    <2>1. CASE Recover
      <3>1. AsMade /\ pc \in {"boot", "recover_read"}
        BY <2>1 DEF AdvanceInv, Recover
      <3>2. /\ UNCHANGED <<h, root, u, status, record, wasted>>
            /\ phase' = IF pc' = "idle" THEN "serving" ELSE "recover"
        BY <2>1, <3>1, RecoverAsMade
      <3>3. wasted \in Nat /\ H0 \in Nat
        BY H0Assumption DEF FInv, IInv, TypeOK
      <3>4. phase' = "serving" => wasted' > 0 \/ (TestPreparing' /\ pc' = "idle")
        BY <3>1, <3>2, <3>3 DEF AsMade, TestPreparing
      <3> QED BY <3>4 DEF ReadyInv
    <2>2. CASE \/ SessionStart \/ SessionFails \/ EnrollForTest
               \/ EnrollForTestFails \/ SelfTest \/ EnrollAgain
      BY <2>2 DEF SessionStart, SessionFails, EnrollForTest,
        EnrollForTestFails, SelfTest, EnrollAgain, ReadyInv
    <2> QED BY <1>4, <2>1, <2>2 DEF Boots, Firmware
  <1>5. CASE ServesRequest \/ ServesOn
    <2>1. PICK tag : ServedStep(tag)
      BY <1>5, ServeShape DEF HostInv
    <2>2. Busy = 0 => Len(toDevice) >= 1
      BY <2>1, Moves DEF HostInv
    <2>3. ~(Busy + Len(toDevice) = 0)
      BY <1>0, <2>2
    <2>4. ~(since = 0 \/ (script = "quiet" /\ since = 1))
      BY <2>3, FirstBacklog DEF HostInv
    <2> QED BY <2>1, <2>4 DEF ServedStep, scriptVars, ReadyInv
  <1>6. CASE PowerCut
    BY <1>6 DEF PowerCut, PowerCycle, ReadyInv
  <1> QED BY <1>2, <1>3, <1>4, <1>5, <1>6 DEF HostNext, Script

LEMMA RunKept ==
  ASSUME FInv, FInv', HostInv, AdvanceInv, ReadyInv, ReadyInv', RunInv,
         ScriptInv', PortInv', BacklogInv', OrderInv', [HostNext]_benchVars
  PROVE  RunInv'
  <1>0. /\ since \in Nat /\ Len(toDevice) \in Nat /\ Busy \in {0, 1}
        /\ Len(got) \in Nat /\ Len(toHost) \in Nat
    BY Lengths, MaxScriptsAssumption DEF HostInv, ScriptInv
  <1>1. ASSUME UNCHANGED deviceVars
        PROVE  /\ UNCHANGED <<phase, wasted, pc, Busy>>
               /\ TestPreparing' = TestPreparing
               /\ \A n : StageAfter(n)' = StageAfter(n)
    BY <1>1 DEF deviceVars, firmwareVars, servedVars, serviceVars, vars,
      durable, volatile, chipVars, history, TestPreparing, TestCommitting,
      TestCommitted, TestFinalized, IsTestRecord, IsTestRelease, IsCommitted,
      StageAfter, Busy
  <1>2. CASE OpenPort \/ Drain \/ ReadsLog \/ GivesUp \/ Finish \/ PowerCut
    <2>1. ~Talking'
      BY <1>2 DEF OpenPort, Drain, ReadsLog, GivesUp, Finish, PowerCut,
        scriptVars, Talking
    <2> QED BY <2>1 DEF RunInv
  <1>3. CASE Quiet
    <2> SUFFICES ASSUME phase = "serving", since = 1, wasted = 0
                 PROVE  RunExpected'
      <3>1. wasted \in Nat
        BY DEF FInv, IInv, TypeOK
      <3> QED BY <1>1, <1>3, <3>1 DEF Quiet, RunInv, RunDisturbed
    <2>1. /\ UNCHANGED deviceVars /\ UNCHANGED <<toHost, toDevice, got>>
          /\ script = "quiet" /\ toHost = <<>> /\ got = <<>> /\ script' = "ask"
      BY <1>3 DEF Quiet, portVars, HostInv, ScriptInv
    <2>2. Len(got') = 0 /\ Len(toHost') = 0 /\ Asked' = 0
      BY <2>1, NothingIsSeq DEF Asked
    <2>3. Busy + Len(toDevice) = 0
      BY <2>1, FirstBacklog DEF HostInv
    <2>4. TestPreparing' /\ Asked' - Busy' - Len(toDevice') = 0
      BY <1>0, <1>1, <2>1, <2>2, <2>3 DEF ReadyInv
    <2>5. StageAfter(Asked - Busy - Len(toDevice))'
      BY <2>4 DEF StageAfter
    <2> QED BY <2>2, <2>5 DEF RunExpected
  <1>4. CASE Ask
    <2>1. /\ UNCHANGED deviceVars /\ UNCHANGED <<toHost, got, since>>
          /\ Talking /\ Asked' = Asked + 1 /\ Asked \in Nat
      BY <1>0, <1>4 DEF Ask, Talking, Asked
    <2>2. Len(toDevice') = Len(toDevice) + 1
      BY <1>4, AskShape DEF HostInv
    <2>3. Asked' - Busy' - Len(toDevice') = Asked - Busy - Len(toDevice)
      BY <1>0, <1>1, <2>1, <2>2
    <2>4. StageAfter(Asked - Busy - Len(toDevice)) =>
            StageAfter(Asked - Busy - Len(toDevice))'
      BY <1>1, <2>1, <2>3 DEF StageAfter
    <2> QED BY <1>1, <2>1, <2>4 DEF RunInv, RunDisturbed, RunExpected
  <1>5. CASE Answered
    <2>1. /\ UNCHANGED deviceVars /\ UNCHANGED <<toDevice, since>>
          /\ Talking /\ Asked = Len(got) + 1 /\ Asked' = Len(got')
      BY <1>5 DEF Answered, Talking, Asked
    <2>2. /\ Len(toHost) >= 1 /\ Len(toHost') = Len(toHost) - 1
          /\ \A j \in 1..Len(toHost') : toHost'[j] = toHost[j + 1]
          /\ Len(got') = Len(got) + 1 /\ got'[Len(got) + 1] = toHost[1]
          /\ \A i \in 1..Len(got) : got'[i] = got[i]
          /\ toHost[1] # Log
      BY <1>5, AnsweredShape, LogIsNoAnswer DEF HostInv
    <2>3. /\ \A i \in 1..Len(got') : i \in 1..Len(got) \/ i = Len(got) + 1
          /\ \A j \in 1..Len(toHost') : j + 1 \in 1..Len(toHost)
          /\ \A i \in 1..Len(got) : i \in 1..Len(got')
          /\ Len(got) + 1 \in 1..Len(got') /\ 1 \in 1..Len(toHost)
      BY <1>0, <2>2
    <2>4. CASE wasted > 0
      BY <1>1, <2>1, <2>4 DEF RunInv, RunDisturbed
    <2>5. ASSUME NEW i \in 1..Len(got), TellsOfChip(got[i].response)
          PROVE  RunDisturbed'
      <3>1. i \in 1..Len(got') /\ got'[i] = got[i]
        BY <2>2, <2>3
      <3> QED BY <2>5, <3>1 DEF RunDisturbed, TellsOfChip
    <2>6. ASSUME NEW j \in 1..Len(toHost), TellsOfChip(toHost[j].response)
          PROVE  RunDisturbed'
      <3>1. CASE j = 1
        BY <2>2, <2>3, <2>6, <3>1 DEF RunDisturbed, TellsOfChip
      <3>2. CASE j # 1
        <4>1. PICK k \in 1..Len(toHost') : j = k + 1
          <5>1. j - 1 \in 1..Len(toHost') /\ j = (j - 1) + 1
            BY <1>0, <2>2, <3>2
          <5> QED BY <5>1
        <4>2. toHost'[k] = toHost[j]
          BY <2>2, <4>1
        <4> QED BY <2>6, <4>1, <4>2 DEF RunDisturbed, TellsOfChip
      <3> QED BY <3>1, <3>2
    <2>7. ASSUME RunExpected PROVE RunExpected'
      <3>1. \A i \in 1..Len(got') : IsExpected(got'[i].tag[2], got'[i].response)
        BY <2>2, <2>3, <2>7 DEF RunExpected
      <3>2. ASSUME NEW j \in 1..Len(toHost'), toHost'[j] # Log
            PROVE  IsExpected(toHost'[j].tag[2], toHost'[j].response)
        <4>1. j + 1 \in 1..Len(toHost) /\ toHost'[j] = toHost[j + 1]
          BY <2>2, <2>3
        <4> QED BY <2>7, <3>2, <4>1 DEF RunExpected
      <3>3. Asked' - Busy' - Len(toDevice') = Asked - Busy - Len(toDevice)
        BY <1>1, <2>1, <2>2
      <3>4. StageAfter(Asked - Busy - Len(toDevice))'
        BY <1>1, <2>1, <2>7, <3>3 DEF RunExpected, StageAfter
      <3> QED BY <3>1, <3>2, <3>4 DEF RunExpected, IsExpected, Log
    <2> QED BY <1>1, <2>1, <2>4, <2>5, <2>6, <2>7 DEF RunInv, RunDisturbed
  <1>6. CASE Boots
    <2>1. /\ phase # "serving" /\ Busy = 0 /\ Busy' = 0
          /\ UNCHANGED <<script, since, got, toDevice>>
          /\ toHost' = toHost \/ toHost' = Append(toHost, Log)
      BY <1>6, BootShape
    <2> SUFFICES ASSUME phase' = "serving", Talking, since = 1, wasted' = 0
                 PROVE  RunExpected'
      <3>1. wasted' \in Nat
        BY DEF FInv, IInv, TypeOK
      <3> QED BY <2>1, <3>1 DEF RunInv, RunDisturbed, Talking
    <2>2. Len(got') = 0 /\ Busy' + Len(toDevice') = Asked'
      BY <2>1, FirstBacklog DEF HostInv, Asked
    <2>3. Asked' - Busy' - Len(toDevice') = 0
      BY <1>0, <2>1, <2>2
    <2>4. Recover /\ AsMade /\ pc \in {"boot", "recover_read"}
      BY <1>6, <2>1 DEF Boots, Firmware, SessionStart, SessionFails,
        EnrollForTest, EnrollForTestFails, SelfTest, EnrollAgain, Recover,
        AdvanceInv
    <2>5. UNCHANGED <<h, root, u, status, record, wasted>> /\ pc' = "idle"
      BY <2>4, RecoverAsMade DEF Recover
    <2>6. TestPreparing'
      BY <2>4, <2>5, H0Assumption DEF AsMade, TestPreparing
    <2>7. StageAfter(Asked - Busy - Len(toDevice))'
      BY <2>3, <2>6 DEF StageAfter
    <2>8. \A j \in 1..Len(toHost') : toHost'[j] = Log
      <3>1. PICK m \in 0..Len(toHost) : IsLogs(m)
        BY DEF HostInv, BacklogInv
      <3>2. \A j \in 1..Len(toHost) : toHost[j] = Log
        BY <2>1, <3>1 DEF IsLogs
      <3>3. CASE toHost' = Append(toHost, Log)
        <4>1. /\ Len(toHost') = Len(toHost) + 1 /\ toHost'[Len(toHost) + 1] = Log
              /\ \A j \in 1..Len(toHost) : toHost'[j] = toHost[j]
          BY <3>3, Longer DEF HostInv, PortInv
        <4> QED BY <1>0, <3>2, <4>1
      <3> QED BY <2>1, <3>2, <3>3
    <2> QED BY <2>2, <2>7, <2>8 DEF RunExpected, Log
  <1>7. CASE ServesRequest \/ ServesOn
    <2>1. PICK tag : ServedStep(tag)
      BY <1>7, ServeShape DEF HostInv
    <2>2. /\ phase = "serving" /\ UNCHANGED <<script, since, scripts, got>>
      BY <2>1 DEF ServedStep, scriptVars
    <2> SUFFICES ASSUME Talking, since = 1 PROVE RunDisturbed' \/ RunExpected'
      BY <2>2 DEF RunInv, Talking
    <2>3. wasted' = wasted
      BY <1>7, ServedIsService, WastedKept DEF HostInv
    <2>4. /\ Len(toHost') \in Nat /\ Len(toDevice') \in Nat /\ Busy' \in {0, 1}
          /\ Busy' = 1 => Len(toHost') = Len(toHost)
          /\ Busy' = 0 => Len(toHost') = Len(toHost) + 1
          /\ Busy = 0 => /\ Len(toDevice') = Len(toDevice) - 1
                         /\ Len(toDevice) >= 1 /\ tag = toDevice[1].tag
          /\ Busy = 1 => Len(toDevice') = Len(toDevice) /\ tag = asker
          /\ \A j \in 1..Len(toHost) : toHost'[j] = toHost[j]
      BY <2>1, Moves DEF HostInv
    <2>5. \A j \in 1..Len(toHost) : j \in 1..Len(toHost')
      BY <1>0, <2>4
    <2>6. CASE RunDisturbed
      BY <2>2, <2>3, <2>4, <2>5, <2>6 DEF RunDisturbed, TellsOfChip
    <2>7. CASE RunExpected
      <3>1. /\ script = "wait" /\ Busy + Len(toDevice) = 1 /\ Asked = Len(got) + 1
            /\ Len(got) \in 0..6 /\ Len(toDevice') = 0
            /\ Asked' = Asked
        <4>1. Busy + Len(toDevice) >= 1
          BY <1>0, <2>4
        <4>2. script = "wait" /\ Busy + Len(toDevice) <= 1
          BY <1>0, <4>1, FirstBacklog DEF Talking, HostInv
        <4>3. Len(got) \in 0..6
          <5>1. Len(got) < Calls
            BY <4>2 DEF HostInv, ScriptInv
          <5>2. Calls = 7
            BY HostScriptIs
          <5>3. Len(got) < 7
            BY <5>1, <5>2
          <5>4. Len(got) \in Nat
            BY <1>0
          <5>5. \A n \in Nat : n < 7 => n \in 0..6
            OBVIOUS
          <5> QED BY <5>3, <5>4, <5>5
        <4> QED BY <1>0, <2>2, <2>4, <4>1, <4>2, <4>3 DEF Asked
      <3>2. tag[2] = Len(got) + 1
        <4>1. tag = <<scripts, Asked>>
          <5>1. CASE Busy = 1
            BY <2>4, <5>1, FirstBacklog DEF HostInv
          <5>2. CASE Busy = 0
            <6>1. Len(toDevice) = 1
              BY <1>0, <3>1, <5>2
            <6> QED BY <2>4, <5>2, <6>1, FirstBacklog DEF HostInv
          <5> QED BY <1>0, <5>1, <5>2
        <4> QED BY <3>1, <4>1
      <3>3. StageAfter(Len(got))
        <4>1. Asked - Busy - Len(toDevice) = Len(got)
          BY <1>0, <3>1
        <4> QED BY <2>7, <4>1 DEF RunExpected
      <3>a. PICK n \in 0..6 : n = Len(got)
        BY <3>1
      <3>4. \/ GoesOn(HostScript[n + 1]) /\ StageAfter(n)'
            \/ \E a : /\ toHost' = toHost \o <<Message(tag, a)>> /\ serving' = {}
                      /\ \/ TellsOfChip(a)
                         \/ IsExpected(n + 1, a) /\ StageAfter(n + 1)'
        <4>1. tag[2] = n + 1 /\ StageAfter(n)
          BY <3>2, <3>3, <3>a
        <4> QED BY <2>1, <4>1, StageServed
      <3>5. CASE GoesOn(HostScript[n + 1]) /\ StageAfter(n)'
        <4>1. toHost' = toHost /\ Busy' = 1
          BY <2>1, <3>5 DEF GoesOn, Busy, ServedStep
        <4>2. Asked' - Busy' - Len(toDevice') = n
          BY <1>0, <2>2, <3>1, <3>a, <4>1
        <4>3. StageAfter(Asked - Busy - Len(toDevice))'
          BY <3>5, <4>2 DEF StageAfter
        <4> QED BY <2>2, <2>7, <4>1, <4>3 DEF RunExpected, IsExpected, Log
      <3>6. ASSUME NEW a, toHost' = toHost \o <<Message(tag, a)>>, serving' = {},
                   TellsOfChip(a) \/ (IsExpected(n + 1, a) /\ StageAfter(n + 1)')
            PROVE  RunDisturbed' \/ RunExpected'
        <4> DEFINE e == Message(tag, a)
        <4>1. e.tag = tag /\ e.response = a
          BY DEF Message
        <4>2. toHost' = toHost \o <<e>>
          BY <3>6
        <4> HIDE DEF e
        <4>3. /\ Len(toHost') = Len(toHost) + 1 /\ toHost'[Len(toHost) + 1] = e
          BY <4>2, Longer DEF HostInv, PortInv
        <4>4. /\ Len(toHost) + 1 \in 1..Len(toHost')
              /\ \A j \in 1..Len(toHost') : j \in 1..Len(toHost) \/ j = Len(toHost) + 1
          BY <1>0, <4>3
        <4>5. CASE TellsOfChip(a)
          BY <4>1, <4>3, <4>4, <4>5 DEF RunDisturbed, TellsOfChip
        <4>6. CASE IsExpected(n + 1, a) /\ StageAfter(n + 1)'
          <5>1. Busy' = 0
            BY <3>6 DEF Busy
          <5>2. Asked' - Busy' - Len(toDevice') = n + 1
            BY <1>0, <2>2, <3>1, <3>a, <5>1
          <5>3. StageAfter(Asked - Busy - Len(toDevice))'
            BY <4>6, <5>2 DEF StageAfter
          <5>4. ASSUME NEW j \in 1..Len(toHost'), toHost'[j] # Log
                PROVE  IsExpected(toHost'[j].tag[2], toHost'[j].response)
            <6>1. CASE j \in 1..Len(toHost)
              BY <2>4, <2>7, <5>4, <6>1 DEF RunExpected
            <6>2. CASE j = Len(toHost) + 1
              BY <3>2, <3>a, <4>1, <4>3, <4>6, <6>2
            <6> QED BY <4>4, <6>1, <6>2
          <5> QED BY <2>2, <2>7, <5>3, <5>4 DEF RunExpected, IsExpected, Log
        <4> QED BY <3>6, <4>5, <4>6
      <3> QED BY <3>4, <3>5, <3>6
    <2> QED BY <2>2, <2>6, <2>7 DEF RunInv
  <1>8. CASE UNCHANGED benchVars
    <2>1. /\ UNCHANGED deviceVars
          /\ UNCHANGED <<script, since, got, toHost, toDevice>>
      BY <1>8 DEF benchVars, hostVars, scriptVars, portVars
    <2>2. UNCHANGED <<Asked, Talking>>
      BY <2>1 DEF Asked, Talking
    <2>3. StageAfter(Asked - Busy - Len(toDevice)) =>
            StageAfter(Asked - Busy - Len(toDevice))'
      BY <1>1, <2>1, <2>2 DEF StageAfter
    <2> QED BY <1>1, <2>1, <2>2, <2>3 DEF RunInv, RunDisturbed, RunExpected
  <1> QED BY <1>2, <1>3, <1>4, <1>5, <1>6, <1>7, <1>8 DEF HostNext, Script

(* The seven answers of the first run are its own, in their order.         *)
LEMMA FirstOwn ==
  ASSUME ScriptInv, PortInv, BacklogInv, OrderInv, script = "ask", since = 1,
         Len(got) = Calls
  PROVE  Len(toHost) = 0 /\ \A i \in 1..7 : got[i].tag = <<scripts, i>>
  <1>0. /\ Len(toHost) \in Nat /\ Len(toDevice) \in Nat /\ Len(got) = 7
        /\ Busy \in {0, 1}
    BY Lengths, HostScriptIs
  <1>1. Len(toHost) = 0 /\ Busy = 0 /\ Len(toDevice) = 0
    BY <1>0, FirstBacklog
  <1>2. ASSUME NEW i \in 1..7 PROVE got[i].tag = <<scripts, i>>
    <2>1. Talking /\ Asked = 7 /\ i \in 1..Len(got)
      BY <1>0 DEF Talking, Asked
    <2>2. /\ Len(got) - i + Len(toHost) + Busy + Len(toDevice) = 7 - i
          /\ 7 - i < 7 /\ 7 - (7 - i) = i
      BY <1>0, <1>1
    <2> QED BY <2>1, <2>2 DEF OrderInv, Own
  <1> QED BY <1>1, <1>2

LEMMA FirstFails ==
  /\ ScriptInv /\ PortInv /\ BacklogInv /\ OrderInv /\ RunInv
  /\ script = "ask" /\ since = 1 /\ Len(got) = Calls /\ ~HostPasses
  => wasted > 0 \/ \E i \in 1..Calls : TellsOfChip(got[i].response)
  <1> SUFFICES ASSUME ScriptInv, PortInv, BacklogInv, OrderInv, RunInv,
                      script = "ask", since = 1, Len(got) = Calls, ~HostPasses
               PROVE  wasted > 0 \/ \E i \in 1..Calls : TellsOfChip(got[i].response)
    OBVIOUS
  <1>1. Len(toHost) = 0 /\ Len(got) = 7 /\ \A i \in 1..7 : got[i].tag = <<scripts, i>>
    BY FirstOwn, HostScriptIs
  <1>2. phase = "serving" /\ Talking
    BY <1>1 DEF ScriptInv, Talking
  <1>3. CASE RunDisturbed
    BY <1>1, <1>3 DEF RunDisturbed
  <1>4. CASE RunExpected
    <2>1. \A i \in 1..7 : IsExpected(i, got[i].response)
      <3> SUFFICES ASSUME NEW i \in 1..7 PROVE IsExpected(i, got[i].response)
        OBVIOUS
      <3>1. got[i].tag[2] = i
        BY <1>1
      <3> QED BY <1>1, <1>4, <3>1 DEF RunExpected
    <2>2. Calls = 7
      BY HostScriptIs
    <2>3. HostPasses
      BY <2>1, <2>2 DEF HostPasses, IsExpected
    <2> QED BY <2>3
  <1> QED BY <1>2, <1>3, <1>4 DEF RunInv

LEMMA FailKept ==
  ASSUME FInv, FInv', HostInv, FailInv, RunInv',
         ScriptInv', PortInv', BacklogInv', OrderInv', [HostNext]_benchVars
  PROVE  FailInv'
  <1>1. CASE Answered
    <2>1. script' = "ask"
      BY <1>1 DEF Answered
    <2>2. (/\ ScriptInv /\ PortInv /\ BacklogInv /\ OrderInv /\ RunInv
           /\ script = "ask" /\ since = 1 /\ Len(got) = Calls /\ ~HostPasses
           => wasted > 0 \/ \E i \in 1..Calls : TellsOfChip(got[i].response))'
      BY FirstFails, PTL
    <2> QED BY <2>1, <2>2 DEF FailInv
  <1>2. ASSUME got' = <<>> PROVE FailInv'
    BY <1>2, NothingIsSeq, HostScriptIs DEF FailInv
  <1>3. CASE OpenPort \/ ReadsLog \/ GivesUp
    BY <1>2, <1>3 DEF OpenPort, ReadsLog, GivesUp
  <1>4. ASSUME got' = got, since' = since, wasted' = wasted PROVE FailInv'
    BY <1>4, PassesSame DEF FailInv, TellsOfChip
  <1>5. CASE Drain \/ Quiet \/ Ask \/ Finish \/ UNCHANGED benchVars
    BY <1>4, <1>5, DeviceSame DEF Drain, Quiet, Ask, Finish, scriptVars,
      hostVars, benchVars
  <1>6. CASE ServesRequest \/ ServesOn
    <2>1. UNCHANGED <<got, since>>
      BY <1>6 DEF ServesRequest, ServesOn, Serves, scriptVars
    <2>2. wasted' = wasted
      BY <1>6, ServedIsService, WastedKept DEF HostInv
    <2> QED BY <1>4, <2>1, <2>2
  <1>7. CASE Boots
    <2>1. phase # "serving" /\ UNCHANGED <<got, since>>
      BY <1>7, BootShape
    <2>2. ~(since > 0 /\ Len(got) > 0)
      BY <2>1 DEF HostInv, ScriptInv
    <2>3. Calls = 7
      BY HostScriptIs
    <2>4. ~(Len(got) = Calls /\ since = 1)
      BY <2>2, <2>3
    <2> QED BY <2>1, <2>4 DEF FailInv
  <1>8. CASE PowerCut
    BY <1>8 DEF PowerCut, FailInv
  <1> QED BY <1>1, <1>3, <1>5, <1>6, <1>7, <1>8 DEF HostNext, Script

(* What the first run after power-up reads is what PASS asks for, or some  *)
(* answer of it tells of the chip.                                         *)
THEOREM FirstRunInductive == HostSpec => []FirstRunInv
  <1>1. HostInit => FirstRunInv
    BY NothingIsSeq, HostScriptIs DEF HostInit, FirmwareInit, FirstRunInv,
      ReadyInv, RunInv, FailInv, Talking
  <1>2. FInv /\ FInv' /\ HostInv /\ HostInv' /\ AdvanceInv /\ FirstRunInv
          /\ [HostNext]_benchVars => FirstRunInv'
    <2> SUFFICES ASSUME FInv, FInv', HostInv, HostInv', AdvanceInv, FirstRunInv,
                        [HostNext]_benchVars
                 PROVE  FirstRunInv'
      OBVIOUS
    <2>1. ReadyInv /\ RunInv /\ FailInv
      BY DEF FirstRunInv
    <2>2. ScriptInv' /\ PortInv' /\ BacklogInv' /\ OrderInv'
      BY DEF HostInv
    <2>3. ReadyInv'
      BY <2>1, ReadyKept
    <2>4. RunInv'
      BY <2>1, <2>2, <2>3, RunKept
    <2>5. FailInv'
      BY <2>1, <2>2, <2>4, FailKept
    <2> QED BY <2>3, <2>4, <2>5 DEF FirstRunInv
  <1>3. HostSpec => []FInv
    BY HostImplementsFirmware, FirmwareInductive, PTL
  <1> QED BY <1>1, <1>2, <1>3, HostInductive, AnswersAreTrue, PTL DEF HostSpec

(* The first script after power-up prints FAIL only if the chip failed, or *)
(* its counter had already moved when the appliance was made.              *)
THEOREM FailIsADisturbance == HostSpec => []FailMeansDisturbed
  <1>1. HostInv /\ FirstRunInv => FailMeansDisturbed
    BY DEF HostInv, ScriptInv, FirstRunInv, FailInv, FailMeansDisturbed,
      TellsOfChip
  <1> QED BY <1>1, HostInductive, FirstRunInductive, PTL
=============================================================================
