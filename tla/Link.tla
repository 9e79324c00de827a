--------------------------------- MODULE Link ---------------------------------
(***************************************************************************)
(* The byte stream between call of anchor_host_test.py and serve_forever   *)
(* of main.rs: frames with a little-endian length in front, cut into       *)
(* chunks that need not be frames, reassembled in a bounded buffer.        *)
(*                                                                         *)
(* call writes a frame and reads the answer, its length first; it gives up *)
(* after a timeout, and os.write may have taken only a part of the frame.  *)
(* The next script drains what has arrived and calls again.  The stream to *)
(* the device loses nothing; to the host the device writes as room allows, *)
(* and an error ends a write_all early.                                    *)
(***************************************************************************)
EXTENDS Integers, Sequences

CONSTANTS
  Base,           \* bytes are 0..Base-1
  PrefixLen,      \* bytes of the length in front, 4
  Weight,         \* what a one in each of them counts, 1, 256, 65536, ...
  MaxRxFrame,     \* MAX_RX_FRAME
  Chunk,          \* bytes one serial.read returns at most, 64
  Room,           \* bytes the device can write ahead of the host
  Bodies,         \* what hosts send
  Response(_),    \* the answer of handle to a frame
  MaxCalls        \* bound on calls

Byte == 0..(Base - 1)
Lengths == 0..(Base * Weight[PrefixLen] - 1)
little_endian(n) == [i \in 1..PrefixLen |-> (n \div Weight[i]) % Base]
from_le_bytes(bytes) ==
  CHOOSE n \in Lengths : little_endian(n) = SubSeq(bytes, 1, PrefixLen)

ASSUME WeightAssumption ==
  /\ Base \in Nat \ {0} /\ PrefixLen \in Nat \ {0}
  /\ Weight \in [1..PrefixLen -> Nat \ {0}] /\ Weight[1] = 1
  /\ \A i \in 2..PrefixLen : Weight[i] = Base * Weight[i - 1]
ASSUME LinkAssumption ==
  /\ MaxRxFrame \in Lengths
  /\ Chunk \in Nat \ {0} /\ Room \in Nat \ {0} /\ MaxCalls \in Nat
  /\ \A b \in Bodies : b \in Seq(Byte) /\ Len(b) \in Lengths
(* Whatever bytes a frame holds, the answer fits the length in front of it. *)
ASSUME ResponseAssumption ==
  \A n \in 0..MaxRxFrame : \A frame \in [1..n -> Byte] :
    Response(frame) \in Seq(Byte) /\ Len(Response(frame)) \in Lengths

VARIABLES
  pc,         \* the serve loop: "read", "extract" or "write"
  rx,         \* its receive buffer
  out,        \* what its two write_all have yet to write
  wire,       \* bytes on their way to the device
  back,       \* bytes on their way to the host
  calling,    \* a call is waiting
  inbuf,      \* what it has read
  sent,       \* the bodies of all calls
  served,     \* the frames given to handle
  returned,   \* what the calls returned
  tidy,       \* every frame went out whole, and all that was outstanding
              \* fitted in the receive buffer
  patient     \* no call gave up and no write_all ended early

device == <<pc, rx, out>>
host == <<calling, inbuf>>
record == <<sent, served, returned, tidy, patient>>
linkVars == <<device, wire, back, host, record>>

Frame(body) == little_endian(Len(body)) \o body
Drop(bytes, n) == SubSeq(bytes, n + 1, Len(bytes))
AtMost(m, n) == IF m < n THEN m ELSE n

LinkInit ==
  /\ pc = "read" /\ rx = <<>> /\ out = <<>> /\ wire = <<>> /\ back = <<>>
  /\ calling = FALSE /\ inbuf = <<>>
  /\ sent = <<>> /\ served = <<>> /\ returned = <<>>
  /\ tidy = TRUE /\ patient = TRUE

-----------------------------------------------------------------------------
(* call                                                                    *)

(* os.write takes n bytes of the frame.                                    *)
Call(body, n) ==
  /\ ~calling /\ Len(sent) < MaxCalls
  /\ calling' = TRUE
  /\ sent' = Append(sent, body)
  /\ wire' = wire \o SubSeq(Frame(body), 1, n)
  /\ tidy' = (tidy /\ n = Len(Frame(body)) /\ Len(body) <= MaxRxFrame
               /\ Len(rx) + Len(wire) + n <= MaxRxFrame + PrefixLen)
  /\ UNCHANGED <<device, back, inbuf, served, returned, patient>>

(* read_n never reads past the length it is after: of the header first,    *)
(* then of the body.                                                       *)
Awaited(bytes) ==
  IF Len(bytes) < PrefixLen THEN PrefixLen - Len(bytes)
  ELSE PrefixLen + from_le_bytes(bytes) - Len(bytes)

HostReads(n) ==
  /\ calling /\ n \in 1..AtMost(Awaited(inbuf), Len(back))
  /\ back' = Drop(back, n)
  /\ LET got == inbuf \o SubSeq(back, 1, n)
     IN  IF Awaited(got) = 0
         THEN /\ returned' = Append(returned, Drop(got, PrefixLen))
              /\ calling' = FALSE /\ inbuf' = <<>>
         ELSE /\ inbuf' = got /\ UNCHANGED <<calling, returned>>
  /\ UNCHANGED <<device, wire, sent, served, tidy, patient>>

(* TimeoutError, and the script ends.                                      *)
GivesUp ==
  /\ calling
  /\ calling' = FALSE /\ inbuf' = <<>> /\ patient' = FALSE
  /\ UNCHANGED <<device, wire, back, sent, served, returned, tidy>>

(* read_until_quiet of the next script.                                    *)
Drains ==
  /\ ~calling /\ ~patient /\ back # <<>>
  /\ back' = <<>>
  /\ UNCHANGED <<device, wire, host, record>>

-----------------------------------------------------------------------------
(* serve_forever                                                           *)

(* Mutant: no cap.                                                         *)
ReceivedUncapped(chunk) == rx \o chunk
(* Mutant: the cap is one byte short.                                      *)
ReceivedBelowCap(chunk) ==
  IF Len(rx) + Len(chunk) >= MaxRxFrame + PrefixLen THEN <<>> ELSE rx \o chunk

(* The buffer with the chunk; too much for it clears both.                 *)
Received(chunk) ==
  IF Len(rx) + Len(chunk) > MaxRxFrame + PrefixLen THEN <<>> ELSE rx \o chunk

DeviceReads(n) ==
  /\ pc = "read" /\ n \in 1..AtMost(Chunk, Len(wire))
  /\ wire' = Drop(wire, n)
  /\ rx' = Received(SubSeq(wire, 1, n))
  /\ pc' = "extract"
  /\ UNCHANGED <<out, back, host, record>>

Announced == from_le_bytes(rx)

(* Out of the while loop: no frame is complete.                            *)
Incomplete ==
  IF Len(rx) < PrefixLen THEN TRUE
  ELSE Announced <= MaxRxFrame /\ Len(rx) < PrefixLen + Announced

AwaitMore ==
  /\ pc = "extract" /\ Incomplete
  /\ pc' = "read"
  /\ UNCHANGED <<rx, out, wire, back, host, record>>

(* A length over the cap clears all.                                       *)
DropOversized ==
  /\ pc = "extract" /\ Len(rx) >= PrefixLen /\ Announced > MaxRxFrame
  /\ rx' = <<>> /\ pc' = "read"
  /\ UNCHANGED <<out, wire, back, host, record>>

ServeFrame ==
  /\ pc = "extract" /\ Len(rx) >= PrefixLen
  /\ Announced <= MaxRxFrame /\ Len(rx) >= PrefixLen + Announced
  /\ LET frame == SubSeq(rx, PrefixLen + 1, PrefixLen + Announced)
     IN  /\ served' = Append(served, frame)
         /\ out' = <<little_endian(Len(Response(frame))), Response(frame)>>
  /\ pc' = "write"
  /\ UNCHANGED <<rx, wire, back, host, sent, returned, tidy, patient>>

(* Mutant: what write did not take is not written.                         *)
WritesOnce(n) ==
  /\ pc = "write" /\ out # <<>>
  /\ n \in 0..AtMost(Len(Head(out)), Room - Len(back))
  /\ n = 0 => Head(out) = <<>>
  /\ back' = back \o SubSeq(Head(out), 1, n)
  /\ out' = Tail(out)
  /\ UNCHANGED <<pc, rx, wire, host, record>>

(* write_all: n bytes go out, as many as there is room for.                *)
Writes(n) ==
  /\ pc = "write" /\ out # <<>>
  /\ n \in 0..AtMost(Len(Head(out)), Room - Len(back))
  /\ n = 0 => Head(out) = <<>>
  /\ back' = back \o SubSeq(Head(out), 1, n)
  /\ out' = IF n = Len(Head(out)) THEN Tail(out)
            ELSE <<Drop(Head(out), n)>> \o Tail(out)
  /\ UNCHANGED <<pc, rx, wire, host, record>>

WriteFails ==
  /\ pc = "write" /\ out # <<>> /\ Head(out) # <<>>
  /\ out' = Tail(out) /\ patient' = FALSE
  /\ UNCHANGED <<pc, rx, wire, back, host, sent, served, returned, tidy>>

(* Mutant: back to reading after one frame, if in the place of while.      *)
DrainAndRead ==
  /\ pc = "write" /\ out = <<>>
  /\ rx' = Drop(rx, PrefixLen + Announced)
  /\ pc' = "read"
  /\ UNCHANGED <<out, wire, back, host, record>>
(* Mutant: clear in the place of drain.                                    *)
DrainAll ==
  /\ pc = "write" /\ out = <<>>
  /\ rx' = <<>>
  /\ pc' = "extract"
  /\ UNCHANGED <<out, wire, back, host, record>>

Drain ==
  /\ pc = "write" /\ out = <<>>
  /\ rx' = Drop(rx, PrefixLen + Announced)
  /\ pc' = "extract"
  /\ UNCHANGED <<out, wire, back, host, record>>

-----------------------------------------------------------------------------
Device ==
  \/ \E n \in 1..Chunk : DeviceReads(n)
  \/ AwaitMore \/ DropOversized \/ ServeFrame
  \/ \E n \in 0..Room : Writes(n)
  \/ Drain
Reading == \E n \in 1..Len(back) : HostReads(n)
Calls == \E body \in Bodies : \E n \in 0..Len(Frame(body)) : Call(body, n)

LinkNext == Device \/ WriteFails \/ Calls \/ Reading \/ GivesUp \/ Drains
LinkSpec == LinkInit /\ [][LinkNext]_linkVars

(* The serve loop runs, and a call reads what arrives.                     *)
LiveLink == LinkSpec /\ WF_linkVars(Device) /\ WF_linkVars(Reading)

-----------------------------------------------------------------------------
(* Properties.                                                             *)

LinkTypeOK ==
  /\ pc \in {"read", "extract", "write"}
  /\ rx \in Seq(Byte) /\ Len(rx) <= MaxRxFrame + PrefixLen
  /\ wire \in Seq(Byte) /\ back \in Seq(Byte) /\ Len(back) <= Room
  /\ Len(out) <= 2 /\ inbuf \in Seq(Byte)
  /\ calling \in BOOLEAN /\ tidy \in BOOLEAN /\ patient \in BOOLEAN
  /\ Len(sent) <= MaxCalls /\ Len(returned) <= Len(sent)

(* However the stream is cut into chunks, and with a call given up while   *)
(* its frame is under way, the appliance gets the frames that were sent,   *)
(* in order and unchanged, the longest one allowed too.                    *)
ServedAsSent == tidy => served = SubSeq(sent, 1, Len(served))

(* The device never sits on a frame, nor on a length it will not accept,   *)
(* whatever was torn or overflowed before: it waits only for the rest of a *)
(* frame that fits.                                                        *)
FrameAwaited == pc = "read" => Incomplete

(* A host that never gave up reads the answers to its own requests.        *)
CallsPaired ==
  tidy /\ patient =>
    \A i \in 1..Len(returned) : returned[i] = Response(sent[i])

(* Every call returns, one of the longest frame allowed too, and one whose *)
(* answer does not fit in the room there is.                               *)
CallReturns ==
  calling /\ tidy /\ patient ~> ~calling \/ ~tidy \/ ~patient

-----------------------------------------------------------------------------
(* The inductive strengthening.                                            *)

(* The types of the whole, and what the loop knows of its buffer.          *)
LinkInv ==
  /\ LinkTypeOK
  /\ sent \in Seq(Bodies) /\ served \in Seq(Seq(Byte))
  /\ returned \in Seq(Seq(Byte)) /\ out \in Seq(Seq(Byte))
  /\ pc # "write" => out = <<>>
  /\ calling => Len(returned) < Len(sent)
  /\ pc = "write" =>
       /\ served # <<>> /\ PrefixLen + Announced <= Len(rx)
       /\ PrefixLen <= Len(rx) /\ Announced <= MaxRxFrame

(* Frames whose bytes have left the receive buffer.                        *)
Drained == IF pc = "write" THEN Len(served) - 1 ELSE Len(served)

(* The bytes are, cut at "at", the frames of the bodies from c + 1 on.     *)
Framed(bytes, bodies, c) ==
  \E at \in [c..Len(bodies) -> 0..Len(bytes)] :
    /\ at[c] = 0 /\ at[Len(bodies)] = Len(bytes)
    /\ \A j, k \in c..Len(bodies) : j < k => at[j] <= at[k]
    /\ \A k \in c + 1..Len(bodies) :
         /\ at[k] = at[k - 1] + Len(Frame(bodies[k]))
         /\ SubSeq(bytes, at[k - 1] + 1, at[k]) = Frame(bodies[k])

(* What is in the buffer and on the wire fits in the buffer, and it is the *)
(* frames of the calls not drained yet.                                    *)
StreamInv ==
  tidy =>
    /\ Len(served) <= Len(sent) /\ ServedAsSent
    /\ \A k \in 1..Len(sent) : Len(sent[k]) <= MaxRxFrame
    /\ Len(rx \o wire) <= MaxRxFrame + PrefixLen
    /\ Framed(rx \o wire, sent, Drained)

(* What the device has yet to write.                                       *)
Unwritten == IF out = <<>> THEN <<>>
             ELSE IF Len(out) = 1 THEN out[1] ELSE out[1] \o out[2]

(* A patient host waits for one answer at a time, and what it has read of  *)
(* it, what is on the way and what is yet to be written make it up.        *)
AnswerInv ==
  tidy /\ patient =>
    /\ CallsPaired
    /\ calling => Len(returned) = Len(sent) - 1
    /\ ~calling => Len(returned) = Len(sent) /\ Len(served) = Len(sent)
    /\ IF calling /\ Len(served) = Len(sent)
       THEN (inbuf \o back) \o Unwritten = Frame(Response(sent[Len(sent)]))
       ELSE (inbuf \o back) \o Unwritten = <<>>
    /\ calling => Len(served) \in {Len(sent), Len(sent) - 1}
=============================================================================
